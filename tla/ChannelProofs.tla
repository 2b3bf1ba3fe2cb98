--------------------------- MODULE ChannelProofs ---------------------------
(***************************************************************************)
(* Proofs about ChannelNetwork and ChannelPatterns.                        *)
(***************************************************************************)
EXTENDS ChannelPatterns, SequenceTheorems, FiniteSetTheorems, TLAPS

\* What is assumed of the description of a goroutine.
LEMMA Described ==
  ASSUME prog \in DOMAIN Programs, NEW g \in Goroutines
  PROVE  /\ N(g).emits \in Seq(Int) /\ N(g).outs \in Seq(Nat)
         /\ N(g).emits # <<>> => N(g).outs # <<>>
         /\ N(g).takes \in Nat
         /\ N(g).awaits \subseteq Goroutines
  BY NetworkAssumption DEF N, Goroutines

\* The program of a behaviour stays.
LEMMA ProgramStays == ASSUME [Next]_vars PROVE prog' = prog
  BY DEF Next, vars, Emit, Transfer, EndOfInput, Handle, Check, Abandon, SendOnClosed,
         Finish, End

Places == {"next", "check", "send", "got", "end", "done"}

\* The types, with what TypeOK says in the next state of the program that stays.
Types ==
  /\ prog \in DOMAIN Programs
  /\ pc \in [Goroutines -> Places]
  /\ left \in [Goroutines -> Seq(Int)] /\ todo \in [Goroutines -> Seq(Nat)]
  /\ took \in [Goroutines -> Nat] /\ DOMAIN open = Goroutines
  /\ DOMAIN hand = Goroutines /\ DOMAIN within = Goroutines
  /\ \A g \in Goroutines :
       /\ took[g] <= N(g).takes
       /\ pc[g] \in {"check", "send"} => todo[g] # <<>>
       /\ pc[g] \in {"next", "got"} => todo[g] = <<>>
       /\ open[g] \subseteq N(g).ins
       /\ left[g] # <<>> => N(g).outs # <<>>
  /\ cancelled \in BOOLEAN /\ panicked \in BOOLEAN

LEMMA TailType ==
  ASSUME NEW S, NEW s \in Seq(S), s # <<>> PROVE Tail(s) \in Seq(S) /\ Head(s) \in S
  OBVIOUS

\* Where a value goes that is passed on in turn.
LEMMA RouteType ==
  ASSUME NEW outs \in Seq(Nat), outs # <<>>, NEW k \in Nat
  PROVE  /\ ((k - 1) % Len(outs)) + 1 \in DOMAIN outs
         /\ <<outs[((k - 1) % Len(outs)) + 1]>> \in Seq(Nat)
<1>1. Len(outs) \in Nat /\ Len(outs) > 0 /\ DOMAIN outs = 1 .. Len(outs)
  BY EmptySeq
<1> DEFINE len == Len(outs)
           i == (k - 1) % len
<1>2. i \in 0 .. len - 1
  <2> HIDE DEF len
  <2> QED
    BY <1>1 DEF len
<1> QED
  BY <1>1, <1>2

\* A transfer, by what it does to each variable.
LEMMA Transferred ==
  ASSUME Types, NEW s \in Goroutines, NEW r \in Goroutines, Transfer(s, r)
  PROVE  /\ s # r /\ pc[s] = "send" /\ pc[r] = "next"
         /\ left[r] = <<>> /\ took[r] < N(r).takes
         /\ Head(todo[s]) \in From(r) \ closed
         /\ todo' = [todo EXCEPT ![s] = Tail(todo[s])]
         /\ pc' \in [Goroutines -> Places]
         /\ pc'[s] = IF Tail(todo[s]) = <<>> THEN "next" ELSE ToSend(s)
         /\ pc'[r] = IF N(r).inner /\ within[r] = 0 THEN "next" ELSE "got"
         /\ \A g \in Goroutines \ {s, r} : pc'[g] = pc[g]
         /\ IF N(r).inner /\ within[r] = 0
              THEN /\ within' = [within EXCEPT ![r] = hand[s]]
                   /\ UNCHANGED <<took, hand>>
              ELSE /\ took' = [took EXCEPT ![r] = @ + 1]
                   /\ hand' = [hand EXCEPT ![r] = hand[s]] /\ within' = within
         /\ UNCHANGED <<prog, left, open, closed, cancelled, panicked, log>>
<1>1. /\ pc[s] = "send" /\ pc[r] = "next" /\ left[r] = <<>> /\ took[r] < N(r).takes
      /\ Head(todo[s]) \in From(r) \ closed
      /\ todo' = [todo EXCEPT ![s] = Tail(todo[s])]
      /\ UNCHANGED <<prog, left, open, closed, cancelled, panicked, log>>
  BY Zenon DEF Transfer, Receiving
<1>2. IF N(r).inner /\ within[r] = 0
        THEN /\ within' = [within EXCEPT ![r] = hand[s]]
             /\ UNCHANGED <<took, hand>>
        ELSE /\ took' = [took EXCEPT ![r] = @ + 1]
             /\ hand' = [hand EXCEPT ![r] = hand[s]] /\ within' = within
  BY Zenon DEF Transfer
<1>3. PICK sent : /\ sent = [pc EXCEPT ![s] = IF Tail(todo[s]) = <<>> THEN "next"
                                              ELSE ToSend(s)]
                  /\ pc' = IF N(r).inner /\ within[r] = 0 THEN sent
                           ELSE [sent EXCEPT ![r] = "got"]
  BY Zenon DEF Transfer
<1>4. /\ pc' \in [Goroutines -> Places]
      /\ pc'[s] = IF Tail(todo[s]) = <<>> THEN "next" ELSE ToSend(s)
      /\ pc'[r] = IF N(r).inner /\ within[r] = 0 THEN "next" ELSE "got"
      /\ \A g \in Goroutines \ {s, r} : pc'[g] = pc[g]
  BY <1>1, <1>3 DEF Types, Places, ToSend
<1> QED
  BY <1>1, <1>2, <1>4

\* Where a handled value goes.
Route(g) == IF N(g).turns THEN <<N(g).outs[((took[g] - 1) % Len(N(g).outs)) + 1]>>
            ELSE N(g).outs

\* What follows the receipt of a value, by what it does to each variable.
LEMMA Handled ==
  ASSUME Types, NEW g \in Goroutines, Handle(g)
  PROVE  /\ pc[g] = "got"
         /\ cancelled' = (cancelled \/ hand[g] \in N(g).stops)
         /\ panicked' = (hand[g] \in N(g).stops /\ N(g).twice /\ cancelled)
         /\ log' = IF N(g).logs /\ ~panicked'
                   THEN Append(log, IF N(g).says = <<>> THEN hand[g] ELSE N(g).says[took[g]])
                   ELSE log
         /\ IF N(g).outs = <<>> \/ (N(g).quiet /\ took[g] = N(g).takes)
              THEN pc' = [pc EXCEPT ![g] = "next"] /\ UNCHANGED <<hand, todo>>
              ELSE /\ pc' = [pc EXCEPT ![g] = ToSend(g)]
                   /\ hand' = [hand EXCEPT ![g] = IF N(g).square THEN hand[g] * hand[g]
                                                  ELSE N(g).times * hand[g]]
                   /\ todo' = [todo EXCEPT ![g] = Route(g)]
                   /\ Route(g) \in Seq(Nat) /\ Route(g) # <<>>
         /\ UNCHANGED <<prog, left, took, open, within, closed>>
<1>1. /\ pc[g] = "got"
      /\ cancelled' = (cancelled \/ hand[g] \in N(g).stops)
      /\ panicked' = (hand[g] \in N(g).stops /\ N(g).twice /\ cancelled)
      /\ log' = IF N(g).logs /\ ~panicked'
                THEN Append(log, IF N(g).says = <<>> THEN hand[g] ELSE N(g).says[took[g]])
                ELSE log
      /\ UNCHANGED <<prog, left, took, open, within, closed>>
  BY Zenon DEF Handle
<1>2. IF N(g).outs = <<>> \/ (N(g).quiet /\ took[g] = N(g).takes)
        THEN pc' = [pc EXCEPT ![g] = "next"] /\ UNCHANGED <<hand, todo>>
        ELSE /\ pc' = [pc EXCEPT ![g] = ToSend(g)]
             /\ hand' = [hand EXCEPT ![g] = IF N(g).square THEN hand[g] * hand[g]
                                            ELSE N(g).times * hand[g]]
             /\ todo' = [todo EXCEPT ![g] = Route(g)]
  BY Zenon DEF Handle, Goto, Route
<1>3. N(g).outs # <<>> => Route(g) \in Seq(Nat) /\ Route(g) # <<>>
  BY Described, RouteType DEF Types, Route
<1> QED
  BY <1>1, <1>2, <1>3, Zenon

\* Types are kept.
LEMMA TypeStep == Types /\ [Next]_vars => Types'
<1> SUFFICES ASSUME Types, [Next]_vars PROVE Types'
  OBVIOUS
<1>1. prog' = prog /\ Goroutines' = Goroutines /\ \A g : N(g)' = N(g)
  BY ProgramStays DEF Goroutines, N
<1>2. \A g \in Goroutines : N(g).outs \in Seq(Nat) /\ N(g).takes \in Nat
                            /\ (N(g).emits # <<>> => N(g).outs # <<>>)
  BY Described DEF Types
<1> USE <1>1, <1>2 DEF Types, Goto, ToSend, Places
<1>3. ASSUME NEW g \in Goroutines, Emit(g) PROVE Types'
  <2>1. Tail(left[g]) \in Seq(Int)
    BY <1>3 DEF Emit
  <2>2. N(g).outs # <<>> /\ N(g).outs \in Seq(Nat)
    BY <1>3 DEF Emit
  <2>3. left' \in [Goroutines -> Seq(Int)] /\ todo' \in [Goroutines -> Seq(Nat)]
    BY <1>3, <2>1, <2>2 DEF Emit
  <2> QED
    BY <1>3, <2>2, <2>3 DEF Emit
<1>4. ASSUME NEW s \in Goroutines, NEW r \in Goroutines, Transfer(s, r) PROVE Types'
  <2>1. /\ pc[s] = "send" /\ pc[r] = "next" /\ took[r] < N(r).takes /\ s # r
        /\ todo' = [todo EXCEPT ![s] = Tail(todo[s])]
        /\ pc' \in [Goroutines -> Places]
        /\ pc'[s] = IF Tail(todo[s]) = <<>> THEN "next" ELSE ToSend(s)
        /\ pc'[r] \in {"next", "got"}
        /\ \A g \in Goroutines \ {s, r} : pc'[g] = pc[g]
        /\ took' = took \/ took' = [took EXCEPT ![r] = @ + 1]
        /\ UNCHANGED <<left, open, cancelled, panicked>>
        /\ DOMAIN hand' = DOMAIN hand /\ DOMAIN within' = DOMAIN within
    <3> HIDE DEF Types, Places, ToSend
    <3> QED
      BY <1>4, Transferred
  <2>2. /\ todo' \in [Goroutines -> Seq(Nat)]
        /\ todo'[s] = Tail(todo[s]) /\ \A g \in Goroutines \ {s} : todo'[g] = todo[g]
    BY <2>1, TailType
  <2>3. took' \in [Goroutines -> Nat] /\ \A g \in Goroutines : took'[g] <= N(g).takes
    <3>1. /\ took \in [Goroutines -> Nat] /\ N(r).takes \in Nat
          /\ \A g \in Goroutines : took[g] <= N(g).takes
      OBVIOUS
    <3>2. took[r] \in Nat /\ took[r] + 1 <= N(r).takes
      BY <2>1, <3>1
    <3>3. took' = took \/ took' = [took EXCEPT ![r] = @ + 1]
      BY <2>1
    <3>4. ASSUME took' = [took EXCEPT ![r] = @ + 1]
          PROVE  took' \in [Goroutines -> Nat] /\ \A g \in Goroutines : took'[g] <= N(g).takes
      <4>1. took' \in [Goroutines -> Nat] /\ took'[r] = took[r] + 1
        BY <3>1, <3>2, <3>4
      <4>2. \A g \in Goroutines : g # r => took'[g] = took[g]
        BY <3>1, <3>4
      <4> HIDE DEF Types
      <4> QED
        BY <3>1, <3>2, <4>1, <4>2
    <3> QED
      BY <3>1, <3>3, <3>4
  <2>4. ToSend(s) \in {"check", "send"}
    OBVIOUS
  <2>5. ASSUME NEW g \in Goroutines
        PROVE  /\ pc'[g] \in {"check", "send"} => todo'[g] # <<>>
               /\ pc'[g] \in {"next", "got"} => todo'[g] = <<>>
    <3>1. /\ pc[g] \in {"check", "send"} => todo[g] # <<>>
          /\ pc[g] \in {"next", "got"} => todo[g] = <<>>
      OBVIOUS
    <3> HIDE DEF Types, ToSend, Places
    <3> QED
      BY <2>1, <2>2, <2>4, <3>1
  <2> QED
    BY <2>1, <2>2, <2>3, <2>5
<1>5. ASSUME NEW g \in Goroutines, EndOfInput(g) PROVE Types'
  <2>1. open' = open \/ \E ch : open' = [open EXCEPT ![g] = @ \ {ch}]
    BY <1>5, Zenon DEF EndOfInput
  <2>2. DOMAIN open' = Goroutines /\ \A x \in Goroutines : open'[x] \subseteq open[x]
    BY <2>1
  <2>3. UNCHANGED <<prog, pc, left, took, hand, todo, cancelled, panicked>>
    BY <1>5 DEF EndOfInput
  <2>4. within' = within \/ within' = [within EXCEPT ![g] = 0]
    BY <1>5, Zenon DEF EndOfInput
  <2>5. DOMAIN within' = DOMAIN within
    BY <2>4
  <2> QED
    BY <2>2, <2>3, <2>5
<1>6. ASSUME NEW g \in Goroutines, Handle(g) PROVE Types'
  <2>1. /\ pc[g] = "got" /\ cancelled' \in BOOLEAN /\ panicked' \in BOOLEAN
        /\ UNCHANGED <<left, took, open, within>> /\ DOMAIN hand' = DOMAIN hand
        /\ \/ pc' = [pc EXCEPT ![g] = "next"] /\ todo' = todo
           \/ /\ pc' = [pc EXCEPT ![g] = ToSend(g)]
              /\ \E chs \in Seq(Nat) : chs # <<>> /\ todo' = [todo EXCEPT ![g] = chs]
    BY <1>6, Handled
  <2>2. CASE pc' = [pc EXCEPT ![g] = "next"] /\ todo' = todo
    BY <2>1, <2>2
  <2>3. ASSUME NEW chs \in Seq(Nat), chs # <<>>, todo' = [todo EXCEPT ![g] = chs],
               pc' = [pc EXCEPT ![g] = ToSend(g)]
        PROVE  Types'
    BY <2>1, <2>3
  <2> QED
    BY <2>1, <2>2, <2>3
<1>7. ASSUME NEW g \in Goroutines, Check(g) PROVE Types'
  BY <1>7 DEF Check
<1>8. ASSUME NEW g \in Goroutines, Abandon(g) PROVE Types'
  BY <1>8 DEF Abandon
<1>9. ASSUME NEW g \in Goroutines, SendOnClosed(g) PROVE Types'
  BY <1>9 DEF SendOnClosed
<1>10. ASSUME NEW g \in Goroutines, Finish(g) PROVE Types'
  BY <1>10 DEF Finish
<1>11. ASSUME NEW g \in Goroutines, End(g) PROVE Types'
  BY <1>11 DEF End
<1>12. CASE UNCHANGED vars
  BY <1>12 DEF vars
<1> QED
  BY <1>3, <1>4, <1>5, <1>6, <1>7, <1>8, <1>9, <1>10, <1>11, <1>12 DEF Next

\* At the start nobody has done anything.
LEMMA TypeInit == Init => Types
<1> SUFFICES ASSUME Init PROVE Types
  OBVIOUS
<1>1. \A g \in Goroutines :
        /\ N(g).emits \in Seq(Int) /\ N(g).takes \in Nat
        /\ N(g).emits # <<>> => N(g).outs # <<>>
  BY Described DEF Init
<1>2. /\ prog \in DOMAIN Programs /\ cancelled = FALSE /\ panicked = FALSE
      /\ pc = [g \in Goroutines |-> "next"]
      /\ took = [g \in Goroutines |-> 0]
      /\ todo = [g \in Goroutines |-> <<>>]
      /\ left = [g \in Goroutines |-> N(g).emits]
      /\ open = [g \in Goroutines |-> N(g).ins]
      /\ DOMAIN hand = Goroutines /\ DOMAIN within = Goroutines
  BY DEF Init
<1>3. took \in [Goroutines -> Nat] /\ \A g \in Goroutines : took[g] <= N(g).takes
  BY <1>1, <1>2
<1>4. left \in [Goroutines -> Seq(Int)] /\ todo \in [Goroutines -> Seq(Nat)]
  BY <1>1, <1>2
<1> QED
  BY <1>1, <1>2, <1>3, <1>4 DEF Types, Places

\* What TypeOK says of the types is part of it.
LEMMA TypesOK == Types => TypeOK
<1> SUFFICES ASSUME Types PROVE TypeOK
  OBVIOUS
<1>1. ASSUME NEW g \in Goroutines
      PROVE  /\ took[g] \in 0 .. N(g).takes
             /\ pc[g] \in {"check", "send"}
                  <=> todo[g] # <<>> /\ pc[g] \notin {"end", "done"}
             /\ open[g] \subseteq N(g).ins
  BY <1>1, Described DEF Types, Places
<1> QED
  BY <1>1 DEF TypeOK, Types, Places

Behaves == Init /\ [][Next]_vars

\* FairSpec without its fairness.
LEMMA FairSpecBehaves == FairSpec => Behaves
  BY PTL DEF FairSpec, Behaves

LEMMA TypesHold == Behaves => []Types
  BY TypeInit, TypeStep, PTL DEF Behaves

\* Of every network: a goroutine that is at a send has a channel to send on and
\* one that is not has none, unless it gave up, and nobody takes more values than
\* it wants.
THEOREM TypesCorrect == FairSpec => []TypeOK
  BY FairSpecBehaves, TypesHold, TypesOK, PTL
-----------------------------------------------------------------------------
(* Who closes a channel and who sends on it                                *)

\* A goroutine ends by End, and stays so.
LEMMA EndedStays ==
  ASSUME Types, [Next]_vars, NEW g \in Goroutines
  PROVE  /\ pc[g] = "done" => pc'[g] = "done"
         /\ pc'[g] = "done" => pc[g] = "done" \/ End(g)
<1> USE DEF Types, Goto, ToSend, Places
<1>1. ASSUME NEW x \in Goroutines, Emit(x) PROVE pc'[g] = "done" <=> pc[g] = "done"
  BY <1>1 DEF Emit
<1>2. ASSUME NEW x \in Goroutines, NEW r \in Goroutines, Transfer(x, r)
      PROVE  pc'[g] = "done" <=> pc[g] = "done"
  <2>1. /\ pc[x] = "send" /\ pc[r] = "next" /\ x # r
        /\ pc'[x] \in {"next", "check", "send"} /\ pc'[r] \in {"next", "got"}
        /\ \A y \in Goroutines \ {x, r} : pc'[y] = pc[y]
    BY SMTT(30), <1>2, Transferred
  <2> QED
    BY <2>1
<1>3. ASSUME NEW x \in Goroutines, EndOfInput(x) PROVE pc' = pc
  BY <1>3 DEF EndOfInput
<1>4. ASSUME NEW x \in Goroutines, Handle(x) PROVE pc'[g] = "done" <=> pc[g] = "done"
  <2>1. pc[x] = "got" /\ \E there \in {"next", "check", "send"} : pc' = [pc EXCEPT ![x] = there]
    BY <1>4, Handled
  <2> QED
    BY <2>1
<1>5. ASSUME NEW x \in Goroutines, Check(x) \/ Abandon(x) \/ SendOnClosed(x) \/ Finish(x)
      PROVE  pc'[g] = "done" <=> pc[g] = "done"
  BY <1>5 DEF Check, Abandon, Receiving, SendOnClosed, Finish
<1>6. ASSUME NEW x \in Goroutines, End(x)
      PROVE  pc[x] = "end" /\ pc' = [pc EXCEPT ![x] = "done"]
  BY <1>6 DEF End
<1>7. CASE UNCHANGED vars
  BY <1>7 DEF vars
<1> QED
  BY <1>1, <1>2, <1>3, <1>4, <1>5, <1>6, <1>7 DEF Next

\* The channels a goroutine sends on are those of its description.
OutsInv ==
  \A g \in Goroutines : \A i \in 1 .. Len(todo[g]) : \E j \in 1 .. Len(N(g).outs) :
    todo[g][i] = N(g).outs[j]

LEMMA OutsStep == Types /\ OutsInv /\ [Next]_vars => OutsInv'
<1> SUFFICES ASSUME Types, OutsInv, [Next]_vars PROVE OutsInv'
  OBVIOUS
<1>1. prog' = prog /\ Goroutines' = Goroutines /\ \A g : N(g)' = N(g)
  BY ProgramStays DEF Goroutines, N
<1>2. \A g \in Goroutines : N(g).outs \in Seq(Nat) /\ todo[g] \in Seq(Nat)
  BY Described DEF Types
<1> DEFINE Within(chs, g) ==
      \A i \in 1 .. Len(chs) : \E j \in 1 .. Len(N(g).outs) : chs[i] = N(g).outs[j]
<1>3. ASSUME NEW g \in Goroutines, NEW chs, todo' = [todo EXCEPT ![g] = chs], Within(chs, g)
      PROVE  OutsInv'
  <2>1. DOMAIN todo = Goroutines
    BY DEF Types
  <2>2. todo'[g] = chs /\ \A x \in Goroutines \ {g} : todo'[x] = todo[x]
    BY <1>3, <2>1
  <2>3. ASSUME NEW x \in Goroutines PROVE Within(todo'[x], x)
    <3>1. CASE x = g
      BY <1>3, <2>2, <3>1
    <3>2. CASE x # g
      BY <2>2, <3>2 DEF OutsInv
    <3> QED
      BY <3>1, <3>2
  <2> QED
    BY <1>1, <2>3 DEF OutsInv
<1>4. ASSUME UNCHANGED todo PROVE OutsInv'
  BY <1>1, <1>4 DEF OutsInv
<1>5. ASSUME NEW g \in Goroutines, Emit(g) PROVE OutsInv'
  BY <1>2, <1>3, <1>5 DEF Emit
<1>6. ASSUME NEW s \in Goroutines, NEW r \in Goroutines, Transfer(s, r) PROVE OutsInv'
  <2>1. todo' = [todo EXCEPT ![s] = Tail(todo[s])] /\ todo[s] # <<>> /\ todo[s] \in Seq(Nat)
    BY <1>2, <1>6, Transferred DEF Types
  <2>2. /\ Len(Tail(todo[s])) = Len(todo[s]) - 1 /\ Len(todo[s]) \in Nat
        /\ \A i \in 1 .. Len(Tail(todo[s])) : Tail(todo[s])[i] = todo[s][i + 1]
    BY <2>1
  <2>3. ASSUME NEW i \in 1 .. Len(Tail(todo[s]))
        PROVE  \E j \in 1 .. Len(N(s).outs) : Tail(todo[s])[i] = N(s).outs[j]
    <3>1. i + 1 \in 1 .. Len(todo[s])
      BY <2>2
    <3> QED
      BY <2>2, <3>1 DEF OutsInv
  <2> QED
    BY <1>3, <2>1, <2>3
<1>7. ASSUME NEW g \in Goroutines, Handle(g) PROVE OutsInv'
  <2>1. todo' = todo \/ (todo' = [todo EXCEPT ![g] = Route(g)] /\ N(g).outs # <<>>)
    BY <1>7, Handled, Zenon
  <2>2. CASE N(g).outs # <<>>
    <3>1. Within(N(g).outs, g)
      OBVIOUS
    <3>2. took[g] \in Nat
      BY DEF Types
    <3> DEFINE i == ((took[g] - 1) % Len(N(g).outs)) + 1
    <3>3. i \in 1 .. Len(N(g).outs)
      BY <1>2, <2>2, <3>2, RouteType
    <3> HIDE DEF i
    <3>4. Within(<<N(g).outs[i]>>, g)
      BY <3>3
    <3>5. Route(g) = IF N(g).turns THEN <<N(g).outs[i]>> ELSE N(g).outs
      BY DEF Route, i
    <3>6. Within(Route(g), g)
      BY <3>1, <3>4, <3>5, Zenon
    <3> QED
      BY <1>3, <1>4, <2>1, <3>6
  <2> QED
    BY <1>4, <2>1, <2>2
<1> QED
  BY <1>4, <1>5, <1>6, <1>7
  DEF Next, vars, EndOfInput, Check, Abandon, SendOnClosed, Finish, End
\* Each channel has one goroutine that closes it, which is the only one that sends
\* on it or waits for those that do, and nobody closes what a value makes it close
\* a second time.
Disciplined(program) ==
  \A g \in DOMAIN program :
    /\ ~program[g].twice
    /\ \A h \in DOMAIN program :
         /\ program[g].closes \intersect program[h].closes # {} => g = h
         /\ \A i \in DOMAIN program[g].outs :
              program[g].outs[i] \in program[h].closes => g = h \/ g \in program[h].awaits

\* A channel is closed by one that has ended, after those it waits for.
CloseInv ==
  /\ \A ch \in closed : \E h \in Goroutines : ch \in N(h).closes /\ pc[h] = "done"
  /\ \A h \in Goroutines : pc[h] = "done" => \A g \in N(h).awaits : pc[g] = "done"

LEMMA CloseStep == Types /\ CloseInv /\ [Next]_vars => CloseInv'
<1> SUFFICES ASSUME Types, CloseInv, [Next]_vars PROVE CloseInv'
  OBVIOUS
<1>1. prog' = prog /\ Goroutines' = Goroutines /\ \A g : N(g)' = N(g)
  BY ProgramStays DEF Goroutines, N
<1>2. closed' = closed \/ \E g \in Goroutines : End(g) /\ closed' = closed \union N(g).closes
  BY DEF Next, vars, Emit, Transfer, EndOfInput, Handle, Check, Abandon, SendOnClosed,
         Finish, End
<1>3. ASSUME NEW g \in Goroutines
      PROVE  /\ pc[g] = "done" => pc'[g] = "done"
             /\ pc'[g] = "done" => pc[g] = "done" \/ End(g)
  BY EndedStays
<1>4. ASSUME NEW g \in Goroutines, End(g)
      PROVE  pc'[g] = "done" /\ \A h \in N(g).awaits : pc[h] = "done"
  BY <1>4 DEF End, Awaited, Goto, Types
<1>5. ASSUME NEW ch \in closed'
      PROVE  \E h \in Goroutines : ch \in N(h).closes /\ pc'[h] = "done"
  BY <1>2, <1>3, <1>4 DEF CloseInv
<1>6. ASSUME NEW h \in Goroutines, pc'[h] = "done", NEW g \in N(h).awaits
      PROVE  pc'[g] = "done"
  <2>1. g \in Goroutines
    BY Described DEF Types
  <2>2. pc[g] = "done"
    BY <1>3, <1>4, <1>6 DEF CloseInv
  <2> QED
    BY <1>3, <2>1, <2>2
<1> QED
  BY <1>1, <1>5, <1>6 DEF CloseInv

\* Whoever may send on a closed channel of a disciplined program has ended.
LEMMA SendersEnded ==
  ASSUME CloseInv, Disciplined(Programs[prog]), NEW g \in Goroutines,
         NEW i \in DOMAIN N(g).outs, N(g).outs[i] \in closed
  PROVE  pc[g] = "done"
<1>1. PICK h \in Goroutines : N(g).outs[i] \in N(h).closes /\ pc[h] = "done"
  BY DEF CloseInv
<1>2. g = h \/ g \in N(h).awaits
  BY <1>1 DEF Disciplined, Goroutines, N
<1> QED
  BY <1>1, <1>2 DEF CloseInv

\* A step of a disciplined program does not panic.
LEMMA NoPanicStep ==
  ASSUME Types, OutsInv, CloseInv, Disciplined(Programs[prog]), ~panicked, [Next]_vars
  PROVE  ~panicked'
<1>1. ASSUME NEW g \in Goroutines, Handle(g) PROVE ~panicked'
  <2>1. ~N(g).twice
    BY DEF Disciplined, Goroutines, N
  <2> QED
    BY <1>1, <2>1, Handled
<1>2. ASSUME NEW g \in Goroutines, SendOnClosed(g) PROVE FALSE
  <2>1. pc[g] = "send" /\ Head(todo[g]) \in closed
    BY <1>2 DEF SendOnClosed
  <2>2. todo[g] \in Seq(Nat) /\ todo[g] # <<>> /\ N(g).outs \in Seq(Nat)
    BY <2>1, Described DEF Types
  <2>3. 1 \in 1 .. Len(todo[g]) /\ Head(todo[g]) = todo[g][1]
    BY <2>2, EmptySeq
  <2>4. PICK i \in 1 .. Len(N(g).outs) : N(g).outs[i] \in closed
    BY <2>1, <2>3 DEF OutsInv
  <2>5. pc[g] = "done"
    BY <2>2, <2>4, SendersEnded
  <2> QED
    BY <2>1, <2>5
<1>3. ASSUME NEW g \in Goroutines, End(g) PROVE ~panicked'
  <2>1. pc[g] = "end" /\ panicked' = (N(g).closes \intersect closed # {})
    BY <1>3 DEF End
  <2>2. ASSUME NEW ch \in N(g).closes \intersect closed PROVE FALSE
    <3>1. PICK h \in Goroutines : ch \in N(h).closes /\ pc[h] = "done"
      BY DEF CloseInv
    <3>2. g = h
      BY <3>1 DEF Disciplined, Goroutines, N
    <3> QED
      BY <2>1, <3>1, <3>2
  <2> QED
    BY <2>1, <2>2
<1>4. \/ \E g \in Goroutines : Handle(g) \/ SendOnClosed(g) \/ End(g)
      \/ UNCHANGED panicked
  BY DEF Next, vars, Emit, Transfer, EndOfInput, Check, Abandon, Finish
<1> QED
  BY <1>1, <1>2, <1>3, <1>4

\* What holds of every network.
NetworkInv == Types /\ OutsInv /\ CloseInv /\ (Disciplined(Programs[prog]) => ~panicked)

LEMMA NetworkInit == Init => NetworkInv
<1> SUFFICES ASSUME Init PROVE NetworkInv
  OBVIOUS
<1>1. OutsInv
  <2>1. \A g \in Goroutines : Len(todo[g]) = 0
    BY DEF Init
  <2> QED
    BY <2>1 DEF OutsInv
<1>2. CloseInv
  BY DEF Init, CloseInv
<1> QED
  BY <1>1, <1>2, TypeInit DEF Init, NetworkInv

LEMMA NetworkStep == NetworkInv /\ [Next]_vars => NetworkInv'
  BY TypeStep, OutsStep, CloseStep, NoPanicStep, ProgramStays DEF NetworkInv

LEMMA NetworkHolds == Behaves => []NetworkInv
  BY NetworkInit, NetworkStep, PTL DEF Behaves

\* Nobody in a disciplined program sends on a closed channel, or closes one twice.
THEOREM DisciplinedNeverPanics ==
  FairSpec => [](Disciplined(Programs[prog]) => ~panicked)
<1>1. NetworkInv => (Disciplined(Programs[prog]) => ~panicked)
  BY DEF NetworkInv
<1> QED
  BY <1>1, FairSpecBehaves, NetworkHolds, PTL

\* Whoever ends, without a cancellation, has sent what it had and received all
\* that comes or all that it wants.
ReceivedInv ==
  \A g \in Goroutines :
    /\ \A ch \in N(g).ins : ch \in open[g] \/ ch \in closed
    /\ ~cancelled /\ pc[g] \in {"end", "done"} =>
         /\ left[g] = <<>> /\ todo[g] = <<>>
         /\ took[g] < N(g).takes => open[g] = {}

LEMMA ReceivedStep == Types /\ ReceivedInv /\ [Next]_vars => ReceivedInv'
<1> SUFFICES ASSUME Types, ReceivedInv, [Next]_vars PROVE ReceivedInv'
  OBVIOUS
<1>1. prog' = prog /\ Goroutines' = Goroutines /\ \A g : N(g)' = N(g)
  BY ProgramStays DEF Goroutines, N
<1> USE <1>1 DEF Types, ReceivedInv, Goto, ToSend, Places
<1>3. ASSUME NEW g \in Goroutines, Emit(g) PROVE ReceivedInv'
  BY <1>3 DEF Emit
<1>4. ASSUME NEW s \in Goroutines, NEW r \in Goroutines, Transfer(s, r) PROVE ReceivedInv'
  <2>1. /\ pc[s] = "send" /\ pc[r] = "next" /\ s # r
        /\ todo' = [todo EXCEPT ![s] = Tail(todo[s])]
        /\ pc'[s] \in {"next", "check", "send"}
        /\ pc'[r] \in {"next", "got"}
        /\ \A g \in Goroutines \ {s, r} : pc'[g] = pc[g]
        /\ took' = took \/ took' = [took EXCEPT ![r] = @ + 1]
        /\ UNCHANGED <<left, open, closed, cancelled>>
    <3>1. ToSend(s) \in {"check", "send"}
      OBVIOUS
    <3> HIDE DEF Types, ToSend, Places, ReceivedInv
    <3> QED
      BY <1>4, <3>1, Transferred
  <2>2. \A g \in Goroutines \ {s, r} : todo'[g] = todo[g] /\ took'[g] = took[g]
    BY <2>1
  <2> QED
    BY <2>1, <2>2
<1>5. ASSUME NEW g \in Goroutines, EndOfInput(g) PROVE ReceivedInv'
  <2>1. /\ open' = open \/ \E ch \in closed : open' = [open EXCEPT ![g] = @ \ {ch}]
        /\ UNCHANGED <<pc, left, took, todo, closed, cancelled>>
    BY <1>5, Zenon DEF EndOfInput
  <2>2. \A x \in Goroutines :
          /\ open'[x] \subseteq open[x]
          /\ \A ch \in open[x] : ch \in open'[x] \/ ch \in closed
    <3>1. ASSUME NEW ch \in closed, open' = [open EXCEPT ![g] = @ \ {ch}],
                 NEW x \in Goroutines
          PROVE  open'[x] = IF x = g THEN open[x] \ {ch} ELSE open[x]
      BY <3>1
    <3> HIDE DEF Types, ReceivedInv, Places
    <3> QED
      BY <2>1, <3>1
  <2> QED
    BY <2>1, <2>2
<1>6. ASSUME NEW g \in Goroutines, Handle(g) PROVE ReceivedInv'
  <2>1. /\ pc[g] = "got" /\ cancelled \in BOOLEAN /\ (cancelled => cancelled')
        /\ UNCHANGED <<left, took, open, closed>>
        /\ \A x \in Goroutines \ {g} : pc'[x] = pc[x] /\ todo'[x] = todo[x]
        /\ pc'[g] \in {"next", "check", "send"}
    BY <1>6, Handled
  <2>2. ASSUME NEW x \in Goroutines, pc'[x] \in {"end", "done"}
        PROVE  x # g /\ pc[x] = pc'[x] /\ todo'[x] = todo[x]
    BY <2>1, <2>2
  <2> QED
    BY <2>1, <2>2
<1>7. ASSUME NEW g \in Goroutines, Check(g) PROVE ReceivedInv'
  BY <1>7 DEF Check
<1>8. ASSUME NEW g \in Goroutines, Abandon(g) PROVE ReceivedInv'
  BY <1>8 DEF Abandon
<1>9. ASSUME NEW g \in Goroutines, SendOnClosed(g) PROVE ReceivedInv'
  BY <1>9 DEF SendOnClosed
<1>10. ASSUME NEW g \in Goroutines, Finish(g) PROVE ReceivedInv'
  BY <1>10 DEF Finish, Receiving, From
<1>11. ASSUME NEW g \in Goroutines, End(g) PROVE ReceivedInv'
  BY <1>11 DEF End
<1>12. CASE UNCHANGED vars
  BY <1>12 DEF vars
<1> QED
  BY <1>3, <1>4, <1>5, <1>6, <1>7, <1>8, <1>9, <1>10, <1>11, <1>12 DEF Next

\* A goroutine that ends while nothing is cancelled leaves nothing behind: it has
\* sent what it had, and unless it has the number of values it wants, everybody who
\* sends to it has ended and has sent what it had.
NothingLeftBehind ==
  Disciplined(Programs[prog]) /\ ~cancelled =>
    \A g \in Goroutines : pc[g] \in {"end", "done"} =>
      /\ left[g] = <<>> /\ todo[g] = <<>>
      /\ took[g] < N(g).takes =>
           \A s \in Goroutines : \A i \in DOMAIN N(s).outs : N(s).outs[i] \in N(g).ins =>
             pc[s] = "done" /\ left[s] = <<>> /\ todo[s] = <<>>

LEMMA NothingBehind == NetworkInv /\ ReceivedInv => NothingLeftBehind
<1> SUFFICES ASSUME NetworkInv, ReceivedInv, Disciplined(Programs[prog]), ~cancelled,
                    NEW g \in Goroutines, pc[g] \in {"end", "done"}
             PROVE  /\ left[g] = <<>> /\ todo[g] = <<>>
                    /\ took[g] < N(g).takes =>
                         \A s \in Goroutines : \A i \in DOMAIN N(s).outs :
                           N(s).outs[i] \in N(g).ins =>
                             pc[s] = "done" /\ left[s] = <<>> /\ todo[s] = <<>>
  BY DEF NothingLeftBehind
<1>1. ASSUME took[g] < N(g).takes, NEW s \in Goroutines, NEW i \in DOMAIN N(s).outs,
             N(s).outs[i] \in N(g).ins
      PROVE  pc[s] = "done"
  <2>1. N(s).outs[i] \in closed
    BY <1>1 DEF ReceivedInv
  <2> QED
    BY <2>1, SendersEnded DEF NetworkInv
<1> QED
  BY <1>1 DEF ReceivedInv

LEMMA ReceivedInit == Init => ReceivedInv
  BY DEF Init, ReceivedInv

\* In every disciplined program, nothing is left behind.
THEOREM NothingIsLeftBehind == FairSpec => []NothingLeftBehind
<1>1. NetworkInv /\ ReceivedInv /\ [Next]_vars => ReceivedInv'
  BY ReceivedStep DEF NetworkInv
<1> QED
  BY <1>1, NothingBehind, ReceivedInit, FairSpecBehaves, NetworkHolds, PTL DEF Behaves
-----------------------------------------------------------------------------
(* What the patterns log                                                   *)

\* A prefix is a part of the whole as a bag.
LEMMA PrefixIsPart ==
  ASSUME NEW S, NEW s \in Seq(S), NEW T, NEW t \in Seq(T), Len(s) <= Len(t),
         \A i \in 1 .. Len(s) : s[i] = t[i]
  PROVE  /\ ToBag(s) \sqsubseteq ToBag(t)
         /\ IsPrefix(s, t)
<1>1. ASSUME NEW x \in Range(s)
      PROVE  /\ x \in Range(t)
             /\ Cardinality({i \in DOMAIN s : s[i] = x})
                  <= Cardinality({i \in DOMAIN t : t[i] = x})
  <2>1. {i \in DOMAIN s : s[i] = x} \subseteq {i \in DOMAIN t : t[i] = x}
    OBVIOUS
  <2>2. IsFiniteSet({i \in DOMAIN t : t[i] = x})
    <3>1. IsFiniteSet(1 .. Len(t))
      BY FS_Interval, LenProperties
    <3>2. {i \in DOMAIN t : t[i] = x} \subseteq 1 .. Len(t)
      OBVIOUS
    <3> QED
      BY <3>1, <3>2, FS_Subset
  <2>3. x \in Range(t)
    BY <1>1 DEF Range
  <2> QED
    BY <2>1, <2>2, <2>3, FS_Subset
<1>2. ToBag(s) \sqsubseteq ToBag(t)
  BY <1>1 DEF ToBag, \sqsubseteq
<1>3. IsPrefix(s, t)
  BY DEF IsPrefix
<1> QED
  BY <1>2, <1>3

\* A goroutine without selects, cancellations and channels of channels.
Plain(node) ==
  ~node.inner /\ ~node.cancels /\ node.stops = {} /\ node.recv = "plain" /\ node.send = "plain"

AllPlain == \A g \in Goroutines : Plain(N(g))

\* Nothing of these is ever in use where they are absent.
PlainInv == ~cancelled /\ \A g \in Goroutines : within[g] = 0 /\ pc[g] # "check"

\* The actions, where they are absent.
EmitPlain(g) ==
  /\ pc[g] = "next" /\ left[g] # <<>>
  /\ left' = [left EXCEPT ![g] = Tail(left[g])]
  /\ hand' = [hand EXCEPT ![g] = Head(left[g])]
  /\ todo' = [todo EXCEPT ![g] = N(g).outs]
  /\ log' = IF N(g).logs THEN Append(log, Head(left[g])) ELSE log
  /\ pc' = [pc EXCEPT ![g] = "send"]
  /\ UNCHANGED <<took, open, closed>>

TransferPlain(s, r) ==
  /\ s # r /\ pc[s] = "send" /\ pc[r] = "next" /\ left[r] = <<>> /\ took[r] < N(r).takes
  /\ Head(todo[s]) \in open[r] \ closed
  /\ todo' = [todo EXCEPT ![s] = Tail(todo[s])]
  /\ pc' = [pc EXCEPT ![s] = IF Tail(todo[s]) = <<>> THEN "next" ELSE "send", ![r] = "got"]
  /\ took' = [took EXCEPT ![r] = took[r] + 1]
  /\ hand' = [hand EXCEPT ![r] = hand[s]]
  /\ UNCHANGED <<left, open, closed, log>>

EndOfInputPlain(g) ==
  /\ pc[g] = "next" /\ took[g] < N(g).takes
  /\ \E ch \in open[g] \intersect closed : open' = [open EXCEPT ![g] = open[g] \ {ch}]
  /\ UNCHANGED <<pc, left, took, hand, todo, closed, log>>

HandlePlain(g) ==
  /\ pc[g] = "got"
  /\ log' = IF N(g).logs
              THEN Append(log, IF N(g).says = <<>> THEN hand[g] ELSE N(g).says[took[g]])
              ELSE log
  /\ IF N(g).outs = <<>> \/ (N(g).quiet /\ took[g] = N(g).takes)
       THEN pc' = [pc EXCEPT ![g] = "next"] /\ UNCHANGED <<hand, todo>>
       ELSE /\ pc' = [pc EXCEPT ![g] = "send"]
            /\ hand' = [hand EXCEPT ![g] = IF N(g).square THEN hand[g] * hand[g]
                                           ELSE N(g).times * hand[g]]
            /\ todo' = [todo EXCEPT ![g] = Route(g)]
  /\ UNCHANGED <<left, took, open, closed>>

FinishPlain(g) ==
  /\ pc[g] = "next" /\ left[g] = <<>> /\ (took[g] < N(g).takes => open[g] = {})
  /\ pc' = [pc EXCEPT ![g] = "end"]
  /\ UNCHANGED <<left, took, hand, todo, open, closed, log>>

EndPlain(g) ==
  /\ pc[g] = "end" /\ Awaited(g)
  /\ pc' = [pc EXCEPT ![g] = "done"]
  /\ closed' = closed \union N(g).closes
  /\ UNCHANGED <<left, took, hand, todo, open, log>>

\* What a step of such a program is.
NextPlain ==
  \/ \E g \in Goroutines :
       \/ EmitPlain(g) \/ EndOfInputPlain(g) \/ HandlePlain(g) \/ FinishPlain(g) \/ EndPlain(g)
       \/ \E r \in Goroutines : TransferPlain(g, r)
  \/ UNCHANGED <<pc, left, took, hand, todo, open, closed, log>>

\* A step panics only by a send on a closed channel or by a second close, and there
\* is none of the latter when each channel has one goroutine that closes it.
LEMMA NoPanicPlain ==
  ASSUME CloseInv, AllPlain, ~panicked, [Next]_vars,
         \A g \in Goroutines : pc[g] = "send" => Head(todo[g]) \notin closed,
         \A g, h \in Goroutines : N(g).closes \intersect N(h).closes # {} => g = h
  PROVE  ~panicked'
<1>1. ASSUME NEW g \in Goroutines, Handle(g) PROVE ~panicked'
  <2>1. N(g).stops = {}
    BY DEF AllPlain, Plain
  <2> QED
    BY <1>1, <2>1 DEF Handle
<1>2. ASSUME NEW g \in Goroutines, SendOnClosed(g) PROVE FALSE
  BY <1>2 DEF SendOnClosed
<1>3. ASSUME NEW g \in Goroutines, End(g) PROVE ~panicked'
  <2>1. pc[g] = "end" /\ panicked' = (N(g).closes \intersect closed # {})
    BY <1>3 DEF End
  <2>2. ASSUME NEW ch \in N(g).closes \intersect closed PROVE FALSE
    <3>1. PICK h \in Goroutines : ch \in N(h).closes /\ pc[h] = "done"
      BY DEF CloseInv
    <3>2. g = h
      BY <3>1
    <3> QED
      BY <2>1, <3>1, <3>2
  <2> QED
    BY <2>1, <2>2
<1>4. \/ \E g \in Goroutines : Handle(g) \/ SendOnClosed(g) \/ End(g)
      \/ UNCHANGED panicked
  BY DEF Next, vars, Emit, Transfer, EndOfInput, Check, Abandon, Finish
<1> QED
  BY <1>1, <1>2, <1>3, <1>4

LEMMA PlainStep ==
  ASSUME Types, AllPlain, PlainInv, [Next]_vars
  PROVE  NextPlain /\ PlainInv'
<1>1. prog' = prog /\ Goroutines' = Goroutines /\ \A g : N(g)' = N(g)
  BY ProgramStays DEF Goroutines, N
<1>2. ASSUME NEW g \in Goroutines
      PROVE  /\ ~N(g).inner /\ ~N(g).cancels /\ N(g).stops = {}
             /\ N(g).recv = "plain" /\ N(g).send = "plain"
             /\ ToSend(g) = "send" /\ From(g) = open[g] /\ within[g] = 0 /\ ~cancelled
  BY DEF AllPlain, Plain, PlainInv, ToSend, From
<1>3. DOMAIN pc = Goroutines /\ DOMAIN within = Goroutines
      /\ \A g \in Goroutines : took[g] \in Nat /\ N(g).takes \in Nat
  BY Described DEF Types
<1>4. ASSUME NEW g \in Goroutines, Emit(g) PROVE NextPlain /\ PlainInv'
  <2>1. EmitPlain(g)
    BY <1>2, <1>4 DEF Emit, EmitPlain, Goto
  <2>2. UNCHANGED <<within, cancelled>>
    BY <1>4 DEF Emit
  <2> QED
    BY <1>1, <1>3, <2>1, <2>2 DEF NextPlain, PlainInv, EmitPlain
<1>5. ASSUME NEW s \in Goroutines, NEW r \in Goroutines, Transfer(s, r)
      PROVE  NextPlain /\ PlainInv'
  <2>1. TransferPlain(s, r) /\ UNCHANGED <<within, cancelled>>
    <3>1. /\ s # r /\ pc[s] = "send" /\ pc[r] = "next" /\ left[r] = <<>>
          /\ took[r] < N(r).takes /\ Head(todo[s]) \in open[r] \ closed
      BY <1>2, <1>5, Transferred
    <3>2. /\ took' = [took EXCEPT ![r] = took[r] + 1]
          /\ hand' = [hand EXCEPT ![r] = hand[s]]
          /\ todo' = [todo EXCEPT ![s] = Tail(todo[s])]
          /\ UNCHANGED <<left, open, within, closed, cancelled, log>>
      BY <1>2, <1>5, Transferred
    <3>3. pc' = [pc EXCEPT ![s] = IF Tail(todo[s]) = <<>> THEN "next" ELSE "send",
                           ![r] = "got"]
      BY <1>2, <1>5, Zenon DEF Transfer
    <3> QED
      BY <3>1, <3>2, <3>3 DEF TransferPlain
  <2> QED
    BY <1>1, <1>3, <2>1 DEF NextPlain, PlainInv, TransferPlain
<1>6. ASSUME NEW g \in Goroutines, EndOfInput(g) PROVE NextPlain /\ PlainInv'
  <2>1. /\ pc[g] = "next" /\ took[g] < N(g).takes
        /\ \E ch \in open[g] \intersect closed : open' = [open EXCEPT ![g] = open[g] \ {ch}]
        /\ UNCHANGED <<pc, left, took, hand, todo, within, closed, cancelled, log>>
    BY <1>2, <1>6, Zenon DEF EndOfInput, Receiving
  <2> QED
    BY <1>1, <2>1 DEF NextPlain, PlainInv, EndOfInputPlain
<1>7. ASSUME NEW g \in Goroutines, Handle(g) PROVE NextPlain /\ PlainInv'
  <2>1. HandlePlain(g) /\ UNCHANGED <<within, cancelled>>
    <3>1. cancelled' = cancelled /\ ~panicked'
      BY <1>2, <1>7, Handled DEF Types
    <3>2. ToSend(g) = "send"
      BY <1>2
    <3> QED
      BY <1>7, <3>1, <3>2, Handled DEF HandlePlain
  <2> QED
    BY <1>1, <1>3, <2>1 DEF NextPlain, PlainInv, HandlePlain
<1>8. ASSUME NEW g \in Goroutines, Check(g) \/ Abandon(g) PROVE FALSE
  BY <1>2, <1>8 DEF Check, Abandon, PlainInv
<1>9. ASSUME NEW g \in Goroutines, SendOnClosed(g) PROVE NextPlain /\ PlainInv'
  BY <1>1, <1>9 DEF SendOnClosed, NextPlain, PlainInv
<1>10. ASSUME NEW g \in Goroutines, Finish(g) PROVE NextPlain /\ PlainInv'
  <2>1. FinishPlain(g) /\ UNCHANGED <<within, cancelled>>
    BY <1>2, <1>3, <1>10 DEF Finish, FinishPlain, Receiving, Goto
  <2> QED
    BY <1>1, <1>3, <2>1 DEF NextPlain, PlainInv, FinishPlain
<1>11. ASSUME NEW g \in Goroutines, End(g) PROVE NextPlain /\ PlainInv'
  <2>1. EndPlain(g) /\ within' = within /\ cancelled' = cancelled
    <3>1. EndPlain(g) /\ within' = within /\ cancelled' = (cancelled \/ N(g).cancels)
      BY <1>11, Zenon DEF End, EndPlain, Goto
    <3> QED
      BY <1>2, <3>1 DEF Types
  <2> QED
    BY <1>1, <1>3, <2>1 DEF NextPlain, PlainInv, EndPlain
<1>12. CASE UNCHANGED vars
  BY <1>1, <1>12 DEF vars, NextPlain, PlainInv
<1> QED
  BY <1>4, <1>5, <1>6, <1>7, <1>8, <1>9, <1>10, <1>11, <1>12 DEF Next

\* The goroutines of FooBar.
LEMMA FooBarNodes ==
  ASSUME NEW n \in Nat, prog = "fooBar", Programs["fooBar"] = FooBar(n)
  PROVE  /\ Goroutines = {"foo", "bar", "main"}
         /\ N("foo") = [Node EXCEPT !.ins = {1}, !.takes = n, !.says = Times(n, 1),
                                    !.logs = TRUE, !.outs = <<2>>]
         /\ N("bar") = [Node EXCEPT !.ins = {2}, !.takes = n, !.says = Times(n, 2),
                                    !.logs = TRUE, !.outs = <<1>>, !.quiet = TRUE]
         /\ N("main") = [Node EXCEPT !.emits = <<0>>, !.outs = <<1>>, !.awaits = {"bar"},
                                     !.closes = {1, 2}]
  BY DEF Goroutines, N, FooBar

LEMMA FooBarFields ==
  ASSUME NEW n \in Nat \ {0}, prog = "fooBar", Programs["fooBar"] = FooBar(n)
  PROVE  /\ \A g \in Goroutines : Plain(N(g))
         /\ N("foo").emits = <<>> /\ N("foo").ins = {1} /\ N("foo").outs = <<2>>
         /\ N("foo").takes = n /\ N("foo").logs /\ ~N("foo").quiet /\ ~N("foo").turns
         /\ N("foo").closes = {}
         /\ N("foo").says # <<>> /\ \A i \in 1 .. n : N("foo").says[i] = 1
         /\ N("bar").emits = <<>> /\ N("bar").ins = {2} /\ N("bar").outs = <<1>>
         /\ N("bar").takes = n /\ N("bar").logs /\ N("bar").quiet /\ ~N("bar").turns
         /\ N("bar").closes = {}
         /\ N("bar").says # <<>> /\ \A i \in 1 .. n : N("bar").says[i] = 2
         /\ N("main").emits = <<0>> /\ N("main").ins = {} /\ N("main").outs = <<1>>
         /\ ~N("main").logs /\ N("main").awaits = {"bar"} /\ N("main").closes = {1, 2}
<1>1. ASSUME NEW x PROVE Times(n, x) # <<>> /\ \A i \in 1 .. n : Times(n, x)[i] = x
  BY DEF Times
<1> HIDE DEF Times
<1>2. /\ Plain(N("foo"))
      /\ N("foo").emits = <<>> /\ N("foo").ins = {1} /\ N("foo").outs = <<2>>
      /\ N("foo").takes = n /\ N("foo").logs /\ ~N("foo").quiet /\ ~N("foo").turns
      /\ N("foo").closes = {}
      /\ N("foo").says = Times(n, 1)
  <2>1. N("foo") = [Node EXCEPT !.ins = {1}, !.takes = n, !.says = Times(n, 1),
                                !.logs = TRUE, !.outs = <<2>>]
    BY FooBarNodes
  <2>2. Plain(N("foo"))
    BY <2>1 DEF Node, Plain
  <2>3. /\ N("foo").emits = <<>> /\ N("foo").ins = {1} /\ N("foo").outs = <<2>>
        /\ N("foo").closes = {} /\ N("foo").says = Times(n, 1)
    BY <2>1 DEF Node
  <2>4. /\ N("foo").takes = n /\ N("foo").logs /\ ~N("foo").quiet /\ ~N("foo").turns
    BY <2>1 DEF Node
  <2> QED
    BY <2>2, <2>3, <2>4
<1>3. /\ Plain(N("bar"))
      /\ N("bar").emits = <<>> /\ N("bar").ins = {2} /\ N("bar").outs = <<1>>
      /\ N("bar").takes = n /\ N("bar").logs /\ N("bar").quiet /\ ~N("bar").turns
      /\ N("bar").closes = {}
      /\ N("bar").says = Times(n, 2)
  <2>1. N("bar") = [Node EXCEPT !.ins = {2}, !.takes = n, !.says = Times(n, 2),
                                !.logs = TRUE, !.outs = <<1>>, !.quiet = TRUE]
    BY FooBarNodes
  <2>2. Plain(N("bar"))
    BY <2>1 DEF Node, Plain
  <2>3. /\ N("bar").emits = <<>> /\ N("bar").ins = {2} /\ N("bar").outs = <<1>>
        /\ N("bar").closes = {} /\ N("bar").says = Times(n, 2)
    BY <2>1 DEF Node
  <2>4. /\ N("bar").takes = n /\ N("bar").logs /\ N("bar").quiet /\ ~N("bar").turns
    BY <2>1 DEF Node
  <2> QED
    BY <2>2, <2>3, <2>4
<1>4. /\ Plain(N("main"))
      /\ N("main").emits = <<0>> /\ N("main").ins = {} /\ N("main").outs = <<1>>
      /\ ~N("main").logs /\ N("main").awaits = {"bar"} /\ N("main").closes = {1, 2}
  <2>1. N("main") = [Node EXCEPT !.emits = <<0>>, !.outs = <<1>>, !.awaits = {"bar"},
                                 !.closes = {1, 2}]
    BY FooBarNodes
  <2> QED
    BY <2>1 DEF Node, Plain
<1>5. \A g \in Goroutines : Plain(N(g))
  BY <1>2, <1>3, <1>4, FooBarNodes
<1> QED
  BY <1>1, <1>2, <1>3, <1>4, <1>5

\* Who has the turn, and how much has been logged by then.
FooBarTurn(n) ==
  LET foos == took["foo"]
      bars == took["bar"]
      out == Len(log)
  IN
  \/ /\ \/ left["main"] = <<0>> /\ pc["main"] = "next"
        \/ left["main"] = <<>> /\ pc["main"] = "send"
     /\ pc["foo"] = "next" /\ pc["bar"] = "next" /\ foos = 0 /\ bars = 0 /\ out = 0
  \/ /\ left["main"] = <<>> /\ pc["main"] \in {"next", "end", "done"}
     /\ \/ pc["foo"] = "got" /\ pc["bar"] = "next" /\ foos = bars + 1 /\ out = 2 * bars
        \/ pc["foo"] = "send" /\ pc["bar"] = "next" /\ foos = bars + 1 /\ out = 2 * bars + 1
        \/ /\ pc["foo"] \in {"next", "end", "done"} /\ pc["bar"] = "got"
           /\ foos = bars /\ out = 2 * bars - 1 /\ bars > 0
        \/ pc["foo"] = "next" /\ pc["bar"] = "send" /\ foos = bars /\ bars < n /\ out = 2 * bars
        \/ /\ pc["foo"] \in {"next", "end", "done"} /\ pc["bar"] \in {"next", "end", "done"}
           /\ foos = n /\ bars = n /\ out = 2 * n

\* The turn is at one place, and the channels stay open for it.
FooBarInv(n) ==
  /\ FooBarTurn(n)
  /\ left["foo"] = <<>> /\ left["bar"] = <<>>
  /\ \A g \in Goroutines : open[g] = N(g).ins
  /\ \A g \in Goroutines : pc[g] = "send" => todo[g] = N(g).outs
  /\ pc["foo"] \in {"end", "done"} => took["foo"] = n
  /\ pc["bar"] \in {"end", "done"} => took["bar"] = n
  /\ closed # {} => pc["main"] = "done"
  /\ pc["main"] = "done" => pc["bar"] = "done"
  /\ log \in Seq(Int) /\ \A i \in 1 .. Len(log) : log[i] = FooBarOutput(n)[i]

LEMMA FooBarStep ==
  ASSUME NEW n \in Nat \ {0}, prog = "fooBar", Programs["fooBar"] = FooBar(n),
         Types, PlainInv, FooBarInv(n), [Next]_vars
  PROVE  FooBarInv(n)'
<1>1. prog' = prog /\ Goroutines' = Goroutines /\ \A g : N(g)' = N(g)
  BY ProgramStays DEF Goroutines, N
<1>2. Goroutines = {"foo", "bar", "main"}
  BY FooBarNodes
<1>3. /\ N("foo").emits = <<>> /\ N("foo").ins = {1} /\ N("foo").outs = <<2>>
      /\ N("foo").takes = n /\ N("foo").logs /\ ~N("foo").quiet /\ ~N("foo").turns
      /\ N("foo").closes = {}
      /\ N("foo").says # <<>> /\ \A i \in 1 .. n : N("foo").says[i] = 1
      /\ N("bar").emits = <<>> /\ N("bar").ins = {2} /\ N("bar").outs = <<1>>
      /\ N("bar").takes = n /\ N("bar").logs /\ N("bar").quiet /\ ~N("bar").turns
      /\ N("bar").closes = {}
      /\ N("bar").says # <<>> /\ \A i \in 1 .. n : N("bar").says[i] = 2
      /\ N("main").emits = <<0>> /\ N("main").ins = {} /\ N("main").outs = <<1>>
      /\ ~N("main").logs /\ N("main").awaits = {"bar"} /\ N("main").closes = {1, 2}
  BY FooBarFields
<1>4. NextPlain
  BY PlainStep, FooBarFields DEF AllPlain
<1>5. /\ pc \in [Goroutines -> Places] /\ took \in [Goroutines -> Nat]
      /\ DOMAIN left = Goroutines /\ DOMAIN todo = Goroutines /\ DOMAIN open = Goroutines
      /\ took["foo"] \in Nat /\ took["bar"] \in Nat
      /\ took["foo"] <= n /\ took["bar"] <= n
      /\ \A g \in Goroutines : pc[g] \in {"next", "got"} => todo[g] = <<>>
  BY <1>2, <1>3 DEF Types
<1>14. log \in Seq(Int) /\ Len(log) \in Nat
  BY DEF FooBarInv
<1>15. /\ Head(N("foo").outs) = 2 /\ Head(N("bar").outs) = 1 /\ Head(N("main").outs) = 1
       /\ \A g \in Goroutines : Tail(N(g).outs) = <<>>
  <2>1. \A x : Head(<<x>>) = x /\ Tail(<<x>>) = <<>>
    OBVIOUS
  <2>2. N("foo").outs = <<2>> /\ N("bar").outs = <<1>> /\ N("main").outs = <<1>>
    BY <1>3
  <2> QED
    BY <1>2, <2>1, <2>2, Zenon
<1>16. /\ N("foo").takes = n /\ N("bar").takes = n
       /\ N("foo").ins # {} /\ N("bar").ins # {}
  BY <1>3
<1>17. FooBarTurn(n) /\ {"foo", "bar", "main"} = Goroutines
  BY <1>2 DEF FooBarInv
<1> DEFINE Out == FooBarOutput(n)
<1>6. \A i \in 1 .. 2 * n : Out[i] = IF i % 2 = 1 THEN 1 ELSE 2
  BY DEF FooBarOutput
<1>7. ASSUME NEW g \in Goroutines, EmitPlain(g) PROVE FooBarInv(n)'
  <2>1. g = "main" /\ left["main"] = <<0>> /\ pc["main"] = "next"
    BY <1>2, <1>7 DEF EmitPlain, FooBarInv, FooBarTurn
  <2>2. /\ left'["main"] = <<>> /\ pc'["main"] = "send" /\ todo'["main"] = N("main").outs
        /\ \A x \in {"foo", "bar"} :
             left'[x] = left[x] /\ pc'[x] = pc[x] /\ todo'[x] = todo[x]
        /\ UNCHANGED <<took, open, closed, log>>
    BY <1>2, <1>3, <1>5, <1>7, <2>1 DEF EmitPlain
  <2>3. FooBarTurn(n)'
    BY <1>17, <2>1, <2>2 DEF FooBarTurn
  <2> QED
    BY <1>1, <1>2, <2>1, <2>2, <2>3 DEF FooBarInv
<1>8. ASSUME NEW g \in Goroutines, NEW r \in Goroutines, TransferPlain(g, r)
      PROVE  FooBarInv(n)'
  <2>2. /\ g # r /\ pc[g] = "send" /\ pc[r] = "next"
        /\ todo[g] = N(g).outs /\ Head(N(g).outs) \in N(r).ins /\ Tail(todo[g]) = <<>>
    <3>1. /\ g # r /\ pc[g] = "send" /\ pc[r] = "next" /\ Head(todo[g]) \in open[r]
      BY <1>8 DEF TransferPlain
    <3>2. todo[g] = N(g).outs /\ open[r] = N(r).ins
      BY <3>1 DEF FooBarInv
    <3> QED
      BY <1>15, <3>1, <3>2
  <2>1. \/ g = "main" /\ r = "foo"
        \/ g = "foo" /\ r = "bar"
        \/ g = "bar" /\ r = "foo"
    <3>1. ~(r = "main") /\ ~(g = "foo" /\ r = "foo") /\ ~(g = "bar" /\ r = "bar")
      BY <1>3, <2>2
    <3>2. ~(g = "main" /\ r = "bar")
      BY <1>3, <1>15, <2>2
    <3> QED
      BY <1>2, <2>2, <3>1, <3>2, Zenon
  <2>3. /\ pc'[g] = "next" /\ pc'[r] = "got"
        /\ took'[r] = took[r] + 1
        /\ \A x \in Goroutines \ {r} : took'[x] = took[x]
        /\ \A x \in Goroutines \ {g, r} : pc'[x] = pc[x] /\ todo'[x] = todo[x]
        /\ UNCHANGED <<left, open, closed, log>>
    BY <1>5, <1>8, <2>2 DEF TransferPlain
  <2>4. FooBarTurn(n)'
    <3>1. CASE g = "main" /\ r = "foo"
      BY <1>5, <1>14, <1>17, <2>2, <2>3, <3>1 DEF FooBarTurn, Places
    <3>2. CASE g = "foo" /\ r = "bar"
      BY SMTT(30), <1>5, <1>14, <1>17, <2>2, <2>3, <3>2 DEF FooBarTurn, Places
    <3>3. CASE g = "bar" /\ r = "foo"
      BY <1>5, <1>14, <1>17, <2>2, <2>3, <3>3 DEF FooBarTurn, Places
    <3> QED
      BY <2>1, <3>1, <3>2, <3>3
  <2> QED
    BY <1>1, <1>2, <2>1, <2>2, <2>3, <2>4 DEF FooBarInv
<1>9. ASSUME NEW g \in Goroutines, EndOfInputPlain(g) PROVE FALSE
  BY <1>1, <1>2, <1>3, <1>5, <1>9 DEF EndOfInputPlain, FooBarInv, FooBarTurn
<1>10. ASSUME NEW g \in Goroutines, HandlePlain(g) PROVE FooBarInv(n)'
  <2>1. g \in {"foo", "bar"} /\ pc[g] = "got" /\ took[g] \in 1 .. n
    BY <1>2, <1>5, <1>10 DEF HandlePlain, FooBarInv, FooBarTurn
  <2> DEFINE word == IF g = "foo" THEN 1 ELSE 2
  <2>2. log' = Append(log, word)
    BY <1>3, <1>10, <2>1 DEF HandlePlain
  <2>3. /\ Len(log') = Len(log) + 1 /\ log' \in Seq(Int)
        /\ \A i \in 1 .. Len(log) : log'[i] = log[i]
        /\ log'[Len(log) + 1] = word
    BY <2>2 DEF FooBarInv
  <2>4. Len(log) + 1 \in 1 .. 2 * n /\ Out[Len(log) + 1] = word
    <3>1. \A k \in Nat : (2 * k + 1) % 2 = 1 /\ (2 * k) % 2 = 0
      OBVIOUS
    <3>2. CASE g = "foo"
      <4>1. took["bar"] \in Nat /\ Len(log) = 2 * took["bar"] /\ took["bar"] < n
        BY <1>5, <2>1, <3>2 DEF FooBarInv, FooBarTurn
      <4> QED
        BY <1>6, <3>1, <3>2, <4>1
    <3>3. CASE g = "bar"
      <4>1. Len(log) + 1 = 2 * took["bar"] /\ took["bar"] \in 1 .. n
        BY <1>5, <2>1, <3>3 DEF FooBarInv, FooBarTurn
      <4> QED
        BY <1>6, <3>1, <3>3, <4>1
    <3> QED
      BY <2>1, <3>2, <3>3
  <2>5. \A i \in 1 .. Len(log') : log'[i] = Out[i]
    <3>1. \A i \in 1 .. Len(log) : log[i] = Out[i]
      BY DEF FooBarInv
    <3> HIDE DEF Out, word
    <3>2. ASSUME NEW i \in 1 .. Len(log') PROVE log'[i] = Out[i]
      <4>1. i \in 1 .. Len(log) \/ i = Len(log) + 1
        BY <1>14, <2>3
      <4> QED
        BY <2>3, <2>4, <3>1, <4>1
    <3> QED
      BY <3>2
  <2>6. /\ UNCHANGED <<left, took, open, closed>>
        /\ \A x \in Goroutines \ {g} : pc'[x] = pc[x] /\ todo'[x] = todo[x]
        /\ IF g = "bar" /\ took["bar"] = n
             THEN pc'[g] = "next"
             ELSE pc'[g] = "send" /\ todo'[g] = Route(g)
    <3>1. N("foo").outs # <<>> /\ N("bar").outs # <<>>
      BY <1>3
    <3>2. DOMAIN pc = Goroutines /\ DOMAIN todo = Goroutines
      BY <1>5
    <3>3. /\ UNCHANGED <<left, took, open, closed>>
          /\ IF N(g).outs = <<>> \/ (N(g).quiet /\ took[g] = N(g).takes)
               THEN pc' = [pc EXCEPT ![g] = "next"] /\ UNCHANGED <<hand, todo>>
               ELSE /\ pc' = [pc EXCEPT ![g] = "send"]
                    /\ todo' = [todo EXCEPT ![g] = Route(g)]
      BY <1>10 DEF HandlePlain
    <3>4. (N(g).outs = <<>> \/ (N(g).quiet /\ took[g] = N(g).takes))
            <=> (g = "bar" /\ took["bar"] = n)
      BY <1>3, <2>1, <3>1
    <3> QED
      BY <3>2, <3>3, <3>4
  <2>7. Route(g) = N(g).outs
    BY <1>3, <2>1 DEF Route
  <2>8. FooBarTurn(n)'
    <3> HIDE DEF word
    <3>1. CASE g = "foo"
      BY <1>5, <1>14, <1>17, <2>1, <2>3, <2>6, <3>1 DEF FooBarTurn, Places
    <3>2. CASE g = "bar"
      <4>1. pc["foo"] \in {"end", "done"} => took["foo"] = n
        BY DEF FooBarInv
      <4> QED
        BY SMTT(30), <1>5, <1>14, <1>17, <2>1, <2>3, <2>6, <3>2, <4>1
        DEF FooBarTurn, Places
    <3> QED
      BY <2>1, <3>1, <3>2
  <2> HIDE DEF word, Out
  <2>9. (\A i \in 1 .. Len(log) : log[i] = FooBarOutput(n)[i])'
    BY <2>5 DEF Out
  <2> QED
    BY <1>1, <1>2, <2>1, <2>3, <2>6, <2>7, <2>8, <2>9 DEF FooBarInv
<1>11. ASSUME NEW g \in Goroutines, FinishPlain(g) PROVE FooBarInv(n)'
  <2>1. /\ pc[g] = "next" /\ left[g] = <<>> /\ (took[g] < N(g).takes => open[g] = {})
        /\ pc'[g] = "end" /\ \A x \in Goroutines \ {g} : pc'[x] = pc[x]
        /\ UNCHANGED <<left, took, todo, open, closed, log>>
    BY <1>5, <1>11 DEF FinishPlain
  <2>2. g \in {"foo", "bar"} => took[g] = n
    <3>1. open[g] = N(g).ins
      BY DEF FooBarInv
    <3> QED
      BY <1>5, <1>16, <2>1, <3>1
  <2>3. FooBarTurn(n)'
    <3>1. CASE g = "main"
      BY <1>5, <1>17, <2>1, <3>1 DEF FooBarTurn
    <3>2. CASE g = "foo"
      BY <1>5, <1>17, <2>1, <2>2, <3>2 DEF FooBarTurn
    <3>3. CASE g = "bar"
      BY <1>5, <1>17, <2>1, <2>2, <3>3 DEF FooBarTurn
    <3> QED
      BY <1>2, <3>1, <3>2, <3>3
  <2> QED
    BY <1>1, <1>2, <2>1, <2>2, <2>3 DEF FooBarInv
<1>12. ASSUME NEW g \in Goroutines, EndPlain(g) PROVE FooBarInv(n)'
  BY <1>1, <1>2, <1>3, <1>5, <1>12 DEF EndPlain, FooBarInv, FooBarTurn, Awaited
<1>13. CASE UNCHANGED <<pc, left, took, hand, todo, open, closed, log>>
  BY <1>1, <1>2, <1>3, <1>5, <1>13 DEF FooBarInv, FooBarTurn
<1> QED
  BY <1>4, <1>7, <1>8, <1>9, <1>10, <1>11, <1>12, <1>13 DEF NextPlain

LEMMA FooBarInit ==
  ASSUME NEW n \in Nat \ {0}, prog = "fooBar", Programs["fooBar"] = FooBar(n), Init
  PROVE  FooBarInv(n)
<1>1. Goroutines = {"foo", "bar", "main"}
  BY FooBarNodes
<1>2. N("foo").emits = <<>> /\ N("bar").emits = <<>> /\ N("main").emits = <<0>>
  BY FooBarFields
<1>3. /\ pc = [g \in Goroutines |-> "next"] /\ took = [g \in Goroutines |-> 0]
      /\ left = [g \in Goroutines |-> N(g).emits] /\ open = [g \in Goroutines |-> N(g).ins]
      /\ closed = {} /\ log = <<>>
  BY DEF Init
<1>4. FooBarTurn(n)
  BY <1>1, <1>2, <1>3 DEF FooBarTurn
<1> QED
  BY <1>1, <1>2, <1>3, <1>4 DEF FooBarInv

\* What FooBarInv says of the log.
LEMMA FooBarLogs ==
  ASSUME NEW n \in Nat \ {0}, prog = "fooBar", Programs["fooBar"] = FooBar(n),
         Results["fooBar"] = FooBarOutput(n), Types, FooBarInv(n)
  PROVE  LogsFollowResults
<1> DEFINE Out == FooBarOutput(n)
<1>1. Out \in Seq(Int) /\ Len(Out) = 2 * n
  <2>1. \A i \in 1 .. 2 * n : (IF i % 2 = 1 THEN 1 ELSE 2) \in Int
    OBVIOUS
  <2> QED
    BY <2>1 DEF FooBarOutput
<1>2. Goroutines = {"foo", "bar", "main"}
  BY FooBarNodes
<1>3. took["foo"] \in Nat /\ took["bar"] \in Nat /\ took["foo"] <= n /\ took["bar"] <= n
  <2>1. N("foo").takes = n /\ N("bar").takes = n
    BY FooBarFields
  <2> QED
    BY <1>2, <2>1 DEF Types
<1>4. log \in Seq(Int) /\ Len(log) \in Nat /\ \A i \in 1 .. Len(log) : log[i] = Out[i]
  BY DEF FooBarInv
<1>5. FooBarTurn(n) /\ (pc["main"] = "done" => pc["bar"] = "done")
  BY DEF FooBarInv
<1>6. Len(log) <= 2 * n
  BY SMTT(30), <1>3, <1>4, <1>5 DEF FooBarTurn
<1>7. pc["main"] = "done" => Len(log) = 2 * n
  BY <1>3, <1>4, <1>5 DEF FooBarTurn
<1> HIDE DEF Out
<1>8. ToBag(log) \sqsubseteq ToBag(Out) /\ IsPrefix(log, Out)
  BY <1>1, <1>4, <1>6, PrefixIsPart
<1>9. Results[prog] = Out
  BY DEF Out
<1> QED
  BY <1>1, <1>4, <1>7, <1>8, <1>9 DEF LogsFollowResults

\* main closes the channels when bar has ended, and then nobody sends.
LEMMA FooBarNoPanic ==
  ASSUME NEW n \in Nat \ {0}, prog = "fooBar", Programs["fooBar"] = FooBar(n),
         Types, CloseInv, FooBarInv(n), ~panicked, [Next]_vars
  PROVE  ~panicked'
<1>1. Goroutines = {"foo", "bar", "main"}
  BY FooBarNodes
<1>2. N("foo").closes = {} /\ N("bar").closes = {}
  BY FooBarFields
<1>3. \A g, h \in Goroutines : N(g).closes \intersect N(h).closes # {} => g = h
  BY <1>1, <1>2
<1>4. ASSUME NEW g \in Goroutines, pc[g] = "send", closed # {} PROVE FALSE
  <2>1. pc["main"] = "done" /\ pc["bar"] = "done" /\ took["bar"] = n
    BY <1>4 DEF FooBarInv
  <2>2. took["foo"] \in Nat /\ took["foo"] <= n
    <3>1. N("foo").takes = n
      BY FooBarFields
    <3> QED
      BY <1>1, <3>1 DEF Types
  <2>3. pc["foo"] = "send" /\ took["foo"] = n + 1
    BY <1>1, <1>4, <2>1 DEF FooBarInv, FooBarTurn
  <2> QED
    BY <2>2, <2>3
<1>5. AllPlain
  BY FooBarFields DEF AllPlain
<1> QED
  BY <1>3, <1>4, <1>5, NoPanicPlain

\* 1115, for every n: foo and bar alternate, each n times, main waits for all of it,
\* and nobody sends on the channels it closes.
THEOREM FooBarAlternates ==
  ASSUME NEW n \in Nat \ {0}, Programs["fooBar"] = FooBar(n),
         Results["fooBar"] = FooBarOutput(n)
  PROVE  FairSpec => [](prog = "fooBar" => LogsFollowResults /\ ~panicked)
<1> DEFINE Inv == NetworkInv /\ (prog = "fooBar" => PlainInv /\ FooBarInv(n) /\ ~panicked)
<1>1. Init => Inv
  <2>1. Init => PlainInv /\ ~panicked
    BY DEF Init, PlainInv
  <2> QED
    BY <2>1, NetworkInit, FooBarInit
<1>2. Inv /\ [Next]_vars => Inv'
  <2> SUFFICES ASSUME Inv, [Next]_vars PROVE Inv'
    OBVIOUS
  <2>1. NetworkInv' /\ prog' = prog /\ Types /\ CloseInv
    BY NetworkStep, ProgramStays DEF NetworkInv
  <2>2. ASSUME prog = "fooBar" PROVE PlainInv' /\ FooBarInv(n)' /\ ~panicked'
    <3>1. AllPlain
      BY <2>2, FooBarFields DEF AllPlain
    <3> QED
      BY <2>1, <2>2, <3>1, PlainStep, FooBarStep, FooBarNoPanic
  <2> QED
    BY <2>1, <2>2
<1>3. Inv => (prog = "fooBar" => LogsFollowResults /\ ~panicked)
  BY FooBarLogs DEF NetworkInv
<1> QED
  BY <1>1, <1>2, <1>3, FairSpecBehaves, PTL DEF Behaves
-----------------------------------------------------------------------------
(* Sources and sinks: fanIn, fanOut, workerPool and dynamicSelectDisable   *)

\* A sequence without repetitions has as many elements as its range.
LEMMA RangeCardinality ==
  ASSUME NEW S, NEW s \in Seq(S), IsInjective(s)
  PROVE  IsFiniteSet(Range(s)) /\ Cardinality(Range(s)) = Len(s)
<1>1. Len(s) \in Nat /\ s \in [1 .. Len(s) -> S]
  BY LenProperties
<1>2. IsFiniteSet(1 .. Len(s)) /\ Cardinality(1 .. Len(s)) = Len(s)
  BY <1>1, FS_Interval
<1>3. s \in Bijection(1 .. Len(s), Range(s))
  BY <1>1 DEF Bijection, Injection, Surjection, IsInjective, Range
<1>4. ExistsBijection(1 .. Len(s), Range(s))
  BY <1>3 DEF ExistsBijection
<1> QED
  BY <1>2, <1>4, FS_Bijection

\* Of sequences without repetitions, one with the elements of another is a part of it.
LEMMA DistinctIsPart ==
  ASSUME NEW S, NEW s \in Seq(S), NEW t \in Seq(S), IsInjective(s), IsInjective(t),
         Range(s) \subseteq Range(t)
  PROVE  /\ ToBag(s) \sqsubseteq ToBag(t)
         /\ Len(s) <= Len(t)
         /\ Range(s) = Range(t) => Len(s) = Len(t)
<1>1. \A u \in {s, t} : IsFiniteSet(Range(u)) /\ Cardinality(Range(u)) = Len(u)
  BY RangeCardinality
<1>2. Len(s) <= Len(t) /\ (Range(s) = Range(t) => Len(s) = Len(t))
  BY <1>1, FS_Subset
<1>3. ASSUME NEW u \in {s, t}, NEW x \in Range(u)
      PROVE  Cardinality({i \in DOMAIN u : u[i] = x}) = 1
  <2>1. PICK i \in DOMAIN u : u[i] = x
    BY DEF Range
  <2>2. {j \in DOMAIN u : u[j] = x} = {i}
    BY <2>1 DEF IsInjective
  <2> QED
    BY <2>2, FS_Singleton
<1>4. ASSUME NEW x \in Range(s)
      PROVE  /\ x \in Range(t)
             /\ Cardinality({i \in DOMAIN s : s[i] = x})
                  <= Cardinality({i \in DOMAIN t : t[i] = x})
  <2>1. Cardinality({i \in DOMAIN s : s[i] = x}) = 1
    BY <1>3
  <2>2. x \in Range(t)
    OBVIOUS
  <2>3. Cardinality({i \in DOMAIN t : t[i] = x}) = 1
    BY <1>3, <2>2
  <2> QED
    BY <2>1, <2>2, <2>3
<1>5. ToBag(s) \sqsubseteq ToBag(t)
  BY <1>4 DEF ToBag, \sqsubseteq
<1> QED
  BY <1>2, <1>5

\* The first of a sequence without repetitions, and the rest.
LEMMA DistinctTail ==
  ASSUME NEW S, NEW s \in Seq(S), s # <<>>, IsInjective(s)
  PROVE  /\ IsInjective(Tail(s))
         /\ Range(s) = {Head(s)} \union Range(Tail(s))
         /\ Head(s) \notin Range(Tail(s))
<1>1. /\ Len(s) \in Nat /\ Len(s) > 0 /\ DOMAIN s = 1 .. Len(s)
      /\ DOMAIN Tail(s) = 1 .. Len(s) - 1
      /\ Head(s) = s[1] /\ \A i \in 1 .. Len(s) - 1 : Tail(s)[i] = s[i + 1]
  BY EmptySeq, HeadTailProperties
<1>2. IsInjective(Tail(s))
  BY <1>1 DEF IsInjective
<1>3. Head(s) \notin Range(Tail(s))
  <2> SUFFICES ASSUME NEW i \in 1 .. Len(s) - 1, Head(s) = Tail(s)[i] PROVE FALSE
    BY <1>1 DEF Range
  <2>1. s[1] = s[i + 1] /\ 1 \in 1 .. Len(s) /\ i + 1 \in 1 .. Len(s)
    BY <1>1
  <2>2. 1 = i + 1
    BY <1>1, <2>1 DEF IsInjective
  <2> QED
    BY <1>1, <2>2
<1>4. ASSUME NEW x PROVE x \in Range(s) <=> x = Head(s) \/ x \in Range(Tail(s))
  <2>1. ASSUME NEW i \in 1 .. Len(s) PROVE i = 1 \/ i - 1 \in 1 .. Len(s) - 1
    BY <1>1
  <2>2. ASSUME NEW i \in 1 .. Len(s), i # 1 PROVE s[i] = Tail(s)[i - 1]
    BY <1>1, <2>1, <2>2
  <2>3. ASSUME x \in Range(s), x # Head(s) PROVE x \in Range(Tail(s))
    <3>1. PICK i \in 1 .. Len(s) : s[i] = x
      BY <1>1, <2>3 DEF Range
    <3>2. i # 1
      BY <1>1, <2>3, <3>1
    <3>3. i - 1 \in DOMAIN Tail(s) /\ Tail(s)[i - 1] = x
      BY <1>1, <2>1, <2>2, <3>1, <3>2
    <3> QED
      BY <3>3 DEF Range
  <2>4. x = Head(s) \/ x \in Range(Tail(s)) => x \in Range(s)
    BY <1>1 DEF Range
  <2> QED
    BY <2>3, <2>4
<1> QED
  BY <1>2, <1>3, <1>4

\* One more at the end of a sequence without repetitions.
LEMMA DistinctAppend ==
  ASSUME NEW S, NEW s \in Seq(S), NEW v \in S, IsInjective(s), v \notin Range(s)
  PROVE  /\ Append(s, v) \in Seq(S) /\ Len(Append(s, v)) = Len(s) + 1
         /\ Range(Append(s, v)) = Range(s) \union {v}
         /\ IsInjective(Append(s, v))
<1> DEFINE t == Append(s, v)
<1>1. /\ t \in Seq(S) /\ Len(s) \in Nat /\ Len(t) = Len(s) + 1
      /\ DOMAIN s = 1 .. Len(s) /\ DOMAIN t = 1 .. Len(s) + 1
      /\ \A i \in 1 .. Len(s) : t[i] = s[i]
      /\ t[Len(s) + 1] = v
  OBVIOUS
<1> HIDE DEF t
<1>2. \A i \in DOMAIN t : i \in DOMAIN s \/ i = Len(s) + 1
  BY <1>1
<1>3. Range(t) = Range(s) \union {v}
  BY <1>1, <1>2 DEF Range
<1>4. \A i \in DOMAIN s : s[i] # v
  BY DEF Range
<1>5. IsInjective(t)
  BY <1>1, <1>2, <1>4 DEF IsInjective
<1> QED
  BY <1>1, <1>3, <1>5 DEF t

\* Some goroutines send values of their own, each on one channel, others log what
\* they receive as it is, and no value is sent twice.
SourcesAndSinks(program) ==
  \A g \in DOMAIN program :
    /\ Plain(program[g])
    /\ program[g].outs # <<>> =>
         (\E ch : program[g].outs = <<ch>>) /\ program[g].ins = {} /\ ~program[g].logs
    /\ program[g].ins # {} =>
         program[g].logs /\ program[g].says = <<>> /\ program[g].takes = Unlimited
    /\ IsInjective(program[g].emits)
    /\ \A h \in DOMAIN program :
         g # h => Range(program[g].emits) \intersect Range(program[h].emits) = {}

ValuesOf(program) == UNION {Range(program[g].emits) : g \in DOMAIN program}
Values == ValuesOf(Programs[prog])

\* The values a goroutine has still to send, and the one it has received and not
\* yet logged.
Ahead(g) == Range(left[g]) \union (IF pc[g] = "send" THEN {hand[g]} ELSE {})
Held(g) == IF pc[g] = "got" THEN {hand[g]} ELSE {}

\* Every value is at one place: ahead, held or logged.
OnePlace ==
  /\ \A g, h \in Goroutines :
       Ahead(g) \intersect Held(h) = {} /\ (g # h => Held(g) \intersect Held(h) = {})
  /\ \A g \in Goroutines : (Ahead(g) \union Held(g)) \intersect Range(log) = {}
  /\ \A g \in Goroutines : Ahead(g) \subseteq Range(N(g).emits) /\ Held(g) \subseteq Values
  /\ Range(log) \subseteq Values
  /\ \A v \in Values : v \in Range(log) \/ \E g \in Goroutines : v \in Ahead(g) \union Held(g)

DeliveryInv ==
  /\ OnePlace
  /\ log \in Seq(Int) /\ IsInjective(log)
  /\ \A g \in Goroutines :
       /\ IsInjective(left[g])
       /\ pc[g] = "send" => todo[g] = N(g).outs /\ hand[g] \notin Range(left[g])
       /\ pc[g] = "got" => N(g).ins # {} /\ hand[g] \in Int
       /\ pc[g] = "send" => hand[g] \in Int
       /\ took[g] <= Len(log) + (IF pc[g] = "got" THEN 1 ELSE 0)

LEMMA DeliveryStep ==
  ASSUME Types, PlainInv, SourcesAndSinks(Programs[prog]), DeliveryInv, [Next]_vars
  PROVE  DeliveryInv'
<1>1. prog' = prog /\ Goroutines' = Goroutines /\ (\A g : N(g)' = N(g)) /\ Values' = Values
  BY ProgramStays DEF Goroutines, N, Values
<1>2. ASSUME NEW g \in Goroutines
      PROVE  /\ N(g).outs # <<>> =>
                  (\E ch : N(g).outs = <<ch>>) /\ N(g).ins = {} /\ ~N(g).logs
             /\ N(g).ins # {} => N(g).logs /\ N(g).says = <<>>
             /\ \A h \in Goroutines :
                  g # h => Range(N(g).emits) \intersect Range(N(h).emits) = {}
             /\ Plain(N(g))
  BY DEF SourcesAndSinks, Goroutines, N
<1>3. NextPlain
  BY <1>2, PlainStep DEF AllPlain
<1>4. /\ pc \in [Goroutines -> Places] /\ left \in [Goroutines -> Seq(Int)]
      /\ took \in [Goroutines -> Nat] /\ todo \in [Goroutines -> Seq(Nat)]
      /\ DOMAIN hand = Goroutines
      /\ \A g \in Goroutines : (left[g] # <<>> => N(g).outs # <<>>) /\ open[g] \subseteq N(g).ins
  BY DEF Types
<1>5. /\ OnePlace /\ log \in Seq(Int) /\ Len(log) \in Nat /\ IsInjective(log)
      /\ \A g \in Goroutines :
           /\ IsInjective(left[g])
           /\ pc[g] = "send" => todo[g] = N(g).outs /\ hand[g] \notin Range(left[g])
           /\ pc[g] = "got" => N(g).ins # {} /\ hand[g] \in Int
           /\ pc[g] = "send" => hand[g] \in Int
           /\ took[g] <= Len(log) + (IF pc[g] = "got" THEN 1 ELSE 0)
  BY DEF DeliveryInv
\* A step after which every value is where it was.
<1>6. ASSUME \A g \in Goroutines : Ahead(g)' = Ahead(g) /\ Held(g)' = Held(g), log' = log
      PROVE  OnePlace'
  BY <1>1, <1>5, <1>6 DEF OnePlace
<1>7. ASSUME NEW g \in Goroutines, EmitPlain(g) PROVE DeliveryInv'
  <2>1. /\ pc[g] = "next" /\ left[g] # <<>> /\ log' = log
        /\ left' = [left EXCEPT ![g] = Tail(left[g])]
        /\ hand' = [hand EXCEPT ![g] = Head(left[g])]
        /\ todo' = [todo EXCEPT ![g] = N(g).outs]
        /\ pc' = [pc EXCEPT ![g] = "send"]
        /\ took' = took
    BY <1>2, <1>4, <1>7 DEF EmitPlain
  <2>2. /\ left'[g] = Tail(left[g]) /\ hand'[g] = Head(left[g]) /\ todo'[g] = N(g).outs
        /\ pc'[g] = "send"
        /\ \A h \in Goroutines \ {g} :
             left'[h] = left[h] /\ hand'[h] = hand[h] /\ todo'[h] = todo[h] /\ pc'[h] = pc[h]
    BY <1>4, <2>1
  <2>3. /\ IsInjective(Tail(left[g])) /\ Head(left[g]) \in Int
        /\ Range(left[g]) = {Head(left[g])} \union Range(Tail(left[g]))
        /\ Head(left[g]) \notin Range(Tail(left[g]))
    BY <1>4, <1>5, <2>1, DistinctTail, TailType
  <2>4. \A h \in Goroutines : Ahead(h)' = Ahead(h) /\ Held(h)' = Held(h)
    BY <2>1, <2>2, <2>3 DEF Ahead, Held
  <2>5. OnePlace'
    BY <1>6, <2>1, <2>4
  <2> QED
    BY <1>1, <1>5, <2>1, <2>2, <2>3, <2>5 DEF DeliveryInv
<1>8. ASSUME NEW s \in Goroutines, NEW r \in Goroutines, TransferPlain(s, r)
      PROVE  DeliveryInv'
  <2>1. /\ s # r /\ pc[s] = "send" /\ pc[r] = "next" /\ Head(todo[s]) \in open[r]
        /\ todo' = [todo EXCEPT ![s] = Tail(todo[s])]
        /\ pc' = [pc EXCEPT ![s] = IF Tail(todo[s]) = <<>> THEN "next" ELSE "send",
                            ![r] = "got"]
        /\ took' = [took EXCEPT ![r] = took[r] + 1]
        /\ hand' = [hand EXCEPT ![r] = hand[s]]
        /\ UNCHANGED <<left, log>>
    BY <1>8 DEF TransferPlain
  <2>2. Tail(todo[s]) = <<>>
    <3>1. todo[s] = N(s).outs /\ todo[s] # <<>>
      BY <1>5, <2>1 DEF Types
    <3>2. PICK ch : todo[s] = <<ch>>
      BY <1>2, <3>1
    <3> QED
      BY <3>2
  <2>3. /\ pc'[s] = "next" /\ pc'[r] = "got" /\ hand'[r] = hand[s] /\ hand'[s] = hand[s]
        /\ took'[r] = took[r] + 1 /\ took'[s] = took[s]
        /\ \A h \in Goroutines \ {s, r} :
             /\ pc'[h] = pc[h] /\ todo'[h] = todo[h] /\ hand'[h] = hand[h]
             /\ took'[h] = took[h]
    BY <1>4, <2>1, <2>2
  <2>4. N(r).ins # {} /\ hand[s] \in Int /\ hand[s] \notin Range(left[s])
    BY <1>4, <1>5, <2>1
  <2>5. /\ Ahead(s)' = Ahead(s) \ {hand[s]} /\ hand[s] \in Ahead(s)
        /\ Held(r)' = {hand[s]} /\ Held(r) = {} /\ Ahead(r)' = Ahead(r)
        /\ Held(s)' = {} /\ Held(s) = {}
        /\ \A h \in Goroutines \ {s, r} : Ahead(h)' = Ahead(h) /\ Held(h)' = Held(h)
    BY <2>1, <2>3, <2>4 DEF Ahead, Held
  <2>6. OnePlace'
    <3>1. hand[s] \in Range(N(s).emits) /\ hand[s] \in Values /\ hand[s] \notin Range(log)
      BY <1>5, <2>5 DEF OnePlace, Values, ValuesOf, Goroutines, N
    <3>2. \A h \in Goroutines : Ahead(h)' \subseteq Ahead(h) /\ hand[s] \notin Ahead(h)'
      <4>1. \A h \in Goroutines \ {s} : Ahead(h)' = Ahead(h) /\ hand[s] \notin Ahead(h)
        BY <1>2, <1>5, <2>5, <3>1 DEF OnePlace
      <4> QED
        BY <2>5, <4>1
    <3>3. \A h \in Goroutines : h # r => Held(h)' = Held(h)
      BY <2>5
    <3>4. \A h \in Goroutines : hand[s] \notin Held(h)
      BY <1>5, <2>5 DEF OnePlace
    <3>5. \A g, h \in Goroutines :
            /\ Ahead(g)' \intersect Held(h)' = {}
            /\ g # h => Held(g)' \intersect Held(h)' = {}
      BY <1>5, <2>5, <3>2, <3>3, <3>4 DEF OnePlace
    <3>6. \A g \in Goroutines : (Ahead(g)' \union Held(g)') \intersect Range(log) = {}
      BY <1>5, <2>5, <3>1, <3>2, <3>3 DEF OnePlace
    <3>7. \A g \in Goroutines : Ahead(g)' \subseteq Range(N(g).emits) /\ Held(g)' \subseteq Values
      BY <1>5, <2>5, <3>1, <3>2, <3>3 DEF OnePlace
    <3>8. \A v \in Values : v \in Range(log) \/ \E g \in Goroutines : v \in Ahead(g)' \union Held(g)'
      BY <1>5, <2>5 DEF OnePlace
    <3> QED
      BY <1>1, <1>5, <2>1, <3>5, <3>6, <3>7, <3>8 DEF OnePlace
  <2> QED
    <3>1. ASSUME NEW h \in Goroutines
          PROVE  /\ IsInjective(left'[h])
                 /\ pc'[h] = "send" => todo'[h] = N(h).outs /\ hand'[h] \notin Range(left'[h])
                 /\ pc'[h] = "got" => N(h).ins # {} /\ hand'[h] \in Int
                 /\ pc'[h] = "send" => hand'[h] \in Int
                 /\ took'[h] <= Len(log') + (IF pc'[h] = "got" THEN 1 ELSE 0)
      <4>1. CASE h = s
        BY <1>5, <2>1, <2>3, <4>1
      <4>2. CASE h = r
        <5>1. took[r] \in Nat /\ took[r] <= Len(log)
          BY <1>4, <1>5, <2>1
        <5> QED
          BY <1>5, <2>1, <2>3, <2>4, <4>2, <5>1
      <4>3. CASE h \notin {s, r}
        BY <1>5, <2>1, <2>3, <4>3
      <4> QED
        BY <4>1, <4>2, <4>3
    <3> QED
      BY <1>1, <1>5, <2>1, <2>6, <3>1 DEF DeliveryInv
<1>9. ASSUME NEW g \in Goroutines, HandlePlain(g) PROVE DeliveryInv'
  <2>1. pc[g] = "got" /\ N(g).outs = <<>> /\ N(g).logs /\ N(g).says = <<>> /\ hand[g] \in Int
    BY <1>2, <1>5, <1>9 DEF HandlePlain
  <2>2. /\ log' = Append(log, hand[g]) /\ pc' = [pc EXCEPT ![g] = "next"]
        /\ UNCHANGED <<left, took, hand, todo>>
    BY <1>9, <2>1 DEF HandlePlain
  <2>3. Held(g) = {hand[g]} /\ hand[g] \notin Range(log)
    BY <1>5, <2>1 DEF OnePlace, Held
  <2>4. /\ log' \in Seq(Int) /\ Len(log') = Len(log) + 1 /\ IsInjective(log')
        /\ Range(log') = Range(log) \union {hand[g]}
    BY <1>5, <2>1, <2>2, <2>3, DistinctAppend
  <2>5. /\ pc'[g] = "next" /\ \A h \in Goroutines \ {g} : pc'[h] = pc[h]
    BY <1>4, <2>2
  <2>6. /\ Held(g)' = {} /\ \A h \in Goroutines \ {g} : Held(h)' = Held(h)
        /\ \A h \in Goroutines : Ahead(h)' = Ahead(h)
    BY <2>1, <2>2, <2>5 DEF Held, Ahead
  <2>7. OnePlace'
    BY <1>1, <1>5, <2>3, <2>4, <2>6 DEF OnePlace
  <2> QED
    <3>1. ASSUME NEW h \in Goroutines
          PROVE  /\ pc'[h] # "next" => pc'[h] = pc[h]
                 /\ took[h] <= Len(log') + (IF pc'[h] = "got" THEN 1 ELSE 0)
      <4>1. took[h] \in Nat /\ took[h] <= Len(log) + (IF pc[h] = "got" THEN 1 ELSE 0)
        BY <1>4, <1>5
      <4> QED
        BY <1>5, <2>4, <2>5, <4>1
    <3> QED
      BY <1>1, <1>5, <2>2, <2>4, <2>7, <3>1 DEF DeliveryInv
<1>10. ASSUME NEW g \in Goroutines, FinishPlain(g) \/ EndPlain(g) \/ EndOfInputPlain(g)
       PROVE  DeliveryInv'
  <2>1. /\ UNCHANGED <<left, took, hand, todo, log>>
        /\ \/ pc' = pc
           \/ pc[g] \in {"next", "end"} /\ \E there \in {"end", "done"} : pc' = [pc EXCEPT ![g] = there]
    BY <1>10 DEF FinishPlain, EndPlain, EndOfInputPlain
  <2>2. \A h \in Goroutines :
          (pc'[h] = "send" <=> pc[h] = "send") /\ (pc'[h] = "got" <=> pc[h] = "got")
    BY <1>4, <2>1
  <2>3. \A h \in Goroutines : Ahead(h)' = Ahead(h) /\ Held(h)' = Held(h)
    BY <2>1, <2>2 DEF Ahead, Held
  <2>4. OnePlace'
    BY <1>6, <2>1, <2>3
  <2> QED
    BY <1>1, <1>5, <2>1, <2>2, <2>4 DEF DeliveryInv
<1>11. CASE UNCHANGED <<pc, left, took, hand, todo, open, closed, log>>
  <2>1. OnePlace'
    BY <1>6, <1>11 DEF Ahead, Held
  <2> QED
    BY <1>1, <1>5, <1>11, <2>1 DEF DeliveryInv
<1> QED
  BY <1>3, <1>7, <1>8, <1>9, <1>10, <1>11 DEF NextPlain

LEMMA DeliveryInit ==
  ASSUME SourcesAndSinks(Programs[prog]), Init PROVE DeliveryInv
<1>1. /\ \A g \in Goroutines : pc[g] = "next" /\ left[g] = N(g).emits /\ took[g] = 0
      /\ log = <<>>
  BY DEF Init
<1>2. log \in Seq(Int) /\ IsInjective(log) /\ Len(log) = 0 /\ Range(log) = {}
  BY <1>1 DEF IsInjective, Range
<1>3. \A g \in Goroutines : Ahead(g) = Range(N(g).emits) /\ Held(g) = {}
  BY <1>1 DEF Ahead, Held
<1>4. \A g \in Goroutines : IsInjective(N(g).emits)
  BY DEF SourcesAndSinks, Goroutines, N
<1>5. OnePlace
  BY <1>2, <1>3 DEF OnePlace, Values, ValuesOf, Goroutines, N
<1> QED
  BY <1>1, <1>2, <1>4, <1>5 DEF DeliveryInv

\* There is a sink for each source, and main is one or waits for it.
MainIsLast(program) ==
  /\ "main" \in DOMAIN program
  /\ \A g \in DOMAIN program :
       /\ program[g].ins # {} => g = "main" \/ g \in program["main"].awaits
       /\ program[g].outs # <<>> =>
            \E h \in DOMAIN program : program[g].outs[1] \in program[h].ins

\* When main has ended, everything has been logged.
LEMMA AllLogged ==
  ASSUME NetworkInv, ReceivedInv, PlainInv, DeliveryInv, SourcesAndSinks(Programs[prog]),
         Disciplined(Programs[prog]), MainIsLast(Programs[prog]),
         Len(log) < Unlimited, pc["main"] = "done"
  PROVE  Range(log) = Values
<1>1. ASSUME NEW g \in Goroutines
      PROVE  /\ N(g).ins # {} => pc[g] = "done" /\ N(g).takes = Unlimited /\ N(g).outs = <<>>
             /\ N(g).outs # <<>> => \E h \in Goroutines : N(g).outs[1] \in N(h).ins
             /\ N(g).outs # <<>> => \E ch : N(g).outs = <<ch>>
  <2>1. N(g).ins # {} => g = "main" \/ g \in N("main").awaits
    BY DEF MainIsLast, Goroutines, N
  <2>2. "main" \in Goroutines /\ \A h \in N("main").awaits : pc[h] = "done"
    BY DEF MainIsLast, Goroutines, NetworkInv, CloseInv
  <2>3. N(g).outs # <<>> => \E h \in Goroutines : N(g).outs[1] \in N(h).ins
    BY DEF MainIsLast, Goroutines, N
  <2>4. /\ N(g).ins # {} => N(g).takes = Unlimited
        /\ N(g).outs # <<>> => N(g).ins = {} /\ \E ch : N(g).outs = <<ch>>
    BY DEF SourcesAndSinks, Goroutines, N
  <2> QED
    BY <2>1, <2>2, <2>3, <2>4
<1>2. Types /\ NothingLeftBehind /\ ~cancelled
  BY NothingBehind DEF NetworkInv, PlainInv
<1>3. ASSUME NEW g \in Goroutines, N(g).outs # <<>>
      PROVE  pc[g] = "done" /\ left[g] = <<>>
  <2>1. PICK h \in Goroutines : N(g).outs[1] \in N(h).ins
    BY <1>1, <1>3
  <2>2. pc[h] = "done" /\ N(h).takes = Unlimited
    BY <1>1, <2>1
  <2>3. took[h] \in Nat /\ took[h] <= Len(log)
    BY <1>2, <2>2 DEF DeliveryInv, Types
  <2>4. Unlimited \in Nat /\ Len(log) \in Nat
    BY <1>2, <2>2, Described DEF DeliveryInv, Types
  <2>5. 1 \in DOMAIN N(g).outs
    BY <1>1, <1>3
  <2> QED
    BY <1>2, <2>1, <2>2, <2>3, <2>4, <2>5 DEF NothingLeftBehind
<1>4. ASSUME NEW g \in Goroutines PROVE Ahead(g) = {} /\ Held(g) = {}
  <2>1. pc[g] # "got"
    BY <1>1 DEF DeliveryInv
  <2>2. pc[g] # "send" /\ left[g] = <<>>
    <3>1. CASE N(g).outs # <<>>
      BY <1>3, <3>1
    <3>2. CASE N(g).outs = <<>>
      BY <1>2, <3>2 DEF DeliveryInv, Types
    <3> QED
      BY <3>1, <3>2
  <2> QED
    BY <2>1, <2>2 DEF Ahead, Held, Range
<1> QED
  BY <1>4 DEF DeliveryInv, OnePlace

\* A list of what there is to log.
Lists(s, S) == s \in Seq(Int) /\ IsInjective(s) /\ Range(s) = S

\* What DeliveryInv says of the log.
LEMMA DeliveryLogs ==
  ASSUME NetworkInv, ReceivedInv, PlainInv, DeliveryInv, SourcesAndSinks(Programs[prog]),
         Disciplined(Programs[prog]), MainIsLast(Programs[prog]),
         Lists(Results[prog], Values), Len(Results[prog]) < Unlimited, Unlimited \in Nat,
         prog \notin InOrder
  PROVE  LogsFollowResults
<1>1. /\ log \in Seq(Int) /\ IsInjective(log) /\ Range(log) \subseteq Values
      /\ Results[prog] \in Seq(Int) /\ IsInjective(Results[prog])
      /\ Range(Results[prog]) = Values
      /\ Len(log) \in Nat /\ Len(Results[prog]) \in Nat
  BY DEF DeliveryInv, OnePlace, Lists
<1>2. /\ ToBag(log) \sqsubseteq ToBag(Results[prog])
      /\ Len(log) <= Len(Results[prog])
      /\ Range(log) = Values => Len(log) = Len(Results[prog])
  BY <1>1, DistinctIsPart
<1>3. pc["main"] = "done" => Len(log) = Len(Results[prog])
  BY <1>1, <1>2, AllLogged
<1>4. pc["main"] = "done" => Len(Results[prog]) - Len(log) = 0
  BY <1>1, <1>3
<1> QED
  BY <1>2, <1>4 DEF LogsFollowResults

\* A network of sources and sinks whose results are its values.
Delivering(p) ==
  /\ p \in DOMAIN Programs /\ p \notin InOrder
  /\ SourcesAndSinks(Programs[p]) /\ Disciplined(Programs[p]) /\ MainIsLast(Programs[p])
  /\ Lists(Results[p], ValuesOf(Programs[p]))
  /\ Unlimited \in Nat /\ Len(Results[p]) < Unlimited

\* What holds of it, and of the others.
DeliveryHolds(p) == NetworkInv /\ ReceivedInv /\ (prog = p => PlainInv /\ DeliveryInv)

LEMMA DeliveryHoldsInit == ASSUME NEW p, Delivering(p), Init PROVE DeliveryHolds(p)
<1>1. PlainInv
  BY DEF Init, PlainInv
<1> QED
  BY <1>1, NetworkInit, ReceivedInit, DeliveryInit DEF Delivering, DeliveryHolds

LEMMA DeliveryHoldsStep ==
  ASSUME NEW p, Delivering(p), DeliveryHolds(p), [Next]_vars PROVE DeliveryHolds(p)'
<1>1. Types /\ NetworkInv' /\ ReceivedInv' /\ prog' = prog
  BY NetworkStep, ReceivedStep, ProgramStays DEF NetworkInv, DeliveryHolds
<1>2. ASSUME prog = p PROVE PlainInv' /\ DeliveryInv'
  <2>1. AllPlain
    BY <1>2 DEF Delivering, AllPlain, SourcesAndSinks, Goroutines, N
  <2> QED
    BY <1>1, <1>2, <2>1, PlainStep, DeliveryStep DEF Delivering, DeliveryHolds
<1> QED
  BY <1>1, <1>2 DEF DeliveryHolds

LEMMA DeliveryHoldsLogs ==
  ASSUME NEW p, Delivering(p), DeliveryHolds(p), prog = p PROVE LogsFollowResults
  BY DeliveryLogs DEF Delivering, DeliveryHolds, Values

\* In a network of sources and sinks each value is logged once, and all of them by
\* the time that main ends, whatever the interleaving.
THEOREM SourcesAndSinksDeliver ==
  ASSUME NEW p, Delivering(p) PROVE FairSpec => [](prog = p => LogsFollowResults)
<1>1. Init => DeliveryHolds(p)
  BY DeliveryHoldsInit
<1>2. DeliveryHolds(p) /\ [Next]_vars => DeliveryHolds(p)'
  BY DeliveryHoldsStep
<1>3. DeliveryHolds(p) => (prog = p => LogsFollowResults)
  BY DeliveryHoldsLogs
<1> QED
  BY <1>1, <1>2, <1>3, FairSpecBehaves, PTL DEF Behaves

\* The three kinds of goroutine in these networks.
IsSource(node, values, ch) ==
  /\ Plain(node) /\ node.emits = values /\ node.outs = <<ch>> /\ node.ins = {}
  /\ ~node.logs /\ ~node.twice
IsSink(node, chs) ==
  /\ Plain(node) /\ node.emits = <<>> /\ node.outs = <<>> /\ node.ins = chs
  /\ node.logs /\ node.says = <<>> /\ node.takes = Unlimited /\ ~node.twice
IsWaiter(node) ==
  Plain(node) /\ node.emits = <<>> /\ node.outs = <<>> /\ node.ins = {} /\ ~node.twice

LEMMA ProducerIsSource ==
  ASSUME NEW values, NEW ch
  PROVE  /\ IsSource(Producer(values, ch), values, ch) /\ Producer(values, ch).closes = {ch}
         /\ Producer(values, ch).awaits = {}
<1> DEFINE node == Producer(values, ch)
<1>1. node = [Node EXCEPT !.emits = values, !.outs = <<ch>>, !.closes = {ch}]
  BY DEF Producer
<1> HIDE DEF node
<1>2. Plain(node)
  BY <1>1 DEF Node, Plain
<1>3. /\ node.emits = values /\ node.outs = <<ch>> /\ node.ins = {} /\ ~node.logs
      /\ ~node.twice /\ node.closes = {ch} /\ node.awaits = {}
  BY <1>1 DEF Node
<1> QED
  BY <1>2, <1>3 DEF IsSource, node

LEMMA ProducerLeavesOpenIsSource ==
  ASSUME NEW values, NEW ch
  PROVE  /\ IsSource(ProducerLeavesOpen(values, ch), values, ch)
         /\ ProducerLeavesOpen(values, ch).closes = {}
<1> DEFINE node == ProducerLeavesOpen(values, ch)
<1>1. node = [Node EXCEPT !.emits = values, !.outs = <<ch>>]
  BY DEF ProducerLeavesOpen
<1> HIDE DEF node
<1>2. Plain(node)
  BY <1>1 DEF Node, Plain
<1>3. /\ node.emits = values /\ node.outs = <<ch>> /\ node.ins = {} /\ ~node.logs
      /\ ~node.twice /\ node.closes = {}
  BY <1>1 DEF Node
<1> QED
  BY <1>2, <1>3 DEF IsSource, node

LEMMA SinkIsSink ==
  ASSUME NEW chs PROVE IsSink(Sink(chs), chs) /\ Sink(chs).closes = {}
<1> DEFINE node == Sink(chs)
<1>1. node = [Node EXCEPT !.ins = chs, !.logs = TRUE]
  BY DEF Sink
<1> HIDE DEF node
<1>2. Plain(node)
  BY <1>1 DEF Node, Plain
<1>3. /\ node.emits = <<>> /\ node.outs = <<>> /\ node.ins = chs /\ node.logs
      /\ node.says = <<>> /\ node.takes = Unlimited /\ ~node.twice /\ node.closes = {}
  BY <1>1 DEF Node
<1> QED
  BY <1>2, <1>3 DEF IsSink, node

LEMMA CloserIsWaiter ==
  ASSUME NEW A, NEW program,
         program["closer"] = [Node EXCEPT !.awaits = A, !.closes = {1}]
  PROVE  /\ IsWaiter(program["closer"]) /\ program["closer"].closes = {1}
         /\ program["closer"].awaits = A
<1> DEFINE node == program["closer"]
<1> HIDE DEF node
<1>1. node = [Node EXCEPT !.awaits = A, !.closes = {1}]
  BY DEF node
<1>2. Plain(node)
  BY <1>1 DEF Node, Plain
<1>3. /\ node.emits = <<>> /\ node.outs = <<>> /\ node.ins = {} /\ ~node.twice
      /\ node.awaits = A /\ node.closes = {1}
  BY <1>1 DEF Node
<1> QED
  BY <1>2, <1>3 DEF IsWaiter, node

LEMMA MainIsWaiter ==
  ASSUME NEW A, NEW node, node = [Node EXCEPT !.awaits = A]
  PROVE  IsWaiter(node) /\ node.awaits = A /\ node.closes = {}
<1>1. Plain(node)
  BY DEF Node, Plain
<1>2. /\ node.emits = <<>> /\ node.outs = <<>> /\ node.ins = {} /\ ~node.twice
      /\ node.awaits = A /\ node.closes = {}
  BY DEF Node
<1> QED
  BY <1>1, <1>2 DEF IsWaiter

\* The values of tasks are all different.
Different(tasks) ==
  \A v \in DOMAIN tasks :
    /\ IsInjective(tasks[v])
    /\ \A w \in DOMAIN tasks : v # w => Range(tasks[v]) \intersect Range(tasks[w]) = {}

\* Sources and sinks of one channel, which one goroutine closes.
OneChannel(program, tasks, sinks, closer) ==
  /\ DOMAIN program = DOMAIN tasks \union sinks \union {closer, "main"}
  /\ DOMAIN tasks \intersect sinks = {} /\ sinks # {}
  /\ \A g \in DOMAIN tasks : IsSource(program[g], tasks[g], 1)
  /\ \A g \in sinks : IsSink(program[g], {1})
  /\ \A g \in {closer, "main"} \ (DOMAIN tasks \union sinks) : IsWaiter(program[g])
  /\ \A g \in DOMAIN program : program[g].closes = IF g = closer THEN {1} ELSE {}
  /\ \A g \in DOMAIN tasks : g = closer \/ g \in program[closer].awaits
  /\ sinks \subseteq program["main"].awaits \union {"main"}

LEMMA OneChannelDelivers ==
  ASSUME NEW program, NEW tasks, NEW sinks, NEW closer,
         OneChannel(program, tasks, sinks, closer), Different(tasks)
  PROVE  /\ SourcesAndSinks(program) /\ Disciplined(program) /\ MainIsLast(program)
         /\ ValuesOf(program) = UNION {Range(tasks[g]) : g \in DOMAIN tasks}
<1>1. ASSUME NEW g \in DOMAIN program
      PROVE  \/ /\ g \in DOMAIN tasks /\ program[g].emits = tasks[g]
                /\ program[g].outs = <<1>> /\ program[g].ins = {} /\ ~program[g].logs
                /\ Plain(program[g]) /\ ~program[g].twice
             \/ /\ g \in sinks /\ program[g].emits = <<>>
                /\ program[g].outs = <<>> /\ program[g].ins = {1} /\ program[g].logs
                /\ program[g].says = <<>> /\ program[g].takes = Unlimited
                /\ Plain(program[g]) /\ ~program[g].twice
             \/ /\ g \notin DOMAIN tasks \union sinks /\ program[g].emits = <<>>
                /\ program[g].outs = <<>> /\ program[g].ins = {}
                /\ Plain(program[g]) /\ ~program[g].twice
  BY DEF OneChannel, IsSource, IsSink, IsWaiter
<1>2. IsInjective(<<>>) /\ Range(<<>>) = {}
  BY DEF IsInjective, Range
<1>3. ASSUME NEW g \in DOMAIN program
      PROVE  /\ IsInjective(program[g].emits)
             /\ \A h \in DOMAIN program :
                  g # h => Range(program[g].emits) \intersect Range(program[h].emits) = {}
  BY <1>1, <1>2 DEF Different
<1>4. SourcesAndSinks(program)
  <2>1. ASSUME NEW g \in DOMAIN program
        PROVE  /\ Plain(program[g])
               /\ program[g].outs # <<>> =>
                    (\E ch : program[g].outs = <<ch>>) /\ program[g].ins = {} /\ ~program[g].logs
               /\ program[g].ins # {} =>
                    program[g].logs /\ program[g].says = <<>> /\ program[g].takes = Unlimited
    BY <1>1
  <2> QED
    BY <1>3, <2>1 DEF SourcesAndSinks
<1>5. Disciplined(program)
  <2>1. ASSUME NEW g \in DOMAIN program, NEW i \in DOMAIN program[g].outs
        PROVE  g \in DOMAIN tasks
    BY <1>1
  <2>2. \A g \in DOMAIN program : program[g].closes = IF g = closer THEN {1} ELSE {}
    BY DEF OneChannel
  <2>3. \A g \in DOMAIN tasks : g = closer \/ g \in program[closer].awaits
    BY DEF OneChannel
  <2>4. \A g \in DOMAIN program : ~program[g].twice
    BY <1>1
  <2> QED
    BY <2>1, <2>2, <2>3, <2>4 DEF Disciplined
<1>6. MainIsLast(program)
  <2>1. PICK h \in DOMAIN program : program[h].ins = {1}
    BY DEF OneChannel, IsSink
  <2>2. ASSUME NEW g \in DOMAIN program, program[g].outs # <<>>
        PROVE  program[g].outs[1] \in program[h].ins
    BY <1>1, <2>1, <2>2
  <2>3. ASSUME NEW g \in DOMAIN program, program[g].ins # {}
        PROVE  g = "main" \/ g \in program["main"].awaits
    BY <1>1, <2>3 DEF OneChannel
  <2>4. "main" \in DOMAIN program
    BY DEF OneChannel
  <2> QED
    BY <2>2, <2>3, <2>4 DEF MainIsLast
<1>7. ValuesOf(program) = UNION {Range(tasks[g]) : g \in DOMAIN tasks}
  <2>1. \A g \in DOMAIN program :
          IF g \in DOMAIN tasks THEN program[g].emits = tasks[g] ELSE Range(program[g].emits) = {}
    BY <1>1, <1>2 DEF OneChannel
  <2>2. DOMAIN tasks \subseteq DOMAIN program
    BY DEF OneChannel
  <2> QED
    BY <2>1, <2>2 DEF ValuesOf
<1> QED
  BY <1>4, <1>5, <1>6, <1>7

\* What is assumed of the lists of values, and of what there is to log.
Listed(p, tasks) ==
  /\ Different(tasks)
  /\ Lists(Results[p], UNION {Range(tasks[g]) : g \in DOMAIN tasks})
  /\ Unlimited \in Nat /\ Len(Results[p]) < Unlimited

LEMMA FanInOneChannel ==
  ASSUME NEW tasks, {"closer", "consumer", "main"} \intersect DOMAIN tasks = {}
  PROVE  OneChannel(FanIn(tasks), tasks, {"consumer"}, "closer")
<1> DEFINE program == FanIn(tasks)
<1>1. /\ DOMAIN program = DOMAIN tasks \union {"closer", "consumer", "main"}
      /\ program["closer"] = [Node EXCEPT !.awaits = DOMAIN tasks, !.closes = {1}]
      /\ program["consumer"] = Sink({1})
      /\ program["main"] = [Node EXCEPT !.awaits = {"closer", "consumer"}]
      /\ \A g \in DOMAIN tasks : program[g] = ProducerLeavesOpen(tasks[g], 1)
  BY DEF FanIn
<1> HIDE DEF program
<1>2. /\ IsWaiter(program["closer"]) /\ program["closer"].closes = {1}
      /\ program["closer"].awaits = DOMAIN tasks
  <2>1. program["closer"] = [Node EXCEPT !.awaits = DOMAIN tasks, !.closes = {1}]
    BY <1>1
  <2> QED
    BY <2>1, CloserIsWaiter
<1>3. /\ IsWaiter(program["main"]) /\ program["main"].closes = {}
      /\ program["main"].awaits = {"closer", "consumer"}
  BY <1>1, MainIsWaiter
<1>4. IsSink(program["consumer"], {1}) /\ program["consumer"].closes = {}
  BY <1>1, SinkIsSink
<1>5. \A g \in DOMAIN tasks : IsSource(program[g], tasks[g], 1) /\ program[g].closes = {}
  BY <1>1, ProducerLeavesOpenIsSource
<1> QED
  BY <1>1, <1>2, <1>3, <1>4, <1>5 DEF OneChannel, program

\* fanIn, for all workers and lists of values: the consumer logs each value once, and
\* main waits for all of it.
THEOREM FanInDelivers ==
  ASSUME NEW tasks, {"closer", "consumer", "main"} \intersect DOMAIN tasks = {},
         "fanIn" \in DOMAIN Programs, Programs["fanIn"] = FanIn(tasks),
         Listed("fanIn", tasks)
  PROVE  FairSpec => [](prog = "fanIn" => LogsFollowResults)
<1>1. "fanIn" \notin InOrder
  BY DEF InOrder
<1>2. \E sinks, closer : OneChannel(FanIn(tasks), tasks, sinks, closer)
  BY FanInOneChannel
<1>3. Different(tasks) /\ Unlimited \in Nat /\ Len(Results["fanIn"]) < Unlimited
  BY DEF Listed
<1>4. /\ SourcesAndSinks(Programs["fanIn"]) /\ Disciplined(Programs["fanIn"])
      /\ MainIsLast(Programs["fanIn"])
      /\ ValuesOf(Programs["fanIn"]) = UNION {Range(tasks[g]) : g \in DOMAIN tasks}
  BY <1>2, <1>3, OneChannelDelivers
<1>5. Delivering("fanIn")
  BY <1>1, <1>3, <1>4 DEF Listed, Delivering
<1>6. Init => DeliveryHolds("fanIn")
  BY <1>5, DeliveryHoldsInit
<1>7. DeliveryHolds("fanIn") /\ [Next]_vars => DeliveryHolds("fanIn")'
  BY <1>5, DeliveryHoldsStep
<1>8. DeliveryHolds("fanIn") => (prog = "fanIn" => LogsFollowResults)
  BY <1>5, DeliveryHoldsLogs
<1> QED
  BY <1>6, <1>7, <1>8, FairSpecBehaves, PTL DEF Behaves

\* The jobs of the one producer of fanOut.
Jobs(jobs) == [g \in {"producer"} |-> jobs]

LEMMA FanOutOneChannel ==
  ASSUME NEW jobs, NEW workers, workers # {},
         {"producer", "main"} \intersect workers = {}
  PROVE  OneChannel(FanOut(jobs, workers), Jobs(jobs), workers, "producer")
<1> DEFINE program == FanOut(jobs, workers)
<1>1. /\ DOMAIN program = workers \union {"producer", "main"}
      /\ program["producer"] = Producer(jobs, 1)
      /\ program["main"] = [Node EXCEPT !.awaits = workers]
      /\ \A g \in workers : program[g] = Sink({1})
  BY DEF FanOut
<1> HIDE DEF program
<1>2. IsWaiter(program["main"]) /\ program["main"].closes = {} /\ program["main"].awaits = workers
  BY <1>1, MainIsWaiter
<1>3. IsSource(program["producer"], jobs, 1) /\ program["producer"].closes = {1}
  BY <1>1, ProducerIsSource
<1>4. \A g \in workers : IsSink(program[g], {1}) /\ program[g].closes = {}
  BY <1>1, SinkIsSink
<1>5. DOMAIN Jobs(jobs) = {"producer"} /\ Jobs(jobs)["producer"] = jobs
  BY DEF Jobs
<1> QED
  BY <1>1, <1>2, <1>3, <1>4, <1>5 DEF OneChannel, program

\* fanOut, for all workers and jobs: each job is done once, and main waits for all.
THEOREM FanOutDelivers ==
  ASSUME NEW jobs, NEW workers, workers # {},
         {"producer", "main"} \intersect workers = {},
         "fanOut" \in DOMAIN Programs, Programs["fanOut"] = FanOut(jobs, workers),
         Listed("fanOut", Jobs(jobs))
  PROVE  FairSpec => [](prog = "fanOut" => LogsFollowResults)
<1>1. "fanOut" \notin InOrder
  BY DEF InOrder
<1>2. \E sinks, closer : OneChannel(FanOut(jobs, workers), Jobs(jobs), sinks, closer)
  BY FanOutOneChannel
<1>3. Different(Jobs(jobs)) /\ Unlimited \in Nat /\ Len(Results["fanOut"]) < Unlimited
  BY DEF Listed
<1>4. /\ SourcesAndSinks(Programs["fanOut"]) /\ Disciplined(Programs["fanOut"])
      /\ MainIsLast(Programs["fanOut"])
      /\ ValuesOf(Programs["fanOut"]) = UNION {Range(Jobs(jobs)[g]) : g \in DOMAIN Jobs(jobs)}
  BY <1>2, <1>3, OneChannelDelivers
<1>5. Delivering("fanOut")
  BY <1>1, <1>3, <1>4 DEF Listed, Delivering
<1>6. Init => DeliveryHolds("fanOut")
  BY <1>5, DeliveryHoldsInit
<1>7. DeliveryHolds("fanOut") /\ [Next]_vars => DeliveryHolds("fanOut")'
  BY <1>5, DeliveryHoldsStep
<1>8. DeliveryHolds("fanOut") => (prog = "fanOut" => LogsFollowResults)
  BY <1>5, DeliveryHoldsLogs
<1> QED
  BY <1>6, <1>7, <1>8, FairSpecBehaves, PTL DEF Behaves

LEMMA WorkerPoolOneChannel ==
  ASSUME NEW tasks, NEW consumers, consumers # {}, consumers \intersect DOMAIN tasks = {},
         {"closer", "main"} \intersect (consumers \union DOMAIN tasks) = {}
  PROVE  OneChannel(WorkerPool(tasks, consumers), tasks, consumers, "closer")
<1> DEFINE program == WorkerPool(tasks, consumers)
<1>1. /\ DOMAIN program = DOMAIN tasks \union consumers \union {"closer", "main"}
      /\ program["closer"] = [Node EXCEPT !.awaits = DOMAIN tasks, !.closes = {1}]
      /\ program["main"] = [Node EXCEPT !.awaits = consumers \union {"closer"}]
      /\ \A g \in consumers : program[g] = Sink({1})
      /\ \A g \in DOMAIN tasks : program[g] = ProducerLeavesOpen(tasks[g], 1)
  BY DEF WorkerPool
<1> HIDE DEF program
<1>2. /\ IsWaiter(program["closer"]) /\ program["closer"].closes = {1}
      /\ program["closer"].awaits = DOMAIN tasks
  <2>1. program["closer"] = [Node EXCEPT !.awaits = DOMAIN tasks, !.closes = {1}]
    BY <1>1
  <2> QED
    BY <2>1, CloserIsWaiter
<1>3. /\ IsWaiter(program["main"]) /\ program["main"].closes = {}
      /\ program["main"].awaits = consumers \union {"closer"}
  BY <1>1, MainIsWaiter
<1>4. \A g \in consumers : IsSink(program[g], {1}) /\ program[g].closes = {}
  BY <1>1, SinkIsSink
<1>5. \A g \in DOMAIN tasks : IsSource(program[g], tasks[g], 1) /\ program[g].closes = {}
  BY <1>1, ProducerLeavesOpenIsSource
<1> QED
  BY <1>1, <1>2, <1>3, <1>4, <1>5 DEF OneChannel, program

\* workerPool, for all workers, consumers and lists of values.
THEOREM WorkerPoolDelivers ==
  ASSUME NEW tasks, NEW consumers, consumers # {}, consumers \intersect DOMAIN tasks = {},
         {"closer", "main"} \intersect (consumers \union DOMAIN tasks) = {},
         "workerPool" \in DOMAIN Programs,
         Programs["workerPool"] = WorkerPool(tasks, consumers),
         Listed("workerPool", tasks)
  PROVE  FairSpec => [](prog = "workerPool" => LogsFollowResults)
<1>1. "workerPool" \notin InOrder
  BY DEF InOrder
<1>2. \E sinks, closer : OneChannel(WorkerPool(tasks, consumers), tasks, sinks, closer)
  BY WorkerPoolOneChannel
<1>3. Different(tasks) /\ Unlimited \in Nat /\ Len(Results["workerPool"]) < Unlimited
  BY DEF Listed
<1>4. /\ SourcesAndSinks(Programs["workerPool"]) /\ Disciplined(Programs["workerPool"])
      /\ MainIsLast(Programs["workerPool"])
      /\ ValuesOf(Programs["workerPool"]) = UNION {Range(tasks[g]) : g \in DOMAIN tasks}
  BY <1>2, <1>3, OneChannelDelivers
<1>5. Delivering("workerPool")
  BY <1>1, <1>3, <1>4 DEF Listed, Delivering
<1>6. Init => DeliveryHolds("workerPool")
  BY <1>5, DeliveryHoldsInit
<1>7. DeliveryHolds("workerPool") /\ [Next]_vars => DeliveryHolds("workerPool")'
  BY <1>5, DeliveryHoldsStep
<1>8. DeliveryHolds("workerPool") => (prog = "workerPool" => LogsFollowResults)
  BY <1>5, DeliveryHoldsLogs
<1> QED
  BY <1>6, <1>7, <1>8, FairSpecBehaves, PTL DEF Behaves
-----------------------------------------------------------------------------
(* LeetCode/1116                                                           *)

\* How many of the numbers are odd, and how many even.
Odds(n) == (n + 1) \div 2
Evens(n) == n \div 2

LEMMA OddsAndEvens ==
  ASSUME NEW n \in Nat
  PROVE  /\ Odds(n) \in Nat /\ Evens(n) \in Nat /\ Odds(n) + Evens(n) = n
         /\ n % 2 = 1 => Odds(n) = Evens(n) + 1
         /\ n % 2 = 0 => Odds(n) = Evens(n)
         /\ n % 2 \in {0, 1}
  BY DEF Odds, Evens

\* The goroutines of ZeroEvenOdd.
LEMMA ZeroEvenOddNodes ==
  ASSUME NEW n \in Nat, prog = "zeroEvenOdd", Programs["zeroEvenOdd"] = ZeroEvenOdd(n)
  PROVE  /\ Goroutines = {"zero", "odd", "even", "main"}
         /\ N("zero") = [Node EXCEPT !.ins = {1}, !.says = Times(n, 0), !.logs = TRUE,
                                     !.outs = <<2, 3>>, !.turns = TRUE]
         /\ N("odd") = [Node EXCEPT !.ins = {2}, !.takes = Odds(n), !.outs = <<1>>, !.logs = TRUE,
                                    !.says = [i \in 1 .. Odds(n) |-> 2 * i - 1],
                                    !.quiet = (n % 2 = 1),
                                    !.closes = IF n % 2 = 1 THEN {1, 2} ELSE {2}]
         /\ N("even") = [Node EXCEPT !.ins = {3}, !.takes = Evens(n), !.outs = <<1>>, !.logs = TRUE,
                                     !.says = [i \in 1 .. Evens(n) |-> 2 * i],
                                     !.quiet = (n % 2 = 0),
                                     !.closes = IF n % 2 = 0 THEN {1, 3} ELSE {3}]
         /\ N("main") = [Node EXCEPT !.emits = <<0>>, !.outs = <<1>>, !.taken = {"odd", "even"}]
  BY DEF Goroutines, N, ZeroEvenOdd, Odds, Evens

LEMMA ZeroFields ==
  ASSUME NEW n \in Nat \ {0}, prog = "zeroEvenOdd", Programs["zeroEvenOdd"] = ZeroEvenOdd(n)
  PROVE  /\ Plain(N("zero")) /\ N("zero").emits = <<>> /\ N("zero").ins = {1}
         /\ N("zero").outs = <<2, 3>> /\ N("zero").closes = {}
         /\ N("zero").says # <<>> /\ \A i \in 1 .. n : N("zero").says[i] = 0
         /\ N("zero").takes = Unlimited /\ N("zero").logs /\ ~N("zero").quiet /\ N("zero").turns
<1>1. N("zero") = [Node EXCEPT !.ins = {1}, !.says = Times(n, 0), !.logs = TRUE,
                               !.outs = <<2, 3>>, !.turns = TRUE]
  BY ZeroEvenOddNodes
<1>2. Times(n, 0) # <<>> /\ \A i \in 1 .. n : Times(n, 0)[i] = 0
  BY DEF Times
<1>3. Plain(N("zero"))
  BY <1>1 DEF Node, Plain
<1>4. /\ N("zero").emits = <<>> /\ N("zero").ins = {1} /\ N("zero").outs = <<2, 3>>
      /\ N("zero").closes = {} /\ N("zero").says = Times(n, 0)
  BY <1>1 DEF Node
<1>5. N("zero").takes = Unlimited /\ N("zero").logs /\ ~N("zero").quiet /\ N("zero").turns
  BY <1>1 DEF Node
<1> QED
  BY <1>2, <1>3, <1>4, <1>5

LEMMA OddFields ==
  ASSUME NEW n \in Nat \ {0}, prog = "zeroEvenOdd", Programs["zeroEvenOdd"] = ZeroEvenOdd(n)
  PROVE  /\ Plain(N("odd")) /\ N("odd").emits = <<>> /\ N("odd").ins = {2}
         /\ N("odd").outs = <<1>>
         /\ N("odd").closes = IF n % 2 = 1 THEN {1, 2} ELSE {2}
         /\ \A i \in 1 .. Odds(n) : N("odd").says # <<>> /\ N("odd").says[i] = 2 * i - 1
         /\ N("odd").takes = Odds(n) /\ N("odd").logs /\ (N("odd").quiet <=> n % 2 = 1)
         /\ ~N("odd").turns
<1>1. N("odd") = [Node EXCEPT !.ins = {2}, !.takes = Odds(n), !.outs = <<1>>, !.logs = TRUE,
                              !.says = [i \in 1 .. Odds(n) |-> 2 * i - 1],
                              !.quiet = (n % 2 = 1),
                              !.closes = IF n % 2 = 1 THEN {1, 2} ELSE {2}]
  BY ZeroEvenOddNodes
<1> DEFINE says == [i \in 1 .. Odds(n) |-> 2 * i - 1]
<1>2. \A i \in 1 .. Odds(n) : says # <<>> /\ says[i] = 2 * i - 1
  <2>1. DOMAIN says = 1 .. Odds(n) /\ DOMAIN <<>> = {}
    OBVIOUS
  <2>2. \A i \in 1 .. Odds(n) : says[i] = 2 * i - 1
    OBVIOUS
  <2> HIDE DEF says
  <2> QED
    BY <2>1, <2>2
<1> HIDE DEF says
<1>3. Plain(N("odd"))
  BY <1>1 DEF Node, Plain
<1>4. /\ N("odd").emits = <<>> /\ N("odd").ins = {2} /\ N("odd").outs = <<1>>
      /\ N("odd").closes = IF n % 2 = 1 THEN {1, 2} ELSE {2}
      /\ N("odd").says = says
  BY <1>1 DEF Node, says
<1>5. /\ N("odd").takes = Odds(n) /\ N("odd").logs /\ (N("odd").quiet <=> n % 2 = 1)
      /\ ~N("odd").turns
  BY <1>1 DEF Node
<1> QED
  BY <1>2, <1>3, <1>4, <1>5

LEMMA EvenFields ==
  ASSUME NEW n \in Nat \ {0}, prog = "zeroEvenOdd", Programs["zeroEvenOdd"] = ZeroEvenOdd(n)
  PROVE  /\ Plain(N("even")) /\ N("even").emits = <<>> /\ N("even").ins = {3}
         /\ N("even").outs = <<1>>
         /\ N("even").closes = IF n % 2 = 0 THEN {1, 3} ELSE {3}
         /\ \A i \in 1 .. Evens(n) : N("even").says # <<>> /\ N("even").says[i] = 2 * i
         /\ N("even").takes = Evens(n) /\ N("even").logs /\ (N("even").quiet <=> n % 2 = 0)
         /\ ~N("even").turns
<1>1. N("even") = [Node EXCEPT !.ins = {3}, !.takes = Evens(n), !.outs = <<1>>, !.logs = TRUE,
                               !.says = [i \in 1 .. Evens(n) |-> 2 * i],
                               !.quiet = (n % 2 = 0),
                               !.closes = IF n % 2 = 0 THEN {1, 3} ELSE {3}]
  BY ZeroEvenOddNodes
<1> DEFINE says == [i \in 1 .. Evens(n) |-> 2 * i]
<1>2. \A i \in 1 .. Evens(n) : says # <<>> /\ says[i] = 2 * i
  <2>1. DOMAIN says = 1 .. Evens(n) /\ DOMAIN <<>> = {}
    OBVIOUS
  <2>2. \A i \in 1 .. Evens(n) : says[i] = 2 * i
    OBVIOUS
  <2> HIDE DEF says
  <2> QED
    BY <2>1, <2>2
<1> HIDE DEF says
<1>3. Plain(N("even"))
  BY <1>1 DEF Node, Plain
<1>4. /\ N("even").emits = <<>> /\ N("even").ins = {3} /\ N("even").outs = <<1>>
      /\ N("even").closes = IF n % 2 = 0 THEN {1, 3} ELSE {3}
      /\ N("even").says = says
  BY <1>1 DEF Node, says
<1>5. /\ N("even").takes = Evens(n) /\ N("even").logs /\ (N("even").quiet <=> n % 2 = 0)
      /\ ~N("even").turns
  BY <1>1 DEF Node
<1> QED
  BY <1>2, <1>3, <1>4, <1>5

LEMMA ZeroMainFields ==
  ASSUME NEW n \in Nat \ {0}, prog = "zeroEvenOdd", Programs["zeroEvenOdd"] = ZeroEvenOdd(n)
  PROVE  /\ Plain(N("main")) /\ N("main").emits = <<0>> /\ N("main").ins = {}
         /\ N("main").outs = <<1>> /\ ~N("main").logs /\ N("main").taken = {"odd", "even"}
         /\ N("main").closes = {} /\ ~N("main").turns
<1>1. N("main") = [Node EXCEPT !.emits = <<0>>, !.outs = <<1>>, !.taken = {"odd", "even"}]
  BY ZeroEvenOddNodes
<1>2. Plain(N("main"))
  BY <1>1 DEF Node, Plain
<1> QED
  BY <1>1, <1>2 DEF Node

Idle(g) == pc[g] \in {"next", "end", "done"}

\* Who has the turn, and how much has been logged by then.
ZeroTurn(n) ==
  LET zeros == took["zero"]
      odds == took["odd"]
      evens == took["even"]
      out == Len(log)
  IN
  \/ /\ \/ left["main"] = <<0>> /\ pc["main"] = "next"
        \/ left["main"] = <<>> /\ pc["main"] = "send"
     /\ pc["zero"] = "next" /\ pc["odd"] \in {"next", "end", "done"} /\ Idle("even")
     /\ zeros = 0 /\ odds = 0 /\ evens = 0 /\ out = 0
  \/ /\ left["main"] = <<>> /\ Idle("main")
     /\ odds = evens \/ odds = evens + 1
     /\ \/ /\ pc["zero"] = "got" /\ Idle("odd") /\ Idle("even")
           /\ zeros = odds + evens + 1 /\ out = 2 * (odds + evens)
        \/ /\ pc["zero"] = "send" /\ Idle("odd") /\ Idle("even")
           /\ zeros = odds + evens + 1 /\ out = 2 * (odds + evens) + 1
        \/ /\ Idle("zero") /\ pc["odd"] = "got" /\ Idle("even")
           /\ odds = evens + 1 /\ zeros = odds + evens /\ out = 2 * (odds + evens) - 1
        \/ /\ pc["zero"] = "next" /\ pc["odd"] = "send" /\ Idle("even") /\ odds = evens + 1
           /\ zeros = odds + evens /\ zeros < n /\ out = 2 * (odds + evens)
        \/ /\ Idle("zero") /\ Idle("odd") /\ pc["even"] = "got"
           /\ odds = evens /\ evens > 0 /\ zeros = odds + evens /\ out = 2 * (odds + evens) - 1
        \/ /\ pc["zero"] = "next" /\ Idle("odd") /\ pc["even"] = "send" /\ odds = evens
           /\ zeros = odds + evens /\ zeros < n /\ out = 2 * (odds + evens)
        \/ /\ Idle("zero") /\ Idle("odd") /\ Idle("even")
           /\ odds + evens = n /\ zeros = n /\ out = 2 * n

\* The turn is at one place, and the channels stay open for it.
ZeroInv(n) ==
  /\ ZeroTurn(n) /\ took["zero"] <= n
  /\ left["zero"] = <<>> /\ left["odd"] = <<>> /\ left["even"] = <<>>
  /\ \A g \in {"odd", "even", "main"} :
       open[g] = N(g).ins /\ (pc[g] = "send" => todo[g] = N(g).outs)
  /\ open["zero"] \in {{1}, {}}
  /\ open["zero"] = {} => took["odd"] + took["even"] = n
  /\ pc["zero"] = "send" => todo["zero"] = IF took["odd"] = took["even"] THEN <<2>> ELSE <<3>>
  /\ pc["zero"] \in {"end", "done"} => took["odd"] + took["even"] = n
  /\ pc["odd"] \in {"end", "done"} => took["odd"] = Odds(n)
  /\ pc["even"] \in {"end", "done"} => took["even"] = Evens(n)
  /\ pc["main"] = "done" => took["odd"] = Odds(n) /\ took["even"] = Evens(n)
  /\ log \in Seq(Int) /\ \A i \in 1 .. Len(log) : log[i] = ZeroEvenOddOutput(n)[i]

LEMMA ZeroStep ==
  ASSUME NEW n \in Nat \ {0}, n < Unlimited, Unlimited \in Nat, prog = "zeroEvenOdd",
         Programs["zeroEvenOdd"] = ZeroEvenOdd(n),
         Types, CloseInv, PlainInv, ZeroInv(n), [Next]_vars
  PROVE  ZeroInv(n)'
<1>1. prog' = prog /\ Goroutines' = Goroutines /\ \A g : N(g)' = N(g)
  BY ProgramStays DEF Goroutines, N
<1>2. Goroutines = {"zero", "odd", "even", "main"}
  BY ZeroEvenOddNodes
<1>3. NextPlain
  <2>1. AllPlain
    BY <1>2, ZeroFields, OddFields, EvenFields, ZeroMainFields DEF AllPlain
  <2> QED
    BY <2>1, PlainStep
\* Who takes how much, from which channel.
<1>4. /\ N("odd").takes = Odds(n) /\ N("even").takes = Evens(n) /\ N("zero").takes = Unlimited
      /\ N("zero").ins = {1} /\ N("odd").ins = {2} /\ N("even").ins = {3} /\ N("main").ins = {}
  BY ZeroFields, OddFields, EvenFields, ZeroMainFields
<1>5. N("odd").outs = <<1>> /\ N("even").outs = <<1>> /\ N("main").outs = <<1>>
  BY OddFields, EvenFields, ZeroMainFields
<1>6. /\ pc \in [Goroutines -> Places] /\ took \in [Goroutines -> Nat]
      /\ DOMAIN left = Goroutines /\ DOMAIN todo = Goroutines /\ DOMAIN open = Goroutines
      /\ \A g \in Goroutines : took[g] <= N(g).takes
  BY DEF Types
<1>7. /\ took["zero"] \in Nat /\ took["odd"] \in Nat /\ took["even"] \in Nat
      /\ took["odd"] <= Odds(n) /\ took["even"] <= Evens(n)
      /\ \A g \in Goroutines : pc[g] \in {"next", "got"} => todo[g] = <<>>
  BY <1>2, <1>4, <1>6 DEF Types
<1>8. log \in Seq(Int) /\ Len(log) \in Nat /\ ZeroTurn(n)
  BY DEF ZeroInv
<1>9. /\ Odds(n) \in Nat /\ Evens(n) \in Nat /\ Odds(n) + Evens(n) = n
      /\ (n % 2 = 1 => Odds(n) = Evens(n) + 1) /\ (n % 2 = 0 => Odds(n) = Evens(n))
      /\ n % 2 \in {0, 1}
  BY OddsAndEvens
<1>10. took["zero"] <= n
  BY DEF ZeroInv
<1>11. ASSUME NEW g \in Goroutines, EmitPlain(g) PROVE ZeroInv(n)'
  <2>1. g = "main" /\ left["main"] # <<>> /\ pc["main"] = "next"
    BY <1>2, <1>11 DEF EmitPlain, ZeroInv
  <2>2. /\ left["main"] = <<0>> /\ pc["zero"] = "next" /\ Idle("odd") /\ Idle("even")
        /\ took["zero"] = 0 /\ took["odd"] = 0 /\ took["even"] = 0 /\ Len(log) = 0
    BY <1>8, <2>1 DEF ZeroTurn, Idle
  <2>3. /\ left'["main"] = <<>> /\ pc'["main"] = "send" /\ todo'["main"] = N("main").outs
        /\ \A x \in {"zero", "odd", "even"} :
             left'[x] = left[x] /\ pc'[x] = pc[x] /\ todo'[x] = todo[x]
        /\ UNCHANGED <<took, open, log>>
    <3>1. Tail(<<0>>) = <<>>
      OBVIOUS
    <3>2. /\ left' = [left EXCEPT !["main"] = Tail(left["main"])]
          /\ pc' = [pc EXCEPT !["main"] = "send"]
          /\ todo' = [todo EXCEPT !["main"] = N("main").outs]
          /\ UNCHANGED <<took, open>> /\ log' = log
      BY <1>11, <2>1, ZeroMainFields DEF EmitPlain
    <3> QED
      BY <1>2, <1>6, <2>2, <3>1, <3>2
  <2>4. ZeroTurn(n)'
    BY <2>2, <2>3 DEF ZeroTurn, Idle
  <2> QED
    BY <1>1, <2>1, <2>3, <2>4 DEF ZeroInv
<1>12. ASSUME NEW s \in Goroutines, NEW r \in Goroutines, TransferPlain(s, r)
       PROVE  ZeroInv(n)'
  <2>1. s # r /\ pc[s] = "send" /\ pc[r] = "next" /\ Head(todo[s]) \in open[r]
    BY <1>12 DEF TransferPlain
  <2>2. \A x : Head(<<x>>) = x /\ Tail(<<x>>) = <<>>
    OBVIOUS
  <2>3. s # "zero" => todo[s] = <<1>> /\ r = "zero"
    <3> SUFFICES ASSUME s # "zero" PROVE todo[s] = <<1>> /\ r = "zero"
      OBVIOUS
    <3>1. todo[s] = <<1>>
      BY <1>2, <1>5, <2>1 DEF ZeroInv
    <3>2. 1 \in open[r]
      BY <2>1, <2>2, <3>1
    <3> QED
      BY <1>2, <1>4, <3>1, <3>2 DEF ZeroInv
  <2>4. s = "zero" =>
          IF took["odd"] = took["even"] THEN todo[s] = <<2>> /\ r = "odd"
          ELSE todo[s] = <<3>> /\ r = "even"
    <3> SUFFICES ASSUME s = "zero"
                 PROVE  IF took["odd"] = took["even"] THEN todo[s] = <<2>> /\ r = "odd"
                        ELSE todo[s] = <<3>> /\ r = "even"
      OBVIOUS
    <3>1. todo[s] = IF took["odd"] = took["even"] THEN <<2>> ELSE <<3>>
      BY <2>1 DEF ZeroInv
    <3>2. (IF took["odd"] = took["even"] THEN 2 ELSE 3) \in open[r]
      BY <2>1, <2>2, <3>1
    <3>3. open["odd"] = {2} /\ open["even"] = {3} /\ open["main"] = {}
      BY <1>4 DEF ZeroInv
    <3> QED
      BY <1>2, <2>1, <3>1, <3>2, <3>3
  <2>5. /\ pc'[s] = "next" /\ pc'[r] = "got"
        /\ took'[r] = took[r] + 1
        /\ \A x \in Goroutines \ {r} : took'[x] = took[x]
        /\ \A x \in Goroutines \ {s, r} : pc'[x] = pc[x]
        /\ \A x \in Goroutines \ {s} : todo'[x] = todo[x]
        /\ UNCHANGED <<left, open, log>>
    <3>1. Tail(todo[s]) = <<>>
      BY <2>2, <2>3, <2>4
    <3> QED
      BY <1>6, <1>12, <2>1, <3>1 DEF TransferPlain
  <2>6. ZeroTurn(n)' /\ took'["zero"] <= n
    <3>1. CASE s = "main"
      <4>1. /\ left["main"] = <<>> /\ Idle("odd") /\ Idle("even")
            /\ took["zero"] = 0 /\ took["odd"] = 0 /\ took["even"] = 0 /\ Len(log) = 0
        BY <1>8, <2>1, <3>1 DEF ZeroTurn, Idle
      <4>2. /\ pc'["main"] = "next" /\ pc'["zero"] = "got"
            /\ pc'["odd"] = pc["odd"] /\ pc'["even"] = pc["even"]
            /\ took'["zero"] = took["zero"] + 1
            /\ took'["odd"] = took["odd"] /\ took'["even"] = took["even"]
            /\ left' = left /\ log' = log
        BY <1>2, <2>3, <2>5, <3>1
      <4> QED
        BY <1>7, <1>8, <1>9, <1>10, <4>1, <4>2 DEF ZeroTurn, Idle
    <3>2. CASE s = "odd"
      <4>1. /\ left["main"] = <<>> /\ Idle("main") /\ Idle("even")
            /\ took["odd"] = took["even"] + 1 /\ took["zero"] = took["odd"] + took["even"]
            /\ took["zero"] < n /\ Len(log) = 2 * (took["odd"] + took["even"])
        BY <1>8, <2>1, <3>2 DEF ZeroTurn, Idle
      <4>2. /\ pc'["odd"] = "next" /\ pc'["zero"] = "got"
            /\ pc'["even"] = pc["even"] /\ pc'["main"] = pc["main"]
            /\ took'["zero"] = took["zero"] + 1
            /\ took'["odd"] = took["odd"] /\ took'["even"] = took["even"]
            /\ left' = left /\ log' = log
        BY <1>2, <2>3, <2>5, <3>2
      <4> QED
        BY <1>7, <1>8, <1>9, <1>10, <4>1, <4>2 DEF ZeroTurn, Idle
    <3>3. CASE s = "even"
      <4>1. /\ left["main"] = <<>> /\ Idle("main") /\ Idle("odd")
            /\ took["odd"] = took["even"] /\ took["zero"] = took["odd"] + took["even"]
            /\ took["zero"] < n /\ Len(log) = 2 * (took["odd"] + took["even"])
        BY <1>8, <2>1, <3>3 DEF ZeroTurn, Idle
      <4>2. /\ pc'["even"] = "next" /\ pc'["zero"] = "got"
            /\ pc'["odd"] = pc["odd"] /\ pc'["main"] = pc["main"]
            /\ took'["zero"] = took["zero"] + 1
            /\ took'["odd"] = took["odd"] /\ took'["even"] = took["even"]
            /\ left' = left /\ log' = log
        BY <1>2, <2>3, <2>5, <3>3
      <4> QED
        BY <1>7, <1>8, <1>9, <1>10, <4>1, <4>2 DEF ZeroTurn, Idle
    <3>4. CASE s = "zero" /\ took["odd"] = took["even"]
      <4>1. /\ left["main"] = <<>> /\ Idle("main") /\ Idle("odd") /\ Idle("even")
            /\ took["odd"] = took["even"] \/ took["odd"] = took["even"] + 1
            /\ took["zero"] = took["odd"] + took["even"] + 1
            /\ Len(log) = 2 * (took["odd"] + took["even"]) + 1
        BY <1>8, <2>1, <3>4 DEF ZeroTurn, Idle
      <4>2. /\ pc'["zero"] = "next" /\ pc'["odd"] = "got"
            /\ pc'["even"] = pc["even"] /\ pc'["main"] = pc["main"]
            /\ took'["odd"] = took["odd"] + 1
            /\ took'["zero"] = took["zero"] /\ took'["even"] = took["even"]
            /\ left' = left /\ log' = log
        BY <1>2, <2>4, <2>5, <3>4
      <4>3. /\ took'["odd"] = took'["even"] + 1 /\ took'["zero"] = took'["odd"] + took'["even"]
            /\ Len(log') = 2 * (took'["odd"] + took'["even"]) - 1 /\ took'["zero"] <= n
        <5>1. took["zero"] \in Nat /\ took["odd"] \in Nat /\ took["even"] \in Nat /\ n \in Nat
          BY <1>7
        <5> QED
          BY <1>10, <3>4, <4>1, <4>2, <5>1
      <4>4. left'["main"] = <<>> /\ Idle("main")' /\ Idle("zero")' /\ Idle("even")'
        BY <4>1, <4>2 DEF Idle
      <4> QED
        BY <4>2, <4>3, <4>4 DEF ZeroTurn
    <3>5. CASE s = "zero" /\ took["odd"] # took["even"]
      <4>1. /\ left["main"] = <<>> /\ Idle("main") /\ Idle("odd") /\ Idle("even")
            /\ took["odd"] = took["even"] \/ took["odd"] = took["even"] + 1
            /\ took["zero"] = took["odd"] + took["even"] + 1
            /\ Len(log) = 2 * (took["odd"] + took["even"]) + 1
        BY <1>8, <2>1, <3>5 DEF ZeroTurn, Idle
      <4>2. /\ pc'["zero"] = "next" /\ pc'["even"] = "got"
            /\ pc'["odd"] = pc["odd"] /\ pc'["main"] = pc["main"]
            /\ took'["even"] = took["even"] + 1
            /\ took'["zero"] = took["zero"] /\ took'["odd"] = took["odd"]
            /\ left' = left /\ log' = log
        BY <1>2, <2>4, <2>5, <3>5
      <4>3. /\ took'["odd"] = took'["even"] /\ took'["zero"] = took'["odd"] + took'["even"]
            /\ took'["even"] > 0
            /\ Len(log') = 2 * (took'["odd"] + took'["even"]) - 1 /\ took'["zero"] <= n
        <5>1. took["zero"] \in Nat /\ took["odd"] \in Nat /\ took["even"] \in Nat /\ n \in Nat
          BY <1>7
        <5>2. took["odd"] = took["even"] + 1
          BY <3>5, <4>1
        <5>3. took'["odd"] = took'["even"] /\ took'["even"] > 0
          BY <4>2, <5>1, <5>2
        <5>4. took'["odd"] + took'["even"] = took["odd"] + took["even"] + 1
          BY <4>2, <5>1, <5>2
        <5>5. /\ took["zero"] = took["odd"] + took["even"] + 1
              /\ Len(log) = 2 * (took["odd"] + took["even"]) + 1
          BY <4>1
        <5>6. took'["zero"] = took'["odd"] + took'["even"] /\ took'["zero"] <= n
          BY <1>10, <4>2, <5>1, <5>4, <5>5
        <5>7. Len(log') = 2 * (took'["odd"] + took'["even"]) - 1
          BY <4>2, <5>1, <5>4, <5>5
        <5> QED
          BY <5>3, <5>6, <5>7
      <4>4. left'["main"] = <<>> /\ Idle("main")' /\ Idle("zero")' /\ Idle("odd")'
        BY <4>1, <4>2 DEF Idle
      <4> QED
        BY <4>2, <4>3, <4>4 DEF ZeroTurn
    <3> QED
      BY <1>2, <3>1, <3>2, <3>3, <3>4, <3>5
  <2>7. /\ \A g \in {"odd", "even", "main"} : pc'[g] = "send" => todo'[g] = N(g).outs
        /\ pc'["zero"] # "send"
    <3>1. pc["zero"] = "send" => s = "zero"
      BY <1>8, <2>1, <2>3, <1>2 DEF ZeroTurn, Idle
    <3> QED
      BY <1>2, <2>1, <2>5, <3>1 DEF ZeroInv
  <2>8. /\ pc'["zero"] \in {"end", "done"} => pc'["zero"] = pc["zero"] /\ r # "odd" /\ r # "even"
        /\ \A g \in {"odd", "even", "main"} : pc'[g] \in {"end", "done"} => pc'[g] = pc[g]
    BY <1>2, <2>1, <2>3, <2>4, <2>5
  <2>9. /\ took'["odd"] + took'["even"] >= took["odd"] + took["even"]
        /\ (r = "zero" => took'["odd"] = took["odd"] /\ took'["even"] = took["even"])
        /\ took["odd"] <= took'["odd"] /\ took["even"] <= took'["even"]
    BY <1>2, <1>7, <2>5
  <2>10. took'["odd"] <= Odds(n) /\ took'["even"] <= Evens(n)
    BY <1>2, <1>4, <1>6, <1>7, <1>12, <2>5, <1>9 DEF TransferPlain
  <2>11. /\ open'["zero"] = {} => took'["odd"] + took'["even"] = n
         /\ pc'["zero"] \in {"end", "done"} => took'["odd"] + took'["even"] = n
         /\ pc'["odd"] \in {"end", "done"} => took'["odd"] = Odds(n)
         /\ pc'["even"] \in {"end", "done"} => took'["even"] = Evens(n)
         /\ pc'["main"] = "done" => took'["odd"] = Odds(n) /\ took'["even"] = Evens(n)
    <3>1. /\ open["zero"] = {} => took["odd"] + took["even"] = n
          /\ pc["zero"] \in {"end", "done"} => took["odd"] + took["even"] = n
          /\ pc["odd"] \in {"end", "done"} => took["odd"] = Odds(n)
          /\ pc["even"] \in {"end", "done"} => took["even"] = Evens(n)
          /\ pc["main"] = "done" => took["odd"] = Odds(n) /\ took["even"] = Evens(n)
      BY DEF ZeroInv
    <3>2. took'["odd"] \in Nat /\ took'["even"] \in Nat
      BY <1>2, <1>7, <2>5
    <3>3. took["odd"] \in Nat /\ took["even"] \in Nat /\ open' = open
      BY <1>7, <2>5
    <3>4. Odds(n) \in Nat /\ Evens(n) \in Nat /\ Odds(n) + Evens(n) = n
      BY <1>9
    <3>5. ASSUME took["odd"] + took["even"] = n PROVE took'["odd"] + took'["even"] = n
      BY <2>9, <2>10, <3>2, <3>3, <3>4, <3>5
    <3>6. took["odd"] = Odds(n) => took'["odd"] = Odds(n)
      BY <2>9, <2>10, <3>2, <3>3, <3>4
    <3>7. took["even"] = Evens(n) => took'["even"] = Evens(n)
      BY <2>9, <2>10, <3>2, <3>3, <3>4
    <3> QED
      BY <2>8, <3>1, <3>3, <3>5, <3>6, <3>7
  <2> QED
    BY <1>1, <2>5, <2>6, <2>7, <2>11 DEF ZeroInv
<1>13. ASSUME NEW g \in Goroutines, EndOfInputPlain(g) PROVE ZeroInv(n)'
  <2>1. PICK ch \in open[g] \intersect closed : open' = [open EXCEPT ![g] = open[g] \ {ch}]
    BY <1>13 DEF EndOfInputPlain
  <2>2. pc[g] = "next" /\ UNCHANGED <<pc, left, took, todo, log>>
    BY <1>13 DEF EndOfInputPlain
  <2>3. PICK h \in Goroutines : ch \in N(h).closes /\ pc[h] = "done"
    BY <2>1 DEF CloseInv
  <2>4. \/ h = "odd" /\ (ch = 2 \/ (ch = 1 /\ n % 2 = 1))
        \/ h = "even" /\ (ch = 3 \/ (ch = 1 /\ n % 2 = 0))
    <3>1. N("zero").closes = {} /\ N("main").closes = {}
      BY ZeroFields, ZeroMainFields
    <3>2. N("odd").closes = IF n % 2 = 1 THEN {1, 2} ELSE {2}
      BY OddFields
    <3>3. N("even").closes = IF n % 2 = 0 THEN {1, 3} ELSE {3}
      BY EvenFields
    <3> QED
      BY <1>2, <2>3, <3>1, <3>2, <3>3
  <2>5. g = "zero" /\ ch = 1
    <3>1. open["odd"] = {2} /\ open["even"] = {3} /\ open["main"] = {}
      BY <1>4 DEF ZeroInv
    <3>2. open["zero"] \subseteq {1}
      BY DEF ZeroInv
    <3> QED
      BY <1>2, <2>1, <2>2, <2>3, <2>4, <3>1, <3>2
  <2>6. took["odd"] + took["even"] = n
    <3>1. took["odd"] = took["even"] \/ took["odd"] = took["even"] + 1
      BY <1>8, <1>7 DEF ZeroTurn
    <3>2. CASE h = "odd"
      <4>1. took["odd"] = Odds(n) /\ Odds(n) = Evens(n) + 1
        BY <1>9, <2>3, <2>4, <2>5, <3>2 DEF ZeroInv
      <4> QED
        BY <1>7, <1>9, <3>1, <4>1
    <3>3. CASE h = "even"
      <4>1. took["even"] = Evens(n) /\ Odds(n) = Evens(n)
        BY <1>9, <2>3, <2>4, <2>5, <3>3 DEF ZeroInv
      <4> QED
        BY <1>7, <1>9, <3>1, <4>1
    <3> QED
      BY <2>4, <3>2, <3>3
  <2>7. open'["zero"] = {} /\ \A x \in {"odd", "even", "main"} : open'[x] = open[x]
    <3>1. open["zero"] \in {{1}, {}}
      BY DEF ZeroInv
    <3> QED
      BY <1>2, <1>6, <2>1, <2>5, <3>1
  <2>8. ZeroTurn(n)'
    BY <1>8, <2>2 DEF ZeroTurn, Idle
  <2> QED
    BY <1>1, <2>2, <2>6, <2>7, <2>8 DEF ZeroInv
\* Those that go from one place to another by themselves.
<1>14. ASSUME NEW g \in Goroutines, FinishPlain(g) PROVE ZeroInv(n)'
  <2>1. /\ pc[g] = "next" /\ (took[g] < N(g).takes => open[g] = {})
        /\ pc'[g] = "end" /\ \A x \in Goroutines \ {g} : pc'[x] = pc[x]
        /\ UNCHANGED <<left, took, todo, open, log>>
        /\ left[g] = <<>>
    BY <1>6, <1>14 DEF FinishPlain
  <2>2. g = "zero" => took["odd"] + took["even"] = n
    <3>1. g = "zero" => open["zero"] = {}
      BY <1>4, <1>7, <1>10, <2>1
    <3> QED
      BY <3>1 DEF ZeroInv
  <2>3. (g = "odd" => took["odd"] = Odds(n)) /\ (g = "even" => took["even"] = Evens(n))
    <3>1. open["odd"] # {} /\ open["even"] # {}
      BY <1>4 DEF ZeroInv
    <3> QED
      BY <1>4, <1>7, <1>9, <2>1, <3>1
  <2>4. ZeroTurn(n)'
    <3>1. CASE g = "main"
      <4>1. left["main"] # <<0>> /\ pc["main"] = "next"
        <5>1. <<0>> # <<>>
          OBVIOUS
        <5> QED
          BY <2>1, <3>1, <5>1
      <4>2. /\ pc'["main"] = "end" /\ UNCHANGED <<left, took, log>>
            /\ \A x \in {"zero", "odd", "even"} : pc'[x] = pc[x]
        BY <1>2, <2>1, <3>1
      <4> QED
        BY <1>8, <4>1, <4>2 DEF ZeroTurn, Idle
    <3>2. CASE g = "zero"
      <4>1. took["odd"] + took["even"] = n /\ n # 0 /\ pc["zero"] = "next"
        BY <2>1, <2>2, <3>2
      <4>2. took["odd"] \in Nat /\ took["even"] \in Nat /\ took["zero"] \in Nat
        BY <1>7
      <4>3. /\ left["main"] = <<>> /\ Idle("main")
            /\ took["odd"] = took["even"] \/ took["odd"] = took["even"] + 1
            /\ \/ /\ pc["odd"] = "got" /\ Idle("even") /\ took["odd"] = took["even"] + 1
                  /\ took["zero"] = took["odd"] + took["even"]
                  /\ Len(log) = 2 * (took["odd"] + took["even"]) - 1
               \/ /\ Idle("odd") /\ pc["even"] = "got" /\ took["odd"] = took["even"]
                  /\ took["even"] > 0 /\ took["zero"] = took["odd"] + took["even"]
                  /\ Len(log) = 2 * (took["odd"] + took["even"]) - 1
               \/ /\ Idle("odd") /\ Idle("even")
                  /\ took["zero"] = n /\ Len(log) = 2 * n
        BY <1>8, <4>1, <4>2 DEF ZeroTurn
      <4>4. /\ pc'["zero"] = "end" /\ UNCHANGED <<left, took, log>>
            /\ \A x \in {"main", "odd", "even"} : pc'[x] = pc[x]
        BY <1>2, <2>1, <3>2
      <4> QED
        BY <4>1, <4>3, <4>4 DEF ZeroTurn, Idle
    <3>3. CASE g = "odd"
      BY <1>2, <1>8, <2>1, <3>3 DEF ZeroTurn, Idle
    <3>4. CASE g = "even"
      BY <1>2, <1>8, <2>1, <3>4 DEF ZeroTurn, Idle
    <3> QED
      BY <1>2, <3>1, <3>2, <3>3, <3>4
  <2> QED
    BY <1>1, <1>2, <2>1, <2>2, <2>3, <2>4 DEF ZeroInv
<1>15. ASSUME NEW g \in Goroutines, EndPlain(g) PROVE ZeroInv(n)'
  <2>1. /\ pc[g] = "end" /\ Awaited(g)
        /\ pc'[g] = "done" /\ \A x \in Goroutines \ {g} : pc'[x] = pc[x]
        /\ UNCHANGED <<left, took, todo, open, log>>
    BY <1>6, <1>15 DEF EndPlain
  <2>2. g = "main" => took["odd"] = Odds(n) /\ took["even"] = Evens(n)
    <3>1. N("main").taken = {"odd", "even"}
      BY ZeroMainFields
    <3> QED
      BY <1>4, <2>1, <3>1 DEF Awaited
  <2>3. ZeroTurn(n)'
    <3>1. CASE g = "main"
      BY <1>2, <1>8, <2>1, <3>1 DEF ZeroTurn, Idle
    <3>2. CASE g = "zero"
      BY <1>2, <1>8, <2>1, <3>2 DEF ZeroTurn, Idle
    <3>3. CASE g = "odd"
      BY <1>2, <1>8, <2>1, <3>3 DEF ZeroTurn, Idle
    <3>4. CASE g = "even"
      BY <1>2, <1>8, <2>1, <3>4 DEF ZeroTurn, Idle
    <3> QED
      BY <1>2, <3>1, <3>2, <3>3, <3>4
  <2> QED
    BY <1>1, <1>2, <2>1, <2>2, <2>3 DEF ZeroInv
<1>16. CASE UNCHANGED <<pc, left, took, hand, todo, open, closed, log>>
  <2>1. ZeroTurn(n)'
    BY <1>8, <1>16 DEF ZeroTurn, Idle
  <2> QED
    BY <1>1, <1>16, <2>1 DEF ZeroInv
<1>17. ASSUME NEW g \in Goroutines, HandlePlain(g) PROVE ZeroInv(n)'
  <2> DEFINE odds == took["odd"]
             evens == took["even"]
             Out == ZeroEvenOddOutput(n)
             word == IF g = "zero" THEN 0 ELSE IF g = "odd" THEN 2 * odds - 1 ELSE 2 * evens
             last == g # "zero" /\ odds + evens = n
  <2>1. /\ pc[g] = "got" /\ UNCHANGED <<left, took, open>>
        /\ log' = IF N(g).logs
                    THEN Append(log, IF N(g).says = <<>> THEN hand[g] ELSE N(g).says[took[g]])
                    ELSE log
        /\ IF N(g).outs = <<>> \/ (N(g).quiet /\ took[g] = N(g).takes)
             THEN pc' = [pc EXCEPT ![g] = "next"] /\ UNCHANGED <<hand, todo>>
             ELSE /\ pc' = [pc EXCEPT ![g] = "send"]
                  /\ todo' = [todo EXCEPT ![g] = Route(g)]
    BY <1>17 DEF HandlePlain
  \* Whose turn it is, and what that says of the counts.
  <2>2. /\ g \in {"zero", "odd", "even"} /\ left["main"] = <<>> /\ Idle("main")
        /\ odds = evens \/ odds = evens + 1
        /\ g = "zero" => /\ Idle("odd") /\ Idle("even") /\ took["zero"] = odds + evens + 1
                         /\ Len(log) = 2 * (odds + evens)
        /\ g = "odd" => /\ Idle("zero") /\ Idle("even") /\ odds = evens + 1
                        /\ took["zero"] = odds + evens /\ Len(log) = 2 * (odds + evens) - 1
        /\ g = "even" => /\ Idle("zero") /\ Idle("odd") /\ odds = evens /\ evens > 0
                         /\ took["zero"] = odds + evens /\ Len(log) = 2 * (odds + evens) - 1
    BY <1>2, <1>8, <2>1 DEF ZeroTurn, Idle
  <2>3. odds \in Nat /\ evens \in Nat /\ took["zero"] \in Nat /\ n \in Nat /\ Len(log) \in Nat
    BY <1>7, <1>8
  <2>4. /\ g = "zero" => took[g] \in 1 .. n
        /\ g = "odd" => took[g] \in 1 .. Odds(n)
        /\ g = "even" => took[g] \in 1 .. Evens(n)
    BY <1>7, <1>9, <1>10, <2>2, <2>3
  <2>5. log' = Append(log, word)
    BY <2>1, <2>2, <2>4, ZeroFields, OddFields, EvenFields
  <2>6. word \in Int
    BY <2>3
  <2>7. /\ Len(log') = Len(log) + 1 /\ log' \in Seq(Int)
        /\ \A i \in 1 .. Len(log) : log'[i] = log[i]
        /\ log'[Len(log) + 1] = word
    <3> HIDE DEF word
    <3> QED
      BY <1>8, <2>5, <2>6
  <2>8. Len(log) + 1 \in 1 .. 2 * n /\ Out[Len(log) + 1] = word
    <3>1. \A i \in 1 .. 2 * n : Out[i] = IF i % 2 = 1 THEN 0 ELSE i \div 2
      BY DEF ZeroEvenOddOutput
    <3>2. \A k \in Nat : (2 * k + 1) % 2 = 1 /\ (2 * k) % 2 = 0 /\ (2 * k) \div 2 = k
      OBVIOUS
    <3>3. CASE g = "zero"
      <4>1. Len(log) + 1 = 2 * (odds + evens) + 1 /\ odds + evens < n /\ odds + evens \in Nat
        BY <1>10, <2>2, <2>3, <3>3
      <4> QED
        BY <2>3, <3>1, <3>2, <3>3, <4>1
    <3>4. CASE g # "zero"
      <4>1. /\ Len(log) + 1 = 2 * (odds + evens) /\ odds + evens \in 1 .. n
            /\ word = odds + evens
        <5>1. CASE g = "odd"
          <6>1. /\ odds = evens + 1 /\ took["zero"] = odds + evens
                /\ Len(log) = 2 * (odds + evens) - 1 /\ word = 2 * odds - 1
            BY <2>2, <5>1
          <6> HIDE DEF word, odds, evens
          <6>2. odds + evens = 2 * odds - 1
            BY <2>3, <6>1
          <6>3. Len(log) + 1 = 2 * (odds + evens)
            BY <2>3, <6>1
          <6>4. odds + evens <= n /\ odds + evens > 0
            BY <1>10, <2>3, <6>1
          <6> QED
            BY <2>3, <6>1, <6>2, <6>3, <6>4
        <5>2. CASE g = "even"
          BY <1>10, <2>2, <2>3, <5>2
        <5> QED
          BY <2>2, <3>4, <5>1, <5>2
      <4> HIDE DEF word, Out
      <4> QED
        BY <2>3, <3>1, <3>2, <4>1
    <3> QED
      BY <3>3, <3>4
  <2>9. \A i \in 1 .. Len(log') : log'[i] = Out[i]
    <3>1. \A i \in 1 .. Len(log) : log[i] = Out[i]
      BY DEF ZeroInv
    <3> HIDE DEF Out, word
    <3>2. ASSUME NEW i \in 1 .. Len(log') PROVE log'[i] = Out[i]
      <4>1. i \in 1 .. Len(log) \/ i = Len(log) + 1
        BY <1>8, <2>7
      <4> QED
        BY <2>7, <2>8, <3>1, <4>1
    <3> QED
      BY <3>2
  \* Who passes the turn on.
  <2>10. (N(g).outs = <<>> \/ (N(g).quiet /\ took[g] = N(g).takes)) <=> last
    <3>1. CASE g = "zero"
      <4>1. <<2, 3>> # <<>>
        OBVIOUS
      <4>2. N("zero").outs = <<2, 3>> /\ ~N("zero").quiet
        BY ZeroFields
      <4> QED
        BY <3>1, <4>1, <4>2
    <3>2. CASE g = "odd"
      <4>1. odds + evens = n <=> n % 2 = 1 /\ odds = Odds(n)
        <5>1. odds = evens + 1 /\ odds <= Odds(n) /\ evens <= Evens(n)
          BY <1>7, <2>2, <3>2
        <5>2. CASE n % 2 = 1
          BY <1>9, <2>3, <5>1, <5>2
        <5>3. CASE n % 2 = 0
          BY <1>9, <2>3, <5>1, <5>3
        <5> QED
          BY <1>9, <5>2, <5>3
      <4>2. /\ N(g).outs # <<>> /\ N(g).takes = Odds(n)
            /\ N(g).quiet <=> n % 2 = 1
        <5>1. <<1>> # <<>>
          OBVIOUS
        <5>2. /\ N("odd").outs = <<1>> /\ N("odd").takes = Odds(n)
              /\ N("odd").quiet <=> n % 2 = 1
          BY OddFields
        <5> QED
          BY <3>2, <5>1, <5>2
      <4>3. last <=> odds + evens = n
        BY <3>2
      <4> HIDE DEF last
      <4> QED
        BY <3>2, <4>1, <4>2, <4>3
    <3>3. CASE g = "even"
      <4>1. odds + evens = n <=> n % 2 = 0 /\ evens = Evens(n)
        BY <1>7, <1>9, <2>2, <2>3, <2>4, <3>3
      <4>2. /\ N(g).outs # <<>> /\ N(g).takes = Evens(n)
            /\ N(g).quiet <=> n % 2 = 0
        <5>1. <<1>> # <<>>
          OBVIOUS
        <5>2. /\ N("even").outs = <<1>> /\ N("even").takes = Evens(n)
              /\ N("even").quiet <=> n % 2 = 0
          BY EvenFields
        <5> QED
          BY <3>3, <5>1, <5>2
      <4>3. last <=> odds + evens = n
        BY <3>3
      <4> HIDE DEF last
      <4> QED
        BY <3>3, <4>1, <4>2, <4>3
    <3> QED
      BY <2>2, <3>1, <3>2, <3>3
  <2>11. /\ \A x \in Goroutines \ {g} : pc'[x] = pc[x] /\ todo'[x] = todo[x]
         /\ last => pc'[g] = "next"
         /\ ~last => pc'[g] = "send" /\ todo'[g] = Route(g)
    <3> HIDE DEF last
    <3>1. DOMAIN pc = Goroutines /\ DOMAIN todo = Goroutines
      BY <1>6
    <3> QED
      BY <2>1, <2>10, <3>1
  <2>12. /\ g \in {"odd", "even"} => Route(g) = N(g).outs
         /\ g = "zero" => Route(g) = IF odds = evens THEN <<2>> ELSE <<3>>
    <3>1. CASE g = "zero"
      <4>1. /\ (took["zero"] - 1) % 2 = IF odds = evens THEN 0 ELSE 1
        <5>1. \A k \in Nat : (2 * k + 1) % 2 = 1 /\ (2 * k) % 2 = 0
          OBVIOUS
        <5>2. took["zero"] - 1 = IF odds = evens THEN 2 * evens ELSE 2 * evens + 1
          BY <2>2, <2>3, <3>1
        <5> QED
          BY <2>3, <5>1, <5>2
      <4>2. Len(<<2, 3>>) = 2 /\ <<2, 3>>[0 + 1] = 2 /\ <<2, 3>>[1 + 1] = 3
        OBVIOUS
      <4> QED
        BY <3>1, <4>1, <4>2, ZeroFields DEF Route
    <3>2. CASE g \in {"odd", "even"}
      BY <3>2, OddFields, EvenFields DEF Route
    <3> QED
      BY <2>2, <3>1, <3>2
  <2> HIDE DEF word, Out
  <2>13. ZeroTurn(n)'
    <3>1. /\ pc["zero"] \in {"end", "done"} => odds + evens = n
          /\ took["zero"] <= n
      BY DEF ZeroInv
    <3>2. CASE g = "zero"
      <4>1. /\ pc'["zero"] = "send" /\ Idle("odd")' /\ Idle("even")' /\ Idle("main")'
            /\ UNCHANGED <<left, took>> /\ Len(log') = 2 * (odds + evens) + 1
        BY <1>2, <2>1, <2>2, <2>7, <2>11, <3>2 DEF Idle
      <4> QED
        BY <2>2, <3>2, <4>1 DEF ZeroTurn
    <3>3. CASE g = "odd" /\ last
      <4>1. /\ pc'["odd"] = "next" /\ Idle("zero")' /\ Idle("even")' /\ Idle("main")'
            /\ UNCHANGED <<left, took>>
        BY <1>2, <2>1, <2>2, <2>11, <3>3 DEF Idle
      <4>2. Len(log') = 2 * n /\ odds + evens = n /\ took["zero"] = n
        <5>1. odds + evens = n /\ took["zero"] = odds + evens /\ Len(log) = 2 * (odds + evens) - 1
          BY <2>2, <3>3
        <5> QED
          BY <2>3, <2>7, <5>1
      <4> QED
        BY <2>2, <4>1, <4>2 DEF ZeroTurn, Idle
    <3>4. CASE g = "even" /\ last
      <4>1. /\ pc'["even"] = "next" /\ Idle("zero")' /\ Idle("odd")' /\ Idle("main")'
            /\ UNCHANGED <<left, took>>
        BY <1>2, <2>1, <2>2, <2>11, <3>4 DEF Idle
      <4>2. Len(log') = 2 * n /\ odds + evens = n /\ took["zero"] = n
        <5>1. odds + evens = n /\ took["zero"] = odds + evens /\ Len(log) = 2 * (odds + evens) - 1
          BY <2>2, <3>4
        <5> QED
          BY <2>3, <2>7, <5>1
      <4> QED
        BY <2>2, <4>1, <4>2 DEF ZeroTurn, Idle
    <3>5. CASE g = "odd" /\ ~last
      <4>1. pc["zero"] = "next" /\ took["zero"] < n /\ Len(log') = 2 * (odds + evens)
        <5>1. /\ odds + evens # n /\ took["zero"] = odds + evens /\ Idle("zero")
              /\ Len(log) = 2 * (odds + evens) - 1
          BY <2>2, <3>5
        <5>2. pc["zero"] = "next"
          BY <3>1, <5>1 DEF Idle
        <5> QED
          BY <2>3, <2>7, <3>1, <5>1, <5>2
      <4>2. /\ pc'["odd"] = "send" /\ pc'["zero"] = "next" /\ Idle("even")' /\ Idle("main")'
            /\ UNCHANGED <<left, took>>
        BY <1>2, <2>1, <2>2, <2>11, <3>5, <4>1 DEF Idle
      <4> QED
        BY <2>2, <3>5, <4>1, <4>2 DEF ZeroTurn
    <3>6. CASE g = "even" /\ ~last
      <4>1. pc["zero"] = "next" /\ took["zero"] < n /\ Len(log') = 2 * (odds + evens)
        <5>1. /\ odds + evens # n /\ took["zero"] = odds + evens /\ Idle("zero")
              /\ Len(log) = 2 * (odds + evens) - 1
          BY <2>2, <3>6
        <5>2. pc["zero"] = "next"
          BY <3>1, <5>1 DEF Idle
        <5> QED
          BY <2>3, <2>7, <3>1, <5>1, <5>2
      <4>2. /\ pc'["even"] = "send" /\ pc'["zero"] = "next" /\ Idle("odd")' /\ Idle("main")'
            /\ UNCHANGED <<left, took>>
        BY <1>2, <2>1, <2>2, <2>11, <3>6, <4>1 DEF Idle
      <4> QED
        BY <2>2, <3>6, <4>1, <4>2 DEF ZeroTurn
    <3> QED
      BY <2>2, <3>2, <3>3, <3>4, <3>5, <3>6
  <2>14. /\ \A x \in {"odd", "even", "main"} : pc'[x] = "send" => todo'[x] = N(x).outs
         /\ pc'["zero"] = "send" => todo'["zero"] = IF odds = evens THEN <<2>> ELSE <<3>>
    BY <1>2, <2>2, <2>11, <2>12 DEF ZeroInv
  <2>15. \A x \in Goroutines : pc'[x] \in {"end", "done"} => pc'[x] = pc[x]
    BY <2>11
  <2>16. (\A i \in 1 .. Len(log) : log[i] = ZeroEvenOddOutput(n)[i])'
    BY <2>9 DEF Out
  <2> QED
    BY <1>1, <1>2, <2>1, <2>7, <2>13, <2>14, <2>15, <2>16 DEF ZeroInv
<1> QED
  BY <1>3, <1>11, <1>12, <1>13, <1>14, <1>15, <1>16, <1>17 DEF NextPlain

LEMMA ZeroInit ==
  ASSUME NEW n \in Nat \ {0}, prog = "zeroEvenOdd", Programs["zeroEvenOdd"] = ZeroEvenOdd(n), Init
  PROVE  ZeroInv(n)
<1>1. Goroutines = {"zero", "odd", "even", "main"}
  BY ZeroEvenOddNodes
<1>2. /\ N("zero").emits = <<>> /\ N("odd").emits = <<>> /\ N("even").emits = <<>>
      /\ N("main").emits = <<0>> /\ N("zero").ins = {1}
  BY ZeroFields, OddFields, EvenFields, ZeroMainFields
<1>3. /\ pc = [g \in Goroutines |-> "next"] /\ took = [g \in Goroutines |-> 0]
      /\ left = [g \in Goroutines |-> N(g).emits] /\ open = [g \in Goroutines |-> N(g).ins]
      /\ log = <<>>
  BY DEF Init
<1>4. ZeroTurn(n)
  BY <1>1, <1>2, <1>3 DEF ZeroTurn, Idle
<1>5. /\ left["zero"] = <<>> /\ left["odd"] = <<>> /\ left["even"] = <<>>
      /\ open["zero"] = {1} /\ \A g \in Goroutines : open[g] = N(g).ins
      /\ \A g \in Goroutines : pc[g] = "next"
      /\ took["zero"] = 0 /\ Len(log) = 0 /\ log \in Seq(Int)
  BY <1>1, <1>2, <1>3
<1> QED
  BY <1>1, <1>4, <1>5 DEF ZeroInv

\* What ZeroInv says of the log.
LEMMA ZeroLogs ==
  ASSUME NEW n \in Nat \ {0}, prog = "zeroEvenOdd", Programs["zeroEvenOdd"] = ZeroEvenOdd(n),
         Results["zeroEvenOdd"] = ZeroEvenOddOutput(n), Types, ZeroInv(n)
  PROVE  LogsFollowResults
<1> DEFINE Out == ZeroEvenOddOutput(n)
<1>1. Out \in Seq(Int) /\ Len(Out) = 2 * n
  <2>1. \A i \in 1 .. 2 * n : (IF i % 2 = 1 THEN 0 ELSE i \div 2) \in Int
    OBVIOUS
  <2> QED
    BY <2>1 DEF ZeroEvenOddOutput
<1>2. Goroutines = {"zero", "odd", "even", "main"}
  BY ZeroEvenOddNodes
<1>3. took["zero"] \in Nat /\ took["odd"] \in Nat /\ took["even"] \in Nat
  BY <1>2 DEF Types
<1>4. log \in Seq(Int) /\ Len(log) \in Nat /\ \A i \in 1 .. Len(log) : log[i] = Out[i]
  BY DEF ZeroInv
<1>5. /\ ZeroTurn(n) /\ took["zero"] <= n
      /\ pc["main"] = "done" => took["odd"] = Odds(n) /\ took["even"] = Evens(n)
  BY DEF ZeroInv
<1> DEFINE all == took["odd"] + took["even"]
<1>6. \/ all = 0 /\ Len(log) = 0
      \/ took["zero"] = all + 1 /\ Len(log) \in {2 * all, 2 * all + 1}
      \/ took["zero"] = all /\ Len(log) \in {2 * all - 1, 2 * all}
  <2>1. took["odd"] = 0 /\ took["even"] = 0 => all = 0
    OBVIOUS
  <2> HIDE DEF all
  <2>2. \/ took["odd"] = 0 /\ took["even"] = 0 /\ Len(log) = 0
        \/ took["zero"] = all + 1 /\ Len(log) \in {2 * all, 2 * all + 1}
        \/ took["zero"] = all /\ Len(log) \in {2 * all - 1, 2 * all}
    BY <1>5 DEF ZeroTurn, all
  <2> QED
    BY <2>1, <2>2
<1>7. all \in Nat /\ (pc["main"] = "done" => all = n)
  BY <1>3, <1>5, OddsAndEvens
<1>8. Len(log) <= 2 * n /\ (all = n => Len(log) >= 2 * n - 1)
  <2> HIDE DEF all
  <2>1. CASE all = 0 /\ Len(log) = 0
    BY <1>7, <2>1
  <2>2. CASE took["zero"] = all + 1 /\ Len(log) \in {2 * all, 2 * all + 1}
    BY <1>3, <1>4, <1>5, <1>7, <2>2
  <2>3. CASE took["zero"] = all /\ Len(log) \in {2 * all - 1, 2 * all}
    BY <1>3, <1>4, <1>5, <1>7, <2>3
  <2> QED
    BY <1>6, <2>1, <2>2, <2>3
<1> HIDE DEF Out, all
<1>9. ToBag(log) \sqsubseteq ToBag(Out) /\ IsPrefix(log, Out)
  BY <1>1, <1>4, <1>8, PrefixIsPart
<1>10. Results[prog] = Out
  BY DEF Out
<1> QED
  BY <1>1, <1>4, <1>7, <1>8, <1>9, <1>10 DEF LogsFollowResults

\* Who has closed a channel has had its last number, and nobody sends on that channel
\* any more.
LEMMA ZeroNoPanic ==
  ASSUME NEW n \in Nat \ {0}, prog = "zeroEvenOdd", Programs["zeroEvenOdd"] = ZeroEvenOdd(n),
         Types, CloseInv, ZeroInv(n), ~panicked, [Next]_vars
  PROVE  ~panicked'
<1>1. Goroutines = {"zero", "odd", "even", "main"}
  BY ZeroEvenOddNodes
<1>2. /\ N("zero").closes = {} /\ N("main").closes = {}
      /\ N("odd").closes = IF n % 2 = 1 THEN {1, 2} ELSE {2}
      /\ N("even").closes = IF n % 2 = 0 THEN {1, 3} ELSE {3}
  BY ZeroFields, OddFields, EvenFields, ZeroMainFields
<1>3. \A g, h \in Goroutines : N(g).closes \intersect N(h).closes # {} => g = h
  BY <1>1, <1>2
<1>4. /\ took["zero"] \in Nat /\ took["odd"] \in Nat /\ took["even"] \in Nat
      /\ took["zero"] <= n
  BY <1>1 DEF Types, ZeroInv
<1>5. /\ Odds(n) \in Nat /\ Evens(n) \in Nat /\ Odds(n) + Evens(n) = n
      /\ (n % 2 = 1 => Odds(n) = Evens(n) + 1) /\ (n % 2 = 0 => Odds(n) = Evens(n))
      /\ n % 2 \in {0, 1}
  BY OddsAndEvens
\* What a closed channel says of the counts.
<1>6. ASSUME NEW ch \in closed
      PROVE  /\ ch \in {1, 2, 3}
             /\ ch = 1 => IF n % 2 = 1 THEN took["odd"] = Odds(n) ELSE took["even"] = Evens(n)
             /\ ch = 2 => took["odd"] = Odds(n)
             /\ ch = 3 => took["even"] = Evens(n)
  <2>1. PICK h \in Goroutines : ch \in N(h).closes /\ pc[h] = "done"
    BY DEF CloseInv
  <2>2. /\ h = "odd" => took["odd"] = Odds(n)
        /\ h = "even" => took["even"] = Evens(n)
    BY <2>1 DEF ZeroInv
  <2> QED
    BY <1>1, <1>2, <1>5, <2>1, <2>2
<1>7. ASSUME NEW g \in Goroutines, pc[g] = "send", Head(todo[g]) \in closed PROVE FALSE
  <2>1. \A x : Head(<<x>>) = x
    OBVIOUS
  <2>2. CASE g = "zero"
    <3>1. /\ took["odd"] = took["even"] \/ took["odd"] = took["even"] + 1
          /\ took["zero"] = took["odd"] + took["even"] + 1
      BY <1>7, <2>2 DEF ZeroInv, ZeroTurn, Idle
    <3>2. Head(todo[g]) = IF took["odd"] = took["even"] THEN 2 ELSE 3
      BY <1>7, <2>1, <2>2 DEF ZeroInv
    <3>3. IF took["odd"] = took["even"] THEN took["odd"] = Odds(n) ELSE took["even"] = Evens(n)
      BY <1>6, <1>7, <3>2
    <3> QED
      BY <1>4, <1>5, <3>1, <3>3
  <2>3. CASE g # "zero"
    <3>1. Head(todo[g]) = 1
      <4>1. N("odd").outs = <<1>> /\ N("even").outs = <<1>> /\ N("main").outs = <<1>>
        BY OddFields, EvenFields, ZeroMainFields
      <4> QED
        BY <1>1, <1>7, <2>1, <2>3, <4>1 DEF ZeroInv
    <3>2. /\ took["odd"] = took["even"] \/ took["odd"] = took["even"] + 1
          /\ took["odd"] + took["even"] < n
      <4>1. ZeroTurn(n)
        BY DEF ZeroInv
      <4>2. CASE g = "main"
        <5>1. took["odd"] = 0 /\ took["even"] = 0
          BY <1>7, <4>1, <4>2 DEF ZeroTurn, Idle
        <5> QED
          BY <5>1
      <4>3. CASE g \in {"odd", "even"}
        <5>1. /\ took["odd"] = took["even"] \/ took["odd"] = took["even"] + 1
              /\ took["zero"] = took["odd"] + took["even"] /\ took["zero"] < n
          BY <1>7, <4>1, <4>3 DEF ZeroTurn, Idle
        <5> QED
          BY <5>1
      <4> QED
        BY <1>1, <2>3, <4>2, <4>3
    <3>3. IF n % 2 = 1 THEN took["odd"] = Odds(n) ELSE took["even"] = Evens(n)
      BY <1>6, <1>7, <3>1
    <3> QED
      BY <1>4, <1>5, <3>2, <3>3
  <2> QED
    BY <2>2, <2>3
<1>8. AllPlain
  BY <1>1, ZeroFields, OddFields, EvenFields, ZeroMainFields DEF AllPlain
<1> QED
  BY <1>3, <1>7, <1>8, NoPanicPlain

\* 1116, for every n: the numbers come in order with a zero before each, nobody sends
\* on a closed channel or closes one twice, and when main ends at most the last number
\* is missing, which main does not wait for.
THEOREM ZeroEvenOddPrints ==
  ASSUME NEW n \in Nat \ {0}, Unlimited \in Nat, n < Unlimited,
         Programs["zeroEvenOdd"] = ZeroEvenOdd(n),
         Results["zeroEvenOdd"] = ZeroEvenOddOutput(n)
  PROVE  FairSpec => [](prog = "zeroEvenOdd" => LogsFollowResults /\ ~panicked)
<1> DEFINE Inv == NetworkInv /\ (prog = "zeroEvenOdd" => PlainInv /\ ZeroInv(n) /\ ~panicked)
<1>1. Init => Inv
  <2>1. Init => PlainInv /\ ~panicked
    BY DEF Init, PlainInv
  <2> QED
    BY <2>1, NetworkInit, ZeroInit
<1>2. Inv /\ [Next]_vars => Inv'
  <2> SUFFICES ASSUME Inv, [Next]_vars PROVE Inv'
    OBVIOUS
  <2>1. NetworkInv' /\ prog' = prog
    BY NetworkStep, ProgramStays
  <2>2. ASSUME prog = "zeroEvenOdd" PROVE PlainInv' /\ ZeroInv(n)' /\ ~panicked'
    <3>1. AllPlain
      <4>1. Goroutines = {"zero", "odd", "even", "main"}
        BY <2>2, ZeroEvenOddNodes
      <4> QED
        BY <2>2, <4>1, ZeroFields, OddFields, EvenFields, ZeroMainFields DEF AllPlain
    <3>2. Types /\ CloseInv
      BY DEF NetworkInv
    <3> QED
      BY <2>2, <3>1, <3>2, PlainStep, ZeroStep, ZeroNoPanic
  <2> QED
    BY <2>1, <2>2
<1>3. Inv => (prog = "zeroEvenOdd" => LogsFollowResults /\ ~panicked)
  BY ZeroLogs DEF NetworkInv
<1> QED
  BY <1>1, <1>2, <1>3, FairSpecBehaves, PTL DEF Behaves
-----------------------------------------------------------------------------
(* pattern/pipeline                                                        *)

LEMMA PipelineFields ==
  ASSUME NEW nums, prog = "pipeline", Programs["pipeline"] = Pipeline(nums)
  PROVE  /\ Goroutines = {"gen", "square", "double", "main"} /\ AllPlain
         /\ N("gen").emits = nums /\ N("gen").ins = {} /\ N("gen").outs = <<1>>
         /\ ~N("gen").logs /\ N("gen").closes = {1}
         /\ N("square").emits = <<>> /\ N("square").ins = {1} /\ N("square").outs = <<2>>
         /\ ~N("square").logs /\ N("square").closes = {2} /\ N("square").square
         /\ N("double").emits = <<>> /\ N("double").ins = {2} /\ N("double").outs = <<3>>
         /\ ~N("double").logs /\ N("double").closes = {3} /\ ~N("double").square
         /\ N("double").times = 2
         /\ N("main").emits = <<>> /\ N("main").ins = {3} /\ N("main").outs = <<>>
         /\ N("main").logs /\ N("main").closes = {} /\ N("main").says = <<>>
         /\ \A g \in Goroutines : /\ N(g).takes = Unlimited /\ ~N(g).quiet /\ ~N(g).turns
                                 /\ ~N(g).twice
<1>1. Goroutines = {"gen", "square", "double", "main"}
  BY DEF Goroutines, Pipeline
<1>2. N("gen") = [Node EXCEPT !.emits = nums, !.outs = <<1>>, !.closes = {1}]
  BY DEF N, Pipeline, Producer, Sink
<1>3. Plain(N("gen"))
  BY <1>2 DEF Node, Plain
<1>4. N("gen").emits = nums /\ N("gen").ins = {} /\ N("gen").outs = <<1>>
  BY <1>2 DEF Node
<1>5. ~N("gen").logs /\ N("gen").closes = {1} /\ ~N("gen").twice
  BY <1>2 DEF Node
<1>6. N("gen").takes = Unlimited /\ ~N("gen").quiet /\ ~N("gen").turns
  BY <1>2 DEF Node
<1>7. N("square") = [Node EXCEPT !.ins = {1}, !.square = TRUE, !.outs = <<2>>, !.closes = {2}]
  BY DEF N, Pipeline, Producer, Sink
<1>8. Plain(N("square"))
  BY <1>7 DEF Node, Plain
<1>9. N("square").emits = <<>> /\ N("square").ins = {1} /\ N("square").outs = <<2>>
  BY <1>7 DEF Node
<1>10. ~N("square").logs /\ N("square").closes = {2} /\ N("square").square /\ ~N("square").twice
  BY <1>7 DEF Node
<1>11. N("square").takes = Unlimited /\ ~N("square").quiet /\ ~N("square").turns
  BY <1>7 DEF Node
<1>12. N("double") = [Node EXCEPT !.ins = {2}, !.times = 2, !.outs = <<3>>, !.closes = {3}]
  BY DEF N, Pipeline, Producer, Sink
<1>13. Plain(N("double"))
  BY <1>12 DEF Node, Plain
<1>14. N("double").emits = <<>> /\ N("double").ins = {2} /\ N("double").outs = <<3>>
  BY <1>12 DEF Node
<1>15. /\ ~N("double").logs /\ N("double").closes = {3} /\ ~N("double").square
       /\ N("double").times = 2 /\ ~N("double").twice
  BY <1>12 DEF Node
<1>16. N("double").takes = Unlimited /\ ~N("double").quiet /\ ~N("double").turns
  BY <1>12 DEF Node
<1>17. N("main") = [Node EXCEPT !.ins = {3}, !.logs = TRUE]
  BY DEF N, Pipeline, Producer, Sink
<1>18. Plain(N("main"))
  BY <1>17 DEF Node, Plain
<1>19. N("main").emits = <<>> /\ N("main").ins = {3} /\ N("main").outs = <<>>
  BY <1>17 DEF Node
<1>20. N("main").logs /\ N("main").closes = {} /\ N("main").says = <<>> /\ ~N("main").twice
  BY <1>17 DEF Node
<1>21. N("main").takes = Unlimited /\ ~N("main").quiet /\ ~N("main").turns
  BY <1>17 DEF Node
<1> QED
  BY <1>1, <1>3, <1>4, <1>5, <1>6, <1>8, <1>9, <1>10, <1>11,
     <1>13, <1>14, <1>15, <1>16, <1>18, <1>19, <1>20, <1>21
  DEF AllPlain

Squared(x) == x * x
Doubled(x) == 2 * x

\* A goroutine that is at a value has taken it and not yet passed it on.
Busy(g) == IF pc[g] \in {"got", "send"} THEN 1 ELSE 0

\* How many numbers gen has taken up.
Emitted(nums) == Len(nums) - Len(left["gen"])

\* A stage has had what the one before it has passed on, in that order.
PipelineCounts(nums) ==
  /\ took["square"] = Emitted(nums) - Busy("gen")
  /\ took["double"] = took["square"] - Busy("square")
  /\ took["main"] = took["double"] - Busy("double")
  /\ Len(log) = took["main"] - Busy("main")

\* Who is at what, and what has come out.
PipelineHands(nums) ==
  /\ \A i \in 1 .. Len(left["gen"]) : left["gen"][i] = nums[Emitted(nums) + i]
  /\ pc["gen"] = "send" => hand["gen"] = nums[Emitted(nums)]
  /\ pc["square"] = "got" => hand["square"] = nums[took["square"]]
  /\ pc["square"] = "send" => hand["square"] = Squared(nums[took["square"]])
  /\ pc["double"] = "got" => hand["double"] = Squared(nums[took["double"]])
  /\ pc["double"] = "send" => hand["double"] = Doubled(Squared(nums[took["double"]]))
  /\ pc["main"] = "got" => hand["main"] = Doubled(Squared(nums[took["main"]]))
  /\ \A i \in 1 .. Len(log) : log[i] = Doubled(Squared(nums[i]))

PipelineInv(nums) ==
  /\ PipelineCounts(nums) /\ PipelineHands(nums)
  /\ Len(left["gen"]) <= Len(nums) /\ log \in Seq(Int)
  /\ pc["gen"] # "got" /\ pc["main"] # "send"
  /\ \A g \in {"square", "double", "main"} : left[g] = <<>>
  /\ \A g \in Goroutines : pc[g] = "send" => todo[g] = N(g).outs

LEMMA PipelineInit ==
  ASSUME NEW nums \in Seq(Int), prog = "pipeline", Programs["pipeline"] = Pipeline(nums), Init
  PROVE  PipelineInv(nums)
<1>1. Goroutines = {"gen", "square", "double", "main"}
  BY PipelineFields
<1>2. /\ \A g \in Goroutines : pc[g] = "next" /\ took[g] = 0 /\ left[g] = N(g).emits
      /\ log = <<>>
  BY DEF Init
<1>3. /\ left["gen"] = nums /\ \A g \in {"square", "double", "main"} : left[g] = <<>>
      /\ Len(log) = 0 /\ log \in Seq(Int) /\ Len(nums) \in Nat
  BY <1>1, <1>2, PipelineFields
<1>4. Emitted(nums) = 0 /\ \A g \in Goroutines : Busy(g) = 0
  BY <1>2, <1>3 DEF Emitted, Busy
<1>5. PipelineCounts(nums)
  BY <1>1, <1>2, <1>3, <1>4 DEF PipelineCounts
<1>6. PipelineHands(nums)
  BY <1>1, <1>2, <1>3, <1>4 DEF PipelineHands
<1> QED
  BY <1>1, <1>2, <1>3, <1>5, <1>6 DEF PipelineInv

\* No stage has had more than the one before it.
LEMMA PipelineFlow ==
  ASSUME NEW nums \in Seq(Int), prog = "pipeline", Programs["pipeline"] = Pipeline(nums),
         Types, PipelineInv(nums)
  PROVE  /\ took["square"] \in Nat /\ took["double"] \in Nat /\ took["main"] \in Nat
         /\ Len(left["gen"]) \in Nat /\ Len(nums) \in Nat /\ Len(log) \in Nat
         /\ took["square"] <= Len(nums) /\ took["double"] <= Len(nums)
         /\ took["main"] <= Len(nums) /\ Len(log) <= Len(nums)
<1>1. /\ took["square"] \in Nat /\ took["double"] \in Nat /\ took["main"] \in Nat
      /\ left["gen"] \in Seq(Int)
  <2>1. Goroutines = {"gen", "square", "double", "main"}
    BY PipelineFields
  <2> QED
    BY <2>1 DEF Types
<1>2. Len(left["gen"]) \in Nat /\ Len(nums) \in Nat /\ Len(log) \in Nat
  BY <1>1 DEF PipelineInv
<1>3. ASSUME NEW g, NEW x \in Int PROVE x - Busy(g) <= x /\ x - Busy(g) \in Int
  BY DEF Busy
<1>4. Len(nums) - Len(left["gen"]) \in Int /\ Len(nums) - Len(left["gen"]) <= Len(nums)
  BY <1>2
<1>5. took["square"] <= Len(nums) - Len(left["gen"])
  <2>1. took["square"] = (Len(nums) - Len(left["gen"])) - Busy("gen")
    BY DEF PipelineInv, PipelineCounts, Emitted
  <2> QED
    BY <1>3, <1>4, <2>1
<1>6. took["double"] <= took["square"]
  <2>1. took["double"] = took["square"] - Busy("square")
    BY DEF PipelineInv, PipelineCounts
  <2> QED
    BY <1>1, <1>3, <2>1
<1>7. took["main"] <= took["double"]
  <2>1. took["main"] = took["double"] - Busy("double")
    BY DEF PipelineInv, PipelineCounts
  <2> QED
    BY <1>1, <1>3, <2>1
<1>8. Len(log) <= took["main"]
  <2>1. Len(log) = took["main"] - Busy("main")
    BY DEF PipelineInv, PipelineCounts
  <2> QED
    BY <1>1, <1>3, <2>1
<1>9. took["square"] <= Len(nums)
  BY <1>1, <1>2, <1>4, <1>5
<1> QED
  BY <1>1, <1>2, <1>6, <1>7, <1>8, <1>9

LEMMA PipelineStep ==
  ASSUME NEW nums \in Seq(Int), prog = "pipeline", Programs["pipeline"] = Pipeline(nums),
         Types, PlainInv, PipelineInv(nums), [Next]_vars
  PROVE  PipelineInv(nums)'
<1>1. prog' = prog /\ Goroutines' = Goroutines /\ \A g : N(g)' = N(g)
  BY ProgramStays DEF Goroutines, N
<1>2. Goroutines = {"gen", "square", "double", "main"}
  BY PipelineFields
<1>3. NextPlain
  BY PipelineFields, PlainStep
<1>4. /\ DOMAIN pc = Goroutines /\ DOMAIN left = Goroutines /\ DOMAIN todo = Goroutines
      /\ DOMAIN hand = Goroutines
      /\ took \in [Goroutines -> Nat] /\ left["gen"] \in Seq(Int)
      /\ \A g \in Goroutines : open[g] \subseteq N(g).ins
  BY <1>2 DEF Types
<1>5. /\ took["square"] \in Nat /\ took["double"] \in Nat /\ took["main"] \in Nat
      /\ Len(left["gen"]) \in Nat /\ Len(nums) \in Nat /\ Len(log) \in Nat /\ log \in Seq(Int)
      /\ Emitted(nums) \in Nat /\ Emitted(nums) = Len(nums) - Len(left["gen"])
  BY <1>2, <1>4 DEF PipelineInv, Emitted
<1>6. PipelineCounts(nums) /\ PipelineHands(nums)
  BY DEF PipelineInv
<1>7. /\ N("gen").outs = <<1>> /\ N("square").outs = <<2>> /\ N("double").outs = <<3>>
      /\ N("gen").ins = {} /\ N("square").ins = {1} /\ N("double").ins = {2}
      /\ N("main").ins = {3}
  BY PipelineFields
<1>8. ASSUME NEW g \in Goroutines, EmitPlain(g) PROVE PipelineInv(nums)'
  <2>1. g = "gen" /\ pc["gen"] = "next" /\ left["gen"] # <<>>
    BY <1>2, <1>8 DEF EmitPlain, PipelineInv
  <2>2. /\ left'["gen"] = Tail(left["gen"]) /\ hand'["gen"] = Head(left["gen"])
        /\ todo'["gen"] = N("gen").outs /\ pc'["gen"] = "send"
        /\ \A x \in Goroutines \ {"gen"} : /\ left'[x] = left[x] /\ hand'[x] = hand[x]
                                          /\ todo'[x] = todo[x] /\ pc'[x] = pc[x]
        /\ took' = took /\ log' = log
    <3>1. ~N("gen").logs
      BY PipelineFields
    <3> QED
      BY <1>4, <1>8, <2>1, <3>1 DEF EmitPlain
  <2>3. /\ Len(left'["gen"]) = Len(left["gen"]) - 1 /\ Len(left["gen"]) > 0
        /\ left'["gen"] \in Seq(Int)
        /\ hand'["gen"] = left["gen"][1]
        /\ \A i \in 1 .. Len(left["gen"]) - 1 : left'["gen"][i] = left["gen"][i + 1]
    BY <1>4, <2>1, <2>2, EmptySeq, HeadTailProperties
  <2>4. Emitted(nums)' = Emitted(nums) + 1
    BY <1>5, <2>3 DEF Emitted
  <2>5. /\ Busy("gen") = 0 /\ Busy("gen")' = 1
        /\ \A x \in Goroutines \ {"gen"} : Busy(x)' = Busy(x)
    BY <2>1, <2>2 DEF Busy
  <2>6. PipelineCounts(nums)'
    <3>1. /\ Busy("square")' = Busy("square") /\ Busy("double")' = Busy("double")
          /\ Busy("main")' = Busy("main")
      BY <1>2, <2>5
    <3> QED
      <4>1. took'["square"] = Emitted(nums)' - Busy("gen")'
        <5>1. took["square"] = Emitted(nums) - 0
          BY <1>6, <2>5 DEF PipelineCounts
        <5>2. Emitted(nums)' = Emitted(nums) + 1 /\ Busy("gen")' = 1
          BY <2>4, <2>5
        <5>3. took'["square"] = took["square"] /\ Emitted(nums) \in Nat
          BY <1>5, <2>2
        <5>4. took["square"] = (Emitted(nums) + 1) - 1
          BY <5>1, <5>3
        <5> QED
          BY <5>2, <5>3, <5>4
      <4> QED
        BY <1>6, <2>2, <3>1, <4>1 DEF PipelineCounts
  <2>7. PipelineHands(nums)'
    <3>1. hand'["gen"] = nums[Emitted(nums)']
      <4>1. 1 \in 1 .. Len(left["gen"])
        BY <1>5, <2>3
      <4> QED
        BY <1>6, <2>3, <2>4, <4>1 DEF PipelineHands
    <3>2. ASSUME NEW i \in 1 .. Len(left'["gen"])
          PROVE  left'["gen"][i] = nums[Emitted(nums)' + i]
      <4>1. i + 1 \in 1 .. Len(left["gen"]) /\ left'["gen"][i] = left["gen"][i + 1]
        BY <1>5, <2>3
      <4>2. Emitted(nums)' + i = Emitted(nums) + (i + 1)
        BY <1>5, <2>3, <2>4
      <4> QED
        BY <1>6, <4>1, <4>2 DEF PipelineHands
    <3>3. \A x \in {"square", "double", "main"} : hand'[x] = hand[x] /\ pc'[x] = pc[x]
      BY <1>2, <2>2
    <3> QED
      BY <1>6, <2>2, <3>1, <3>2, <3>3 DEF PipelineHands
  <2> QED
    BY <1>1, <1>2, <1>5, <2>2, <2>3, <2>6, <2>7 DEF PipelineInv
<1>9. ASSUME NEW s \in Goroutines, NEW r \in Goroutines, TransferPlain(s, r)
      PROVE  PipelineInv(nums)'
  <2>1. s # r /\ pc[s] = "send" /\ pc[r] = "next" /\ Head(todo[s]) \in open[r]
    BY <1>9 DEF TransferPlain
  <2>2. todo[s] = N(s).outs /\ s # "main"
    BY <2>1 DEF PipelineInv
  <2>3. \A x : Head(<<x>>) = x /\ Tail(<<x>>) = <<>>
    OBVIOUS
  <2>4. Head(todo[s]) \in N(r).ins /\ Tail(todo[s]) = <<>>
    <3>1. Head(todo[s]) \in N(r).ins
      BY <1>4, <2>1
    <3>2. s \in {"gen", "square", "double"}
      BY <1>2, <2>2
    <3>3. \E x : todo[s] = <<x>>
      BY <1>7, <2>2, <3>2
    <3> QED
      BY <2>3, <3>1, <3>3
  <2>5. \/ s = "gen" /\ r = "square"
        \/ s = "square" /\ r = "double"
        \/ s = "double" /\ r = "main"
    <3>1. CASE s = "gen"
      <4>1. 1 \in N(r).ins
        BY <1>7, <2>2, <2>3, <2>4, <3>1
      <4> QED
        BY <1>2, <1>7, <3>1, <4>1
    <3>2. CASE s = "square"
      <4>1. 2 \in N(r).ins
        BY <1>7, <2>2, <2>3, <2>4, <3>2
      <4> QED
        BY <1>2, <1>7, <3>2, <4>1
    <3>3. CASE s = "double"
      <4>1. 3 \in N(r).ins
        BY <1>7, <2>2, <2>3, <2>4, <3>3
      <4> QED
        BY <1>2, <1>7, <3>3, <4>1
    <3> QED
      BY <1>2, <2>2, <3>1, <3>2, <3>3
  <2>6. /\ pc'[s] = "next" /\ pc'[r] = "got" /\ hand'[r] = hand[s]
        /\ took'[r] = took[r] + 1
        /\ \A x \in Goroutines \ {r} : took'[x] = took[x] /\ hand'[x] = hand[x]
        /\ \A x \in Goroutines \ {s, r} : pc'[x] = pc[x]
        /\ \A x \in Goroutines \ {s} : todo'[x] = todo[x]
        /\ UNCHANGED <<left, log>>
    BY <1>4, <1>9, <2>1, <2>4 DEF TransferPlain
  <2>7. /\ Busy(s) = 1 /\ Busy(r) = 0 /\ Busy(s)' = 0 /\ Busy(r)' = 1
        /\ \A x \in Goroutines \ {s, r} : Busy(x)' = Busy(x)
        /\ Emitted(nums)' = Emitted(nums)
    BY <2>1, <2>6 DEF Busy, Emitted
  <2>8. PipelineCounts(nums)' /\ PipelineHands(nums)'
    <3>1. CASE s = "gen" /\ r = "square"
      <4>1. /\ Busy("double")' = Busy("double") /\ Busy("main")' = Busy("main")
            /\ took'["double"] = took["double"] /\ took'["main"] = took["main"]
            /\ \A x \in {"double", "main"} : pc'[x] = pc[x] /\ hand'[x] = hand[x]
        BY <1>2, <2>6, <2>7, <3>1
      <4>2. PipelineCounts(nums)' /\ took'["square"] = Emitted(nums)
        <5>1. /\ took["square"] = Emitted(nums) - 1 /\ took["double"] = took["square"] - 0
              /\ took["main"] = took["double"] - Busy("double")
              /\ Len(log) = took["main"] - Busy("main")
          BY <1>6, <2>7, <3>1 DEF PipelineCounts
        <5>2. took'["square"] = Emitted(nums)' - 0 /\ took'["double"] = took'["square"] - 1
          BY <1>5, <2>6, <2>7, <3>1, <4>1, <5>1
        <5> QED
          BY <1>5, <2>6, <2>7, <3>1, <4>1, <5>1, <5>2 DEF PipelineCounts
      <4>3. PipelineHands(nums)'
        BY <1>6, <2>1, <2>6, <2>7, <3>1, <4>1, <4>2 DEF PipelineHands
      <4> QED
        BY <4>2, <4>3
    <3>2. CASE s = "square" /\ r = "double"
      <4>1. /\ Busy("gen")' = Busy("gen") /\ Busy("main")' = Busy("main")
            /\ took'["square"] = took["square"] /\ took'["main"] = took["main"]
            /\ \A x \in {"gen", "main"} : pc'[x] = pc[x] /\ hand'[x] = hand[x]
        BY <1>2, <2>6, <2>7, <3>2
      <4>2. PipelineCounts(nums)' /\ took'["double"] = took["square"]
        BY <1>5, <1>6, <2>6, <2>7, <3>2, <4>1 DEF PipelineCounts
      <4>3. PipelineHands(nums)'
        BY <1>6, <2>1, <2>6, <2>7, <3>2, <4>1, <4>2 DEF PipelineHands
      <4> QED
        BY <4>2, <4>3
    <3>3. CASE s = "double" /\ r = "main"
      <4>1. /\ Busy("gen")' = Busy("gen") /\ Busy("square")' = Busy("square")
            /\ took'["square"] = took["square"] /\ took'["double"] = took["double"]
            /\ \A x \in {"gen", "square"} : pc'[x] = pc[x] /\ hand'[x] = hand[x]
        BY <1>2, <2>6, <2>7, <3>3
      <4>2. PipelineCounts(nums)' /\ took'["main"] = took["double"]
        BY <1>5, <1>6, <2>6, <2>7, <3>3, <4>1 DEF PipelineCounts
      <4>3. PipelineHands(nums)'
        BY <1>6, <2>1, <2>6, <2>7, <3>3, <4>1, <4>2 DEF PipelineHands
      <4> QED
        BY <4>2, <4>3
    <3> QED
      BY <2>5, <3>1, <3>2, <3>3
  <2>9. /\ pc'["gen"] # "got" /\ pc'["main"] # "send"
        /\ \A g \in Goroutines : pc'[g] = "send" => todo'[g] = N(g).outs
    BY <1>2, <2>5, <2>6 DEF PipelineInv
  <2> QED
    BY <1>1, <2>6, <2>8, <2>9 DEF PipelineInv
<1>10. ASSUME UNCHANGED <<left, took, hand, todo, log>>,
              \A x \in Goroutines : Busy(x)' = Busy(x),
              \A x \in Goroutines : pc'[x] \in {"got", "send"} => pc'[x] = pc[x]
       PROVE  PipelineInv(nums)'
  <2>1. /\ Busy("gen")' = Busy("gen") /\ Busy("square")' = Busy("square")
        /\ Busy("double")' = Busy("double") /\ Busy("main")' = Busy("main")
        /\ Emitted(nums)' = Emitted(nums)
    BY <1>2, <1>10 DEF Emitted
  <2>2. PipelineCounts(nums)'
    BY <1>6, <1>10, <2>1 DEF PipelineCounts
  <2>3. \A x \in {"gen", "square", "double", "main"} :
          pc'[x] \in {"got", "send"} => pc'[x] = pc[x]
    BY <1>2, <1>10
  <2>4. PipelineHands(nums)'
    BY <1>6, <1>10, <2>1, <2>3 DEF PipelineHands
  <2> QED
    BY <1>1, <1>2, <1>10, <2>2, <2>3, <2>4 DEF PipelineInv
<1>11. ASSUME NEW g \in Goroutines, EndOfInputPlain(g) PROVE PipelineInv(nums)'
  <2>1. UNCHANGED <<pc, left, took, hand, todo, log>>
    BY <1>11 DEF EndOfInputPlain
  <2>2. \A x \in Goroutines : Busy(x)' = Busy(x)
    BY <2>1 DEF Busy
  <2> QED
    BY <1>10, <2>1, <2>2
<1>12. ASSUME NEW g \in Goroutines, FinishPlain(g) \/ EndPlain(g) PROVE PipelineInv(nums)'
  <2>1. /\ pc[g] \in {"next", "end"} /\ pc'[g] \in {"end", "done"}
        /\ \A x \in Goroutines \ {g} : pc'[x] = pc[x]
        /\ UNCHANGED <<left, took, hand, todo, log>>
    BY <1>4, <1>12 DEF FinishPlain, EndPlain
  <2>2. \A x \in Goroutines : Busy(x)' = Busy(x)
    BY <2>1 DEF Busy
  <2>3. \A x \in Goroutines : pc'[x] \in {"got", "send"} => pc'[x] = pc[x]
    BY <2>1
  <2> QED
    BY <1>10, <2>1, <2>2, <2>3
<1>13. CASE UNCHANGED <<pc, left, took, hand, todo, open, closed, log>>
  BY <1>10, <1>13 DEF Busy
<1>14. ASSUME NEW g \in Goroutines, HandlePlain(g) PROVE PipelineInv(nums)'
  <2>1. /\ pc[g] = "got" /\ UNCHANGED <<left, took>>
        /\ log' = IF N(g).logs
                    THEN Append(log, IF N(g).says = <<>> THEN hand[g] ELSE N(g).says[took[g]])
                    ELSE log
        /\ IF N(g).outs = <<>> \/ (N(g).quiet /\ took[g] = N(g).takes)
             THEN pc' = [pc EXCEPT ![g] = "next"] /\ UNCHANGED <<hand, todo>>
             ELSE /\ pc' = [pc EXCEPT ![g] = "send"]
                  /\ hand' = [hand EXCEPT ![g] = IF N(g).square THEN hand[g] * hand[g]
                                                 ELSE N(g).times * hand[g]]
                  /\ todo' = [todo EXCEPT ![g] = Route(g)]
    BY <1>14 DEF HandlePlain
  <2>2. g \in {"square", "double", "main"} /\ ~N(g).quiet /\ Route(g) = N(g).outs
    BY <1>2, <2>1, PipelineFields DEF PipelineInv, Route
  <2>3. CASE g # "main"
    <3>1. N(g).outs # <<>> /\ ~N(g).logs
      <4>1. <<2>> # <<>> /\ <<3>> # <<>>
        OBVIOUS
      <4> QED
        BY <1>7, <2>2, <2>3, <4>1, PipelineFields
    <3>2. /\ pc'[g] = "send" /\ todo'[g] = N(g).outs /\ log' = log
          /\ hand'[g] = IF N(g).square THEN hand[g] * hand[g] ELSE N(g).times * hand[g]
          /\ \A x \in Goroutines \ {g} : pc'[x] = pc[x] /\ hand'[x] = hand[x] /\ todo'[x] = todo[x]
      BY <1>4, <2>1, <2>2, <3>1
    <3>3. /\ Emitted(nums)' = Emitted(nums) /\ \A x \in Goroutines : Busy(x)' = Busy(x)
      BY <2>1, <3>2 DEF Busy, Emitted
    <3>4. PipelineCounts(nums)'
      <4>1. /\ Busy("gen")' = Busy("gen") /\ Busy("square")' = Busy("square")
            /\ Busy("double")' = Busy("double") /\ Busy("main")' = Busy("main")
        BY <1>2, <3>3
      <4> QED
        BY <1>6, <2>1, <3>2, <3>3, <4>1 DEF PipelineCounts
    <3>5. PipelineHands(nums)'
      <4>1. CASE g = "square"
        <5>1. /\ pc'["square"] = "send"
              /\ hand'["square"] = Squared(nums[took["square"]])
          <6>1. N("square").square /\ hand["square"] = nums[took["square"]]
            BY <1>6, <2>1, <4>1, PipelineFields DEF PipelineHands
          <6> QED
            BY <3>2, <4>1, <6>1 DEF Squared
        <5>2. \A x \in {"gen", "double", "main"} : pc'[x] = pc[x] /\ hand'[x] = hand[x]
          BY <1>2, <3>2, <4>1
        <5> QED
          BY <1>6, <2>1, <3>2, <3>3, <5>1, <5>2 DEF PipelineHands
      <4>2. CASE g = "double"
        <5>1. /\ pc'["double"] = "send"
              /\ hand'["double"] = Doubled(Squared(nums[took["double"]]))
          <6>1. /\ ~N("double").square /\ N("double").times = 2
                /\ hand["double"] = Squared(nums[took["double"]])
            BY <1>6, <2>1, <4>2, PipelineFields DEF PipelineHands
          <6> QED
            BY <3>2, <4>2, <6>1 DEF Doubled
        <5>2. \A x \in {"gen", "square", "main"} : pc'[x] = pc[x] /\ hand'[x] = hand[x]
          BY <1>2, <3>2, <4>2
        <5> QED
          BY <1>6, <2>1, <3>2, <3>3, <5>1, <5>2 DEF PipelineHands
      <4> QED
        BY <2>2, <2>3, <4>1, <4>2
    <3>6. /\ pc'["gen"] # "got" /\ pc'["main"] # "send"
          /\ \A x \in Goroutines : pc'[x] = "send" => todo'[x] = N(x).outs
      BY <1>2, <2>2, <2>3, <3>2 DEF PipelineInv
    <3> QED
      BY <1>1, <2>1, <3>2, <3>4, <3>5, <3>6 DEF PipelineInv
  <2>4. CASE g = "main"
    <3>1. /\ pc'["main"] = "next" /\ log' = Append(log, hand["main"])
          /\ \A x \in {"gen", "square", "double"} : pc'[x] = pc[x]
          /\ UNCHANGED <<hand, todo>>
      BY <1>2, <1>4, <2>1, <2>4, PipelineFields
    <3>2. /\ Busy("main") = 1 /\ Busy("main")' = 0 /\ Emitted(nums)' = Emitted(nums)
          /\ Busy("gen")' = Busy("gen") /\ Busy("square")' = Busy("square")
          /\ Busy("double")' = Busy("double")
      BY <2>1, <2>4, <3>1 DEF Busy, Emitted
    <3>3. took["main"] = Len(log) + 1 /\ took["main"] \in 1 .. Len(nums)
      <4>1. Len(log) = took["main"] - 1
        BY <1>6, <3>2 DEF PipelineCounts
      <4>2. took["main"] <= Len(nums)
        BY PipelineFlow
      <4> QED
        BY <1>5, <4>1, <4>2
    <3>4. hand["main"] = Doubled(Squared(nums[took["main"]])) /\ hand["main"] \in Int
      <4>1. hand["main"] = Doubled(Squared(nums[took["main"]]))
        BY <1>6, <2>1, <2>4 DEF PipelineHands
      <4>2. nums[took["main"]] \in Int
        BY <3>3
      <4>3. \A x \in Int : Squared(x) \in Int /\ Doubled(x) \in Int
        BY DEF Squared, Doubled
      <4> QED
        BY <4>1, <4>2, <4>3
    <3>5. /\ Len(log') = Len(log) + 1 /\ log' \in Seq(Int) /\ log'[Len(log) + 1] = hand["main"]
          /\ \A i \in 1 .. Len(log) : log'[i] = log[i]
      BY <1>5, <3>1, <3>4
    <3>6. PipelineCounts(nums)'
      BY <1>5, <1>6, <2>1, <3>2, <3>5 DEF PipelineCounts
    <3>7. ASSUME NEW i \in 1 .. Len(log') PROVE log'[i] = Doubled(Squared(nums[i]))
      <4>1. i \in 1 .. Len(log) \/ i = Len(log) + 1
        BY <1>5, <3>5
      <4> QED
        BY <1>6, <3>3, <3>4, <3>5, <4>1 DEF PipelineHands
    <3>8. PipelineHands(nums)'
      BY <1>6, <2>1, <3>1, <3>2, <3>7 DEF PipelineHands
    <3> QED
      BY <1>1, <1>2, <2>1, <3>1, <3>5, <3>6, <3>8 DEF PipelineInv
  <2> QED
    BY <2>3, <2>4
<1> QED
  BY <1>3, <1>8, <1>9, <1>11, <1>12, <1>13, <1>14 DEF NextPlain

LEMMA PipelineDisciplined ==
  ASSUME NEW nums, prog = "pipeline", Programs["pipeline"] = Pipeline(nums)
  PROVE  Disciplined(Programs[prog])
<1>1. Goroutines = {"gen", "square", "double", "main"}
  BY PipelineFields
<1>2. \A x : DOMAIN <<x>> = {1} /\ <<x>>[1] = x
  OBVIOUS
<1>3. DOMAIN <<>> = {}
  OBVIOUS
<1>4. ASSUME NEW g \in Goroutines, NEW h \in Goroutines
      PROVE  /\ N(g).closes \intersect N(h).closes # {} => g = h
             /\ \A i \in DOMAIN N(g).outs : N(g).outs[i] \in N(h).closes => g = h
  <2>1. N(g).closes \intersect N(h).closes # {} => g = h
    BY <1>1, PipelineFields
  <2>2. \A i \in DOMAIN N(g).outs : N(g).outs[i] \in N(g).closes
    BY <1>1, <1>2, <1>3, PipelineFields
  <2> QED
    BY <2>1, <2>2
<1> QED
  BY <1>4, PipelineFields DEF Disciplined, Goroutines, N

\* When main has ended, so have those before it, and all is logged.
LEMMA PipelineEnds ==
  ASSUME NEW nums \in Seq(Int), Unlimited \in Nat, Len(nums) < Unlimited,
         prog = "pipeline", Programs["pipeline"] = Pipeline(nums),
         NetworkInv, ReceivedInv, PlainInv, PipelineInv(nums), pc["main"] = "done"
  PROVE  Len(log) = Len(nums)
<1>1. Goroutines = {"gen", "square", "double", "main"}
  BY PipelineFields
<1>2. NothingLeftBehind /\ Disciplined(Programs[prog]) /\ ~cancelled /\ Types
  BY NothingBehind, PipelineDisciplined DEF NetworkInv, PlainInv
<1>3. Types /\ Len(nums) \in Nat /\ Len(left["gen"]) \in Nat
  BY <1>2, PipelineFlow
<1>4. /\ took["square"] \in Nat /\ took["double"] \in Nat /\ took["main"] \in Nat
      /\ Len(log) \in Nat
  BY <1>2, PipelineFlow
<1>5. took["square"] <= Len(nums) /\ took["double"] <= Len(nums) /\ took["main"] <= Len(nums)
  BY <1>2, PipelineFlow
<1>6. ASSUME NEW g \in Goroutines, NEW s \in Goroutines, NEW ch, N(s).outs = <<ch>>,
             ch \in N(g).ins, pc[g] = "done", took[g] <= Len(nums)
      PROVE  pc[s] = "done" /\ left[s] = <<>>
  <2>1. took[g] < N(g).takes
    <3>1. N(g).takes = Unlimited
      BY PipelineFields
    <3> QED
      BY <1>2, <1>3, <1>6, <3>1 DEF Types
  <2>2. 1 \in DOMAIN N(s).outs /\ N(s).outs[1] \in N(g).ins
    BY <1>6
  <2> QED
    BY <1>2, <1>6, <2>1, <2>2 DEF NothingLeftBehind
<1>7. pc["double"] = "done"
  BY <1>1, <1>5, <1>6, PipelineFields
<1>8. pc["square"] = "done"
  BY <1>1, <1>5, <1>6, <1>7, PipelineFields
<1>9. pc["gen"] = "done" /\ left["gen"] = <<>>
  BY <1>1, <1>5, <1>6, <1>8, PipelineFields
<1>10. Busy("gen") = 0 /\ Busy("square") = 0 /\ Busy("double") = 0 /\ Busy("main") = 0
  BY <1>7, <1>8, <1>9 DEF Busy
<1>11. Emitted(nums) = Len(nums)
  BY <1>3, <1>9 DEF Emitted
<1> QED
  BY <1>3, <1>4, <1>10, <1>11 DEF PipelineInv, PipelineCounts

LEMMA PipelineLogs ==
  ASSUME NEW nums \in Seq(Int), Unlimited \in Nat, Len(nums) < Unlimited,
         prog = "pipeline", Programs["pipeline"] = Pipeline(nums),
         Results["pipeline"] = PipelineOutput(nums),
         NetworkInv, ReceivedInv, PlainInv, PipelineInv(nums)
  PROVE  LogsFollowResults
<1> DEFINE Out == PipelineOutput(nums)
<1>1. Len(nums) \in Nat /\ \A i \in 1 .. Len(nums) : nums[i] \in Int
  OBVIOUS
<1>2. \A x \in Int : Doubled(Squared(x)) \in Int /\ Doubled(Squared(x)) = 2 * (x * x)
  BY DEF Doubled, Squared
<1>3. Out = [i \in 1 .. Len(nums) |-> Doubled(Squared(nums[i]))]
  BY <1>1, <1>2 DEF PipelineOutput
<1>4. Out \in Seq(Int) /\ Len(Out) = Len(nums)
      /\ \A i \in 1 .. Len(nums) : Out[i] = Doubled(Squared(nums[i]))
  <2> HIDE DEF Out
  <2>1. Out \in [1 .. Len(nums) -> Int]
    BY <1>1, <1>2, <1>3
  <2>2. DOMAIN Out = 1 .. Len(nums)
    BY <1>3
  <2> QED
    BY <1>1, <1>3, <2>1, <2>2
<1>5. log \in Seq(Int) /\ Len(log) \in Nat /\ PipelineCounts(nums) /\ PipelineHands(nums)
  BY DEF PipelineInv
<1>6. Len(log) <= Len(nums)
  BY PipelineFlow DEF NetworkInv
<1>7. \A i \in 1 .. Len(log) : log[i] = Out[i]
  BY <1>1, <1>4, <1>5, <1>6 DEF PipelineHands
<1>8. pc["main"] = "done" => Len(log) = Len(nums)
  BY PipelineEnds
<1> HIDE DEF Out
<1>9. ToBag(log) \sqsubseteq ToBag(Out) /\ IsPrefix(log, Out)
  BY <1>4, <1>5, <1>6, <1>7, PrefixIsPart
<1>10. Results[prog] = Out
  BY DEF Out
<1> QED
  BY <1>1, <1>4, <1>5, <1>8, <1>9, <1>10 DEF LogsFollowResults

\* pipeline, for all numbers: gen, square, double and main work side by side, and
\* what main prints are the doubled squares in order, all of them by its end.
THEOREM PipelineDelivers ==
  ASSUME NEW nums \in Seq(Int), Unlimited \in Nat, Len(nums) < Unlimited,
         Programs["pipeline"] = Pipeline(nums), Results["pipeline"] = PipelineOutput(nums)
  PROVE  FairSpec => [](prog = "pipeline" => LogsFollowResults)
<1> DEFINE Inv == NetworkInv /\ ReceivedInv /\ (prog = "pipeline" => PlainInv /\ PipelineInv(nums))
<1>1. Init => Inv
  <2>1. Init => PlainInv
    BY DEF Init, PlainInv
  <2> QED
    BY <2>1, NetworkInit, ReceivedInit, PipelineInit
<1>2. Inv /\ [Next]_vars => Inv'
  <2> SUFFICES ASSUME Inv, [Next]_vars PROVE Inv'
    OBVIOUS
  <2>1. NetworkInv' /\ ReceivedInv' /\ prog' = prog /\ Types
    BY NetworkStep, ReceivedStep, ProgramStays DEF NetworkInv
  <2>2. ASSUME prog = "pipeline" PROVE PlainInv' /\ PipelineInv(nums)'
    <3>1. AllPlain
      BY <2>2, PipelineFields
    <3> QED
      BY <2>1, <2>2, <3>1, PlainStep, PipelineStep
  <2> QED
    BY <2>1, <2>2
<1>3. Inv => (prog = "pipeline" => LogsFollowResults)
  BY PipelineLogs
<1> QED
  BY <1>1, <1>2, <1>3, FairSpecBehaves, PTL DEF Behaves
=============================================================================
