--------------------------- MODULE ChannelNetwork ---------------------------
(***************************************************************************)
(* Goroutines joined by unbuffered channels, as in pattern/ and in the     *)
(* channel programs of LeetCode/.  A program maps each of its goroutines   *)
(* to a description of its loop: take the next value, from a list or from  *)
(* a channel, log it, pass it on, and at the end close channels.  A        *)
(* behaviour is one of a program chosen at the start.                      *)
(***************************************************************************)
EXTENDS Integers, Sequences, SequencesExt

CONSTANTS
  Programs,   \* of each program: its goroutines and their descriptions
  Results,    \* of each program: what it has logged if nothing cancels it
  Unlimited   \* more values than a goroutine ever receives

\* Descriptions are of goroutines of one program, and whoever emits sends.
ASSUME NetworkAssumption ==
  \A p \in DOMAIN Programs : \A g \in DOMAIN Programs[p] :
    LET node == Programs[p][g] IN
    /\ node.emits \in Seq(Int) /\ node.outs \in Seq(Nat)
    /\ node.emits # <<>> => node.outs # <<>>
    /\ node.takes \in Nat
    /\ node.awaits \subseteq DOMAIN Programs[p]

\* A goroutine that does nothing.  Channels are numbers from 1 on.
Node ==
  [emits |-> <<>>,      \* the values it sends by itself
   ins |-> {},          \* it receives from these until all are closed,
   inner |-> FALSE,     \*   or what it receives are channels to receive from,
   takes |-> Unlimited, \*   or until it has had so many values
   outs |-> <<>>,       \* each value goes to all of these, in this order,
   turns |-> FALSE,     \*   or to each of them in turn
   quiet |-> FALSE,     \* the last value it takes is not passed on
   times |-> 1,         \* what it passes on is a multiple of the value,
   square |-> FALSE,    \*   or its square
   says |-> <<>>,       \* what it logs for its values, if not the values
   logs |-> FALSE,
   recv |-> "plain",    \* "select": with the cancellation as the other case
   send |-> "plain",    \* "check": with a default that sends
   stops |-> {},        \* the values that make it cancel,
   twice |-> FALSE,     \*   by a close that must not happen twice
   awaits |-> {},       \* at the end it waits for these to end,
   taken |-> {},        \*   or to have had their last values
   closes |-> {},       \* then it closes these,
   cancels |-> FALSE]   \*   and cancels

VARIABLES
  prog,
  pc,        \* of each goroutine
  left,      \* what it has still to emit
  took,      \* how many values it has received
  hand,      \* the value it is at
  todo,      \* the channels that value has still to go to
  open,      \* the channels it still receives from,
  within,    \*   and the one it has received from one of them, or 0
  closed, cancelled, panicked,
  log
vars == <<prog, pc, left, took, hand, todo, open, within, closed, cancelled,
          panicked, log>>

N(g) == Programs[prog][g]
Goroutines == DOMAIN Programs[prog]

Init ==
  /\ prog \in DOMAIN Programs
  /\ pc = [g \in Goroutines |-> "next"]
  /\ left = [g \in Goroutines |-> N(g).emits]
  /\ took = [g \in Goroutines |-> 0] /\ hand = [g \in Goroutines |-> 0]
  /\ todo = [g \in Goroutines |-> <<>>]
  /\ open = [g \in Goroutines |-> N(g).ins]
  /\ within = [g \in Goroutines |-> 0]
  /\ closed = {} /\ cancelled = FALSE /\ panicked = FALSE
  /\ log = <<>>
-----------------------------------------------------------------------------
Goto(g, where) == pc' = [pc EXCEPT ![g] = where]

\* Where a goroutine with something to send goes.
ToSend(g) == IF N(g).send = "check" THEN "check" ELSE "send"

From(g) == IF within[g] # 0 THEN {within[g]} ELSE open[g]

\* A goroutine that goes on after the values it wants.
ReceivingOn(g) == pc[g] = "next" /\ left[g] = <<>> /\ From(g) # {}

Receiving(g) ==
  pc[g] = "next" /\ left[g] = <<>> /\ took[g] < N(g).takes /\ From(g) # {}

\* The next value of its own.
Emit(g) ==
  /\ pc[g] = "next" /\ left[g] # <<>>
  /\ left' = [left EXCEPT ![g] = Tail(@)]
  /\ hand' = [hand EXCEPT ![g] = Head(left[g])]
  /\ todo' = [todo EXCEPT ![g] = N(g).outs]
  /\ log' = IF N(g).logs THEN Append(log, Head(left[g])) ELSE log
  /\ Goto(g, ToSend(g))
  /\ UNCHANGED <<prog, took, open, within, closed, cancelled, panicked>>

\* A value goes from s to r, both of which are at the channel.
Transfer(s, r) ==
  LET ch == Head(todo[s])
      rest == Tail(todo[s])
      outer == N(r).inner /\ within[r] = 0
      sent == [pc EXCEPT ![s] = IF rest = <<>> THEN "next" ELSE ToSend(s)]
  IN
  /\ pc[s] = "send" /\ Receiving(r) /\ ch \in From(r) \ closed
  /\ todo' = [todo EXCEPT ![s] = rest]
  /\ \/ /\ outer
        /\ within' = [within EXCEPT ![r] = hand[s]]
        /\ pc' = sent
        /\ UNCHANGED <<took, hand>>
     \/ /\ ~outer
        /\ took' = [took EXCEPT ![r] = @ + 1]
        /\ hand' = [hand EXCEPT ![r] = hand[s]]
        /\ pc' = [sent EXCEPT ![r] = "got"]
        /\ UNCHANGED within
  /\ UNCHANGED <<prog, left, open, closed, cancelled, panicked, log>>

\* A receive from a closed channel ends a range, or sets a case of a select to
\* nil.
EndOfInput(g) ==
  /\ Receiving(g)
  /\ \E ch \in From(g) \intersect closed :
       IF within[g] # 0
         THEN within' = [within EXCEPT ![g] = 0] /\ UNCHANGED open
         ELSE open' = [open EXCEPT ![g] = @ \ {ch}] /\ UNCHANGED within
  /\ UNCHANGED <<prog, pc, left, took, hand, todo, closed, cancelled, panicked, log>>

\* What follows the receipt of a value.
Handle(g) ==
  LET v == hand[g]
      d == N(g)
      stops == v \in d.stops
      last == took[g] = d.takes
  IN
  /\ pc[g] = "got"
  /\ cancelled' = (cancelled \/ stops)
  /\ panicked' = (stops /\ d.twice /\ cancelled)
  /\ log' = IF d.logs /\ ~panicked'
              THEN Append(log, IF d.says = <<>> THEN v ELSE d.says[took[g]])
              ELSE log
  /\ \/ /\ d.outs = <<>> \/ (d.quiet /\ last)
        /\ Goto(g, "next")
        /\ UNCHANGED <<hand, todo>>
     \/ /\ d.outs # <<>> /\ ~(d.quiet /\ last)
        /\ hand' = [hand EXCEPT ![g] = IF d.square THEN v * v ELSE d.times * v]
        /\ todo' = [todo EXCEPT ![g] =
             IF d.turns THEN <<d.outs[((took[g] - 1) % Len(d.outs)) + 1]>> ELSE d.outs]
        /\ Goto(g, ToSend(g))
  /\ UNCHANGED <<prog, left, took, open, within, closed>>

\* The select that looks for a cancellation before a plain send.
Check(g) ==
  /\ pc[g] = "check"
  /\ Goto(g, IF cancelled THEN "end" ELSE "send")
  /\ UNCHANGED <<prog, left, took, hand, todo, open, within, closed, cancelled,
                 panicked, log>>

\* A select takes the cancellation, also when a channel is ready.
Abandon(g) ==
  /\ cancelled
  /\ \/ pc[g] = "send" /\ N(g).send = "select"
     \/ Receiving(g) /\ N(g).recv = "select"
  /\ Goto(g, "end")
  /\ UNCHANGED <<prog, left, took, hand, todo, open, within, closed, cancelled,
                 panicked, log>>

SendOnClosed(g) ==
  /\ pc[g] = "send" /\ Head(todo[g]) \in closed
  /\ panicked' = TRUE
  /\ UNCHANGED <<prog, pc, left, took, hand, todo, open, within, closed, cancelled, log>>

\* Nothing left to emit or to receive.
Finish(g) ==
  /\ pc[g] = "next" /\ left[g] = <<>> /\ ~Receiving(g)
  /\ Goto(g, "end")
  /\ UNCHANGED <<prog, left, took, hand, todo, open, within, closed, cancelled,
                 panicked, log>>

\* An end that does not wait for anybody.
NothingAwaited(g) == TRUE

Awaited(g) ==
  /\ \A h \in N(g).awaits : pc[h] = "done"
  /\ \A h \in N(g).taken : took[h] = N(h).takes

\* Closing, cancelling and ending.
End(g) ==
  /\ pc[g] = "end" /\ Awaited(g)
  /\ closed' = closed \union N(g).closes
  /\ panicked' = (N(g).closes \intersect closed # {})
  /\ cancelled' = (cancelled \/ N(g).cancels)
  /\ Goto(g, "done")
  /\ UNCHANGED <<prog, left, took, hand, todo, open, within, log>>
-----------------------------------------------------------------------------
Next ==
  /\ ~panicked
  /\ \E g \in Goroutines :
       \/ Emit(g) \/ (\E r \in Goroutines : Transfer(g, r)) \/ EndOfInput(g)
       \/ Handle(g) \/ Check(g) \/ Abandon(g) \/ SendOnClosed(g) \/ Finish(g) \/ End(g)

\* Programs are finite: it is enough that something happens as long as anything
\* can.
FairSpec == Init /\ [][Next]_vars /\ WF_vars(Next)
-----------------------------------------------------------------------------
TypeOK ==
  /\ prog \in DOMAIN Programs
  /\ pc \in [Goroutines -> {"next", "check", "send", "got", "end", "done"}]
  /\ left \in [Goroutines -> Seq(Int)] /\ todo \in [Goroutines -> Seq(Nat)]
  /\ \A g \in Goroutines :
       /\ took[g] \in 0 .. N(g).takes
       /\ pc[g] \in {"check", "send"} <=> todo[g] # <<>> /\ pc[g] \notin {"end", "done"}
       /\ open[g] \subseteq N(g).ins
  /\ {cancelled, panicked} \subseteq BOOLEAN
=============================================================================
