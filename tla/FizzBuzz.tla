------------------------------ MODULE FizzBuzz ------------------------------
(***************************************************************************)
(* LeetCode/1195: four goroutines that print the numbers up to n in turn,  *)
(* each those of its kind.  A goroutine keeps the mutex from one number to *)
(* the next, gives it up in cond.Wait, and whoever prints n never does.    *)
(***************************************************************************)
EXTENDS Integers, Sequences

CONSTANT n

Printers == {"fizz", "buzz", "fizzbuzz", "number"}
Nobody == "nobody"

VARIABLES
  i,
  holder,    \* of the mutex
  pc,
  printed    \* the log
vars == <<i, holder, pc, printed>>

Init ==
  /\ i = 1 /\ holder = Nobody
  /\ pc = [p \in Printers |-> "called"]
  /\ printed = <<>>
-----------------------------------------------------------------------------
\* Fizz without the exception for multiples of five.
MineAlsoFizz(p, k) ==
  CASE p = "fizz" -> k % 3 = 0
    [] p = "buzz" -> k % 3 # 0 /\ k % 5 = 0
    [] p = "fizzbuzz" -> k % 3 = 0 /\ k % 5 = 0
    [] p = "number" -> k % 3 # 0 /\ k % 5 # 0

\* The numbers for which printer p does not wait.
Mine(p, k) ==
  CASE p = "fizz" -> k % 3 = 0 /\ k % 5 # 0
    [] p = "buzz" -> k % 3 # 0 /\ k % 5 = 0
    [] p = "fizzbuzz" -> k % 3 = 0 /\ k % 5 = 0
    [] p = "number" -> k % 3 # 0 /\ k % 5 # 0

Lock(p) ==
  /\ pc[p] \in {"called", "woken"} /\ holder = Nobody
  /\ holder' = p
  /\ pc' = [pc EXCEPT ![p] = "locked"]
  /\ UNCHANGED <<i, printed>>

Wait(p) ==
  /\ pc[p] = "locked" /\ ~Mine(p, i)
  /\ holder' = Nobody
  /\ pc' = [pc EXCEPT ![p] = "waiting"]
  /\ UNCHANGED <<i, printed>>

\* A print that wakes nobody.
PrintQuietly(p) ==
  /\ pc[p] = "locked" /\ Mine(p, i)
  /\ printed' = Append(printed, p)
  /\ i' = i + 1
  /\ pc' = [pc EXCEPT ![p] = IF i = n THEN "done" ELSE "locked"]
  /\ UNCHANGED holder

\* Print and broadcast, or print the last number and return with the mutex held.
PrintNext(p) ==
  /\ pc[p] = "locked" /\ Mine(p, i)
  /\ printed' = Append(printed, p)
  /\ i' = i + 1
  /\ pc' = IF i = n THEN [pc EXCEPT ![p] = "done"]
           ELSE [r \in Printers |-> IF pc[r] = "waiting" THEN "woken" ELSE pc[r]]
  /\ UNCHANGED holder

Step(p) == Lock(p) \/ Wait(p) \/ PrintNext(p)
Next == \E p \in Printers : Step(p)

Spec == Init /\ [][Next]_vars
-----------------------------------------------------------------------------
\* Every token is printed by the goroutine whose it is, in order and no further
\* than n (1195/main.go:24-29).
Token(k) ==
  IF k % 15 = 0 THEN "fizzbuzz" ELSE IF k % 5 = 0 THEN "buzz"
  ELSE IF k % 3 = 0 THEN "fizz" ELSE "number"
SeriesInOrder ==
  Len(printed) <= n /\ \A k \in 1 .. Len(printed) : printed[k] = Token(k)

TypeOK ==
  /\ i \in 1 .. n + 1 /\ holder \in Printers \union {Nobody}
  /\ pc \in [Printers -> {"called", "locked", "waiting", "woken", "done"}]
  /\ printed \in Seq(Printers)
=============================================================================
