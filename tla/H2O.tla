-------------------------------- MODULE H2O ---------------------------------
(***************************************************************************)
(* LeetCode/1117: hydrogen and oxygen goroutines that bond in molecules.   *)
(* Each section under the mutex is one action.                             *)
(***************************************************************************)
EXTENDS Integers, Sequences

CONSTANTS Hs, Os   \* the goroutines of either kind

VARIABLES
  hCount, oCount,   \* atoms that have bonded and lack partners
  pc,
  printed           \* the log
vars == <<hCount, oCount, pc, printed>>

Init ==
  /\ hCount = 0 /\ oCount = 0
  /\ pc = [a \in Hs \union Os |-> "called"]
  /\ printed = <<>>
-----------------------------------------------------------------------------
\* Hydrogen that bonds whatever it finds.
HydrogenNeverWaits(h, o) == FALSE

HydrogenWaits(h, o) == h >= 2 /\ o < 1
OxygenWaits(h, o) == h < 2 /\ o >= 1

Waits(a) == IF a \in Hs THEN HydrogenWaits(hCount, oCount)
                        ELSE OxygenWaits(hCount, oCount)

\* Into cond.Wait, or back to it.
Wait(a) ==
  /\ pc[a] \in {"called", "woken"} /\ Waits(a)
  /\ pc' = [pc EXCEPT ![a] = "waiting"]
  /\ UNCHANGED <<hCount, oCount, printed>>

\* The atom bonds; the one that completes a molecule wakes the others.
Bond(a) ==
  LET h == IF a \in Hs THEN hCount + 1 ELSE hCount
      o == IF a \in Os THEN oCount + 1 ELSE oCount
      out == [pc EXCEPT ![a] = "done"]
  IN
  /\ pc[a] \in {"called", "woken"} /\ ~Waits(a)
  /\ printed' = Append(printed, IF a \in Hs THEN "H" ELSE "O")
  /\ \/ /\ h >= 2 /\ o >= 1
        /\ hCount' = h - 2 /\ oCount' = o - 1
        /\ pc' = [b \in Hs \union Os |-> IF out[b] = "waiting" THEN "woken" ELSE out[b]]
     \/ /\ ~(h >= 2 /\ o >= 1)
        /\ hCount' = h /\ oCount' = o
        /\ pc' = out

Step(a) == Wait(a) \/ Bond(a)
Next == \E a \in Hs \union Os : Step(a)

Spec == Init /\ [][Next]_vars
-----------------------------------------------------------------------------
\* Divided into groups of three the log has one oxygen in each full group and
\* never two in one (1117/main.go:19: "each group should contain one oxygen and
\* two hydrogen threads").
Oxygens(from, to) == {i \in from .. to : i <= Len(printed) /\ printed[i] = "O"}
WholeMolecules ==
  \A k \in 0 .. Len(printed) \div 3 :
    LET group == Oxygens(3 * k + 1, 3 * k + 3) IN
    /\ \A i, j \in group : i = j
    /\ 3 * k + 3 <= Len(printed) => group # {}

\* An atom waits only as long as it has to: no broadcast is missing.
NoLostWakeup == \A a \in Hs \union Os : pc[a] = "waiting" => Waits(a)

TypeOK ==
  /\ hCount \in 0 .. 2 /\ oCount \in 0 .. 1
  /\ pc \in [Hs \union Os -> {"called", "waiting", "woken", "done"}]
  /\ printed \in Seq({"H", "O"})
=============================================================================
