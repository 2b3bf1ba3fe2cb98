------------------------------ MODULE OneShot ------------------------------
(***************************************************************************)
(* What the one-shot events of LeetCode/ promise: a callback registered    *)
(* before the event fires waits for it, one registered afterwards is due   *)
(* at once, and whatever is due runs once.  The order in which callbacks   *)
(* run is left open.                                                       *)
(***************************************************************************)
CONSTANT Callbacks

VARIABLES
  fired,   \* the event has happened; it never un-happens
  status   \* of each callback
vars == <<fired, status>>

Init == fired = FALSE /\ status = [c \in Callbacks |-> "idle"]

Register(c) ==
  /\ status[c] = "idle"
  /\ status' = [status EXCEPT ![c] = IF fired THEN "due" ELSE "waiting"]
  /\ UNCHANGED fired

Fire ==
  /\ fired' = TRUE
  /\ status' = [c \in Callbacks |->
                  IF status[c] = "waiting" THEN "due" ELSE status[c]]

Run(c) ==
  /\ status[c] = "due"
  /\ status' = [status EXCEPT ![c] = "done"]
  /\ UNCHANGED fired

Next == Fire \/ \E c \in Callbacks : Register(c) \/ Run(c)

Spec == Init /\ [][Next]_vars
FairSpec == Spec /\ \A c \in Callbacks : WF_vars(Run(c))
=============================================================================
