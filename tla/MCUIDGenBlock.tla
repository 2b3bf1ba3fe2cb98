--------------------------- MODULE MCUIDGenBlock ---------------------------
(* A small instance of UIDGenBlock for TLC.                                *)
EXTENDS UIDGenBlock, TLC

CONSTANTS g, t1, t2, t3

\* Three threads share a generator and reach the end of its block.
AllShare == (t1 :> g) @@ (t2 :> g) @@ (t3 :> g)
TwoCalls == (t1 :> 2) @@ (t2 :> 2) @@ (t3 :> 2)
=============================================================================
