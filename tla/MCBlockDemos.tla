---------------------------- MODULE MCBlockDemos ----------------------------
(* A small instance of BlockDemos for TLC.                                 *)
EXTENDS BlockDemos, TLC

CONSTANTS g, h, i, t1, t2, t3, t4

\* t1 and t2 share g and need no more than its first block, as in main; h and
\* i have one caller each and go through several blocks.
SafeSharing == (t1 :> g) @@ (t2 :> g) @@ (t3 :> h) @@ (t4 :> i)
SafeCalls == (t1 :> 1) @@ (t2 :> 1) @@ (t3 :> 5) @@ (t4 :> 5)
=============================================================================
