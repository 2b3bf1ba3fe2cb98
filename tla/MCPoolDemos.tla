----------------------------- MODULE MCPoolDemos ----------------------------
(* A small instance of PoolDemos for TLC.                                    *)
EXTENDS PoolDemos, TLC

CONSTANTS c1, c2, c3, m1, m2

CallsOfEach == (c1 :> 2) @@ (c2 :> 2) @@ (c3 :> 1)
FewerCalls == (c1 :> 2) @@ (c2 :> 1) @@ (c3 :> 1)
OnEach == (c1 :> m1) @@ (c2 :> m1) @@ (c3 :> m2)
=============================================================================
