--------------------------- MODULE MCRateLimiter ---------------------------
(* Small instances of RateLimiter for TLC.                                 *)
EXTENDS RateLimiter, TLC

CONSTANTS t1, t2, t3, c1, c2

\* Two threads share a client, a third has its own.
SharedClient == (t1 :> c1) @@ (t2 :> c1) @@ (t3 :> c2)

\* Two threads that work for one client.
SharedPair == (t1 :> c1) @@ (t2 :> c1)
=============================================================================
