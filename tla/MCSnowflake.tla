----------------------------- MODULE MCSnowflake ----------------------------
(* A small instance of Snowflake for TLC: two machines that differ in the    *)
(* lowest machine bit, so that a number too large for its field would make   *)
(* the ids of one look like those of the other.                              *)
EXTENDS Snowflake, TLC

CONSTANTS m1, m2, c1, c2, c3

TwoShareOne == (c1 :> m1) @@ (c2 :> m1) @@ (c3 :> m2)
CallsOfEach == (c1 :> 2) @@ (c2 :> 2) @@ (c3 :> 1)
SameDc == (m1 :> 1) @@ (m2 :> 1)
TwoMacs == (m1 :> 0) @@ (m2 :> 1)
AllKinds == {"lock", "unique", "atomic", "state"}
=============================================================================
