--------------------------- MODULE MCMonitorDemos ---------------------------
(* A small instance of MonitorDemos for TLC: two users that share an id and  *)
(* one that nests its calls, two events as in the main of pureStorage4.go.   *)
EXTENDS MonitorDemos, TLC

CONSTANTS u1, u2, u3, e1, e2, h1, h2, h3, h4, o1, o2, p1, p2, c1, c2

Ids3 == (u1 :> 1) @@ (u2 :> 1) @@ (u3 :> 2)
CallsOfEach == (u1 :> 2) @@ (u2 :> 1) @@ (u3 :> 2) @@ (e1 :> 2) @@ (e2 :> 1)
QueueCalls == (p1 :> 3) @@ (p2 :> 2) @@ (c1 :> 3) @@ (c2 :> 2)
=============================================================================
