------------------------- MODULE MCEventSimulation -------------------------
(* A small instance of EventSimulation for TLC.                            *)
EXTENDS EventSimulation

CONSTANTS a, b, c, d

LaterBC == <<b, c>>
=============================================================================
