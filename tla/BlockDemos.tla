----------------------------- MODULE BlockDemos -----------------------------
(***************************************************************************)
(* The block generators of psDesign.go and pureStorageDesign3.go; they     *)
(* share nothing, and a behaviour is one of either.                        *)
(***************************************************************************)
EXTENDS UIDGenBlock

CONSTANTS Callers, start  \* of BlockGenerator

VARIABLES demo, next, end, bpc, ids, overtaken

Block == INSTANCE BlockGenerator WITH pc <- bpc, blockSize <- blkSize

ASSUME BlockAssumption == Block!BlockConstants

blockVars == <<next, end, bpc, ids, overtaken>>
allVars == <<demo, vars, blockVars>>

DemosInit == demo \in {"uid", "block"} /\ Init /\ Block!Init
DemosNext ==
  \/ demo = "uid" /\ Next /\ UNCHANGED <<demo, blockVars>>
  \/ demo = "block" /\ Block!Next /\ UNCHANGED <<demo, vars>>
DemosSpec == DemosInit /\ [][DemosNext]_allVars
-----------------------------------------------------------------------------
\* pureStorageDesign3.go:13 calls its thread safety "Atomic/local": local it is,
\* the numbers repeat if and only if two calls meet at the end of a block.
RepeatsIffOvertaken == Block!RepeatsIffOvertaken
=============================================================================
