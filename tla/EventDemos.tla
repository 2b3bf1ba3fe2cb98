----------------------------- MODULE EventDemos -----------------------------
(***************************************************************************)
(* The one-shot events of LeetCode/ other than MultiThreadedEvent.  A      *)
(* behaviour is one of a program chosen at the start; the variables of the *)
(* others keep their values.                                               *)
(***************************************************************************)
EXTENDS MultiThread

VARIABLES
  demo,
  callbacks, stack,                 \* SingleThreadedEvent
  kind, dpc, queue, seen, detached  \* EventDesigns

Single == INSTANCE SingleThreadedEvent
Design == INSTANCE EventDesigns
  WITH pc <- dpc, callbacks <- queue, pending <- detached

threadVars == <<pc, mu, cbs, waitingcb>>
singleVars == <<callbacks, stack>>
designVars == <<kind, dpc, queue, seen, detached>>
allVars == <<demo, fired, runs, threadVars, singleVars, designVars>>

DemosInit ==
  /\ demo \in {"threads", "single", "design"}
  /\ Init /\ Single!Init /\ Design!Init
  /\ demo # "design" => kind = "mutex"
-----------------------------------------------------------------------------
ThreadStep(t) ==
  /\ demo = "threads" /\ UNCHANGED <<demo, singleVars, designVars>>
  /\ (t \in Callbacks /\ regcb(t)) \/ (t \in Firers /\ evtfire(t))
SingleOnly == demo = "single" /\ UNCHANGED <<demo, threadVars, designVars>>
DesignStep(t) ==
  demo = "design" /\ Design!Step(t) /\ UNCHANGED <<demo, threadVars, singleVars>>

DemosNext ==
  \/ \E t \in Calls : ThreadStep(t) \/ DesignStep(t)
  \/ Single!Next /\ SingleOnly

\* As long as some goroutine of a program can go on, one does.  That is enough,
\* since every call makes finitely many steps: a compare-and-swap only fails
\* because another has succeeded.
FairSpec ==
  /\ DemosInit /\ [][DemosNext]_allVars
  /\ WF_allVars(\E t \in Calls : ThreadStep(t) \/ DesignStep(t))
  /\ WF_allVars(Single!Return /\ SingleOnly)
-----------------------------------------------------------------------------
Event == INSTANCE OneShot WITH
  status <- CASE demo = "threads" -> statusOf
              [] demo = "single" -> Single!statusOf
              [] demo = "design" -> Design!statusOf

\* Every step of each program is one of the abstract event or invisible, and
\* what is due is run, once: though two calls of evtfire may both detach, though
\* the callbacks of the single-threaded event call it while it runs them, and
\* though a compare-and-swap fails and is tried again.
ImplementsOneShot == Event!FairSpec
=============================================================================
