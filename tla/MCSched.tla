------------------------------ MODULE MCSched ------------------------------
(* Sched for TLC: t1 is the thread queued at boot and creates the other    *)
(* two, which block and wake each other; t2 also unmaps pages and t3       *)
(* exits.  With three threads and two slots the run queue fills up.        *)
EXTENDS Sched, TLC

CONSTANTS c1, c2, t1, t2, t3

TwoCpus == {c1, c2}
ThreeThreads == {t1, t2, t3}
MCOps == t1 :> {"create"}
         @@ t2 :> {"block", "trigger", "off"}
         @@ t3 :> {"block", "trigger", "die"}
=============================================================================
