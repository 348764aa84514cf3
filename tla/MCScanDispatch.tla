--------------------------- MODULE MCScanDispatch ---------------------------
(* Model values for checking ScanDispatch with TLC. *)
EXTENDS ScanDispatch, TLC

CONSTANTS i1, s1, s2, s3, periodic, target, detection, detection2, hook

None == {}
MCImages == {i1}
Two == {s1, s2}
Three == {s1, s2, s3}
Manual == {s3}
MCPeriodic == {periodic}
MCTarget == {target}
MCDetection == {detection}
MCReplicas == {detection, detection2}
MCHooks == {hook}

\* Scans that tasks and webhooks insert, and replicas, are interchangeable.
Symmetry == Permutations(Scans \ ManualScans) \cup Permutations(DetectionTasks)

\* A bound: TLC has few ids of scans, so that one that is over is forgotten at
\* once and its id is free for another.  An image is busy, and a detection goes
\* on, as if it were kept: both look at pending and running scans only.
Over(s) == stage[s] = "closed" /\ status[s] \in {"completed", "failed", "cancelled"}

Forget(s) ==
    /\ Over(s)
    /\ status' = [status EXCEPT ![s] = "absent"]
    /\ stage' = [stage EXCEPT ![s] = "unsent"]
    /\ imageOf' = [imageOf EXCEPT ![s] = NoImage]
    /\ trigger' = [trigger EXCEPT ![s] = "none"]
    /\ attempts' = [attempts EXCEPT ![s] = 0]
    /\ run' = [run EXCEPT ![s] = "none"]
    /\ seen' = [seen EXCEPT ![s] = 0]
    /\ UNCHANGED <<content, digest, producer, revived, boundVars>>

ForgetfulSpec ==
    /\ Init /\ Fairness
    /\ [][IF \E s \in Scans : Over(s) THEN \E s \in Scans : Forget(s) ELSE Next]_vars
=============================================================================
