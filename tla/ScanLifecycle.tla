--------------------------- MODULE ScanLifecycle ---------------------------
(***************************************************************************)
(* What the scan pipeline promises of each scan, without saying how: the   *)
(* status a client reads, and the stage of the job that drives it.  A job  *)
(* is delivered at most once; only the holder of the job starts, completes *)
(* or fails the scan; nothing follows a completion; a cancellation changes *)
(* the status but neither stops the job nor binds its holder.              *)
(***************************************************************************)

CONSTANT Scans

VARIABLES
    status,  \* status[s]: column status of the row, "absent" before it exists
    stage    \* stage[s]: unsent, waiting in the list, working, or closed

vars == <<status, stage>>

Init ==
    /\ status = [s \in Scans |-> "absent"]
    /\ stage = [s \in Scans |-> "unsent"]

SetStatus(s, new) == status' = [status EXCEPT ![s] = new] /\ UNCHANGED stage
SetStage(s, new) == stage' = [stage EXCEPT ![s] = new] /\ UNCHANGED status

Create(s) == status[s] = "absent" /\ SetStatus(s, "pending")

Send(s) == status[s] # "absent" /\ stage[s] = "unsent" /\ SetStage(s, "waiting")

Claim(s) == stage[s] = "waiting" /\ SetStage(s, "working")

\* The job ends or is lost, or it was never sent and never will be.
Close(s) == status[s] # "absent" /\ stage[s] # "closed" /\ SetStage(s, "closed")

\* Also from failed (a retry) and from cancelled.
Start(s) ==
    /\ stage[s] = "working" /\ status[s] # "completed"
    /\ SetStatus(s, "running")

\* Only a scan that was started, even if it was cancelled since.
Complete(s) ==
    /\ stage[s] = "working" /\ status[s] \in {"running", "cancelled"}
    /\ SetStatus(s, "completed")

Fail(s) ==
    /\ stage[s] = "working" /\ status[s] # "completed"
    /\ SetStatus(s, "failed")

\* The failure of the last attempt may end the job in the same step.
FailLast(s) ==
    /\ stage[s] = "working" /\ status[s] # "completed"
    /\ status' = [status EXCEPT ![s] = "failed"]
    /\ stage' = [stage EXCEPT ![s] = "closed"]

Cancel(s) == status[s] \in {"pending", "running"} /\ SetStatus(s, "cancelled")

\* A process stop closes the jobs of several workers at once.
CloseAll(S) ==
    /\ \A s \in S : stage[s] = "working"
    /\ stage' = [s \in Scans |-> IF s \in S THEN "closed" ELSE stage[s]]
    /\ UNCHANGED status

Next ==
    \/ \E s \in Scans :
         \/ Create(s) \/ Send(s) \/ Claim(s) \/ Close(s)
         \/ Start(s) \/ Complete(s) \/ Fail(s) \/ FailLast(s) \/ Cancel(s)
    \/ \E S \in SUBSET Scans : CloseAll(S)

Spec == Init /\ [][Next]_vars
=============================================================================
