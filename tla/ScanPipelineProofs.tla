------------------------- MODULE ScanPipelineProofs -------------------------
(* Theorems about ScanPipeline, for every set of scans and workers and any *)
(* number of retries, errors, lost replies and stops.                      *)
EXTENDS ScanPipeline, TLAPS

-----------------------------------------------------------------------------
(* What a worker's record says of where it is: it holds a scan exactly     *)
(* while a job is being processed, it has a failure exactly in the tail of *)
(* a failed attempt, and it backs off only with an attempt left.           *)

Tail3 == {"failed", "UpdateScanFailed", "publishFailed"}

JobShape ==
    \A w \in Workers :
        /\ worker[w].scan = NoScan <=> worker[w].pc \in {"BRPop", "exited"}
        /\ worker[w].err # "none" <=> worker[w].pc \in Tail3
        /\ worker[w].pc = "backoff" => worker[w].attempt < MaxRetries

(* The fields of a worker after each of the helpers that change it. *)
LEMMA GotoFacts ==
    ASSUME TypeOK, NEW w \in Workers, NEW pc \in Calls, Goto(w, pc)
    PROVE  /\ worker' \in [Workers -> WorkerState]
           /\ worker'[w].pc = pc
           /\ worker'[w].scan = worker[w].scan
           /\ worker'[w].err = worker[w].err
           /\ worker'[w].attempt = worker[w].attempt
           /\ \A v \in Workers \ {w} : worker'[v] = worker[v]
BY DEF TypeOK, Goto, WorkerState

LEMMA FailFacts ==
    ASSUME TypeOK, NEW w \in Workers, NEW err \in Failure, Fail(w, err)
    PROVE  /\ worker' \in [Workers -> WorkerState]
           /\ worker'[w].pc = "failed"
           /\ worker'[w].scan = worker[w].scan
           /\ worker'[w].err = err
           /\ worker'[w].attempt = worker[w].attempt
           /\ \A v \in Workers \ {w} : worker'[v] = worker[v]
BY DEF TypeOK, Fail, WorkerState, Calls, Phases

LEMMA LoopFacts ==
    ASSUME TypeOK, NEW w \in Workers, NEW pc \in {"BRPop", "exited"},
           worker' = [worker EXCEPT ![w] = AtLoop(pc)]
    PROVE  /\ worker' \in [Workers -> WorkerState]
           /\ worker'[w].pc = pc
           /\ worker'[w].scan = NoScan
           /\ worker'[w].err = "none"
           /\ \A v \in Workers \ {w} : worker'[v] = worker[v]
BY ConstantsOK DEF TypeOK, AtLoop, WorkerState, Calls, Phases, Failure

LEMMA ReturnFacts ==
    ASSUME TypeOK, NEW w \in Workers, ReturnError(w)
    PROVE  /\ worker' \in [Workers -> WorkerState]
           /\ worker'[w].err = "none"
           /\ \/ /\ worker'[w].pc = "BRPop" /\ worker'[w].scan = NoScan
              \/ /\ worker'[w].pc = "backoff"
                 /\ worker'[w].scan = worker[w].scan
                 /\ worker'[w].attempt = worker[w].attempt
                 /\ worker[w].err # "pull"
                 /\ worker[w].attempt < MaxRetries
           /\ \A v \in Workers \ {w} : worker'[v] = worker[v]
<1>1. CASE GivesUp(w)
  BY <1>1, LoopFacts DEF ReturnError
<1>2. CASE ~GivesUp(w)
  <2>1. worker' = [worker EXCEPT ![w] =
                     [@ EXCEPT !.pc = "backoff", !.err = "none"]]
    BY <1>2 DEF ReturnError
  <2>2. worker[w].attempt < MaxRetries /\ worker[w].err # "pull"
    BY <1>2, ConstantsOK DEF GivesUp, TypeOK, WorkerState
  <2>3. QED
    BY <2>1, <2>2 DEF TypeOK, WorkerState, Calls, Phases, Failure
<1>3. QED
  BY <1>1, <1>2

(* A field of a row, or several, set to values of their types. *)
LEMMA RowFacts ==
    ASSUME TypeOK, NEW s \in Scans, NEW row \in Row,
           scans' = [scans EXCEPT ![s] = row]
    PROVE  /\ scans' \in [Scans -> Row]
           /\ scans'[s] = row
           /\ \A r \in Scans \ {s} : scans'[r] = scans[r]
BY DEF TypeOK

(* A worker that makes a call of the pipeline has a scan. *)
LEMMA WorksOnScan ==
    ASSUME TypeOK, JobShape, NEW w \in Workers,
           worker[w].pc \notin {"BRPop", "exited"}
    PROVE  worker[w].scan \in Scans
BY DEF TypeOK, JobShape, WorkerState

LEMMA PhaseCalls ==
    ASSUME NEW ph \in Phases, NEW err
    PROVE  CallAfterPhase(ph, err) \in
             {"UpdateScanRunning", "ScanImage", "PersistScanResults",
              "publishCompleted"}
           \/ /\ ph = "failed"
              /\ CallAfterPhase(ph, err) \in {"publishFailed", "UpdateScanFailed"}
BY DEF CallAfterPhase, Phases

LEMMA PhaseCallOfFailed ==
    ASSUME NEW err
    PROVE  CallAfterPhase("failed", err) \in {"publishFailed", "UpdateScanFailed"}
BY DEF CallAfterPhase

(* The three UPDATEs of a worker, on any row. *)
LEMMA RowUpdates ==
    ASSUME NEW row \in Row, NEW err \in Failure
    PROVE  /\ RunningRow(row) \in Row
           /\ CompletedRow(row) \in Row
           /\ FailedRow(row, err) \in Row
BY DEF RunningRow, CompletedRow, FailedRow, Row, Status, Failure

LEMMA LoopType ==
    /\ AtLoop("BRPop") \in WorkerState
    /\ AtLoop("exited") \in WorkerState
BY ConstantsOK DEF AtLoop, WorkerState, Calls, Phases, Failure

LEMMA FaultTypes ==
    ASSUME TypeOK, CallOk \/ CallFails \/ ReplyLost
    PROVE  /\ errors' \in 0..MaxErrors
           /\ lostReplies' \in 0..MaxLostReplies
           /\ stops' \in 0..MaxStops
BY ConstantsOK DEF TypeOK, CallOk, CallFails, ReplyLost, faultVars

(* TypeOK is not inductive by itself: a retry stays within MaxRetries, and *)
(* a call updates an existing row, because of JobShape.                    *)
LEMMA TypeStep == TypeOK /\ JobShape /\ [Next]_vars => TypeOK' /\ JobShape'
<1> SUFFICES ASSUME TypeOK, JobShape, [Next]_vars PROVE TypeOK' /\ JobShape'
  OBVIOUS
<1>1. ASSUME NEW s \in Scans, InsertManualScan(s) PROVE TypeOK' /\ JobShape'
  <2>1. [NoRow EXCEPT !.status = "pending"] \in Row
    BY DEF NoRow, Row, Status, Failure
  <2>2. scans' \in [Scans -> Row]
    BY <1>1, <2>1, RowFacts DEF InsertManualScan
  <2>3. QED
    BY <1>1, <2>2 DEF InsertManualScan, TypeOK, JobShape, faultVars
<1>2. ASSUME NEW s \in Scans, Enqueue(s) PROVE TypeOK' /\ JobShape'
  <2>1. Append(queue, s) \in Seq(Scans)
    BY DEF TypeOK
  <2>2. Append(Append(queue, s), s) \in Seq(Scans)
    BY <2>1
  <2>3. /\ queue' \in Seq(Scans)
        /\ request' \in [Scans -> {"none", "inserted", "created", "error"}]
    BY <1>2, <2>1, <2>2 DEF Enqueue, TypeOK
  <2>4. QED
    BY <1>2, <2>3, FaultTypes DEF Enqueue, TypeOK, JobShape
<1>3. ASSUME NEW s \in Scans, AbandonRequest(s) PROVE TypeOK' /\ JobShape'
  BY <1>3, ConstantsOK DEF AbandonRequest, TypeOK, JobShape, CallFails
<1>4. ASSUME NEW s \in Scans, CancelScan(s) PROVE TypeOK' /\ JobShape'
  <2>1. [scans[s] EXCEPT !.status = "cancelled", !.completedAt = TRUE] \in Row
    BY DEF TypeOK, Row, Status
  <2>2. scans' \in [Scans -> Row]
    BY <1>4, <2>1, RowFacts DEF CancelScan
  <2>3. QED
    BY <1>4, <2>2 DEF CancelScan, TypeOK, JobShape, faultVars
<1>5. ASSUME NEW s \in Scans, ExpirePhase(s) PROVE TypeOK' /\ JobShape'
  BY <1>5 DEF ExpirePhase, TypeOK, JobShape, faultVars
<1>6. ASSUME NEW w \in Workers, Pop(w) PROVE TypeOK' /\ JobShape'
  <2>1. queue' \in Seq(Scans) /\ Head(queue) \in Scans
    BY <1>6 DEF Pop, TakeJob, TypeOK
  <2>3. worker' \in [Workers -> WorkerState] /\ JobShape'
    <3>1. CASE UNCHANGED worker
      BY <3>1 DEF TypeOK, JobShape
    <3>2. CASE worker' = [worker EXCEPT ![w] =
                [pc |-> "initializing", scan |-> Head(queue),
                 attempt |-> 1, err |-> "none"]]
      <4>1. [pc |-> "initializing", scan |-> Head(queue),
             attempt |-> 1, err |-> "none"] \in WorkerState
        BY <2>1, ConstantsOK DEF WorkerState, Calls, Phases, Failure
      <4>2. QED
        BY <3>2, <4>1, <2>1, ConstantsOK DEF TypeOK, JobShape, Tail3
    <3>3. QED
      BY <1>6, <3>1, <3>2 DEF Pop
  <2>4. QED
    BY <1>6, <2>1, <2>3, FaultTypes DEF Pop, TypeOK
<1>7. ASSUME NEW w \in Workers, SetScanPhase(w) PROVE TypeOK' /\ JobShape'
  <2> DEFINE next == CallAfterPhase(worker[w].pc, worker[w].err)
  <2>1. worker[w].pc \in Phases /\ worker[w].scan \in Scans
    BY <1>7, WorksOnScan DEF SetScanPhase, Phases
  <2>2. /\ next \in Calls /\ next \notin {"BRPop", "exited", "backoff"}
        /\ next \in Tail3 <=> worker[w].pc = "failed"
    BY <2>1, PhaseCalls, PhaseCallOfFailed DEF Calls, Phases, Tail3
  <2>3. worker' \in [Workers -> WorkerState] /\ JobShape'
    <3>1. Goto(w, next)
      BY <1>7 DEF SetScanPhase
    <3> HIDE DEF next
    <3>2. QED
      BY <3>1, <2>1, <2>2, GotoFacts DEF JobShape, Tail3, Phases
  <2>4. phase' \in [Scans -> Phases \cup {"none"}]
    BY <1>7, <2>1 DEF SetScanPhase, TypeOK
  <2>5. QED
    BY <1>7, <2>3, <2>4, FaultTypes DEF SetScanPhase, TypeOK
<1>8. ASSUME NEW w \in Workers, UpdateScanRunning(w) PROVE TypeOK' /\ JobShape'
  <2>1. worker[w].scan \in Scans
    BY <1>8, WorksOnScan DEF UpdateScanRunning
  <2>2. RunningRow(scans[worker[w].scan]) \in Row
    BY <2>1, RowUpdates DEF TypeOK, Failure
  <2>3. scans' \in [Scans -> Row]
    BY <1>8, <2>1, <2>2, RowFacts DEF UpdateScanRunning, TypeOK
  <2>4. Goto(w, "scanning") \/ Fail(w, "start")
    BY <1>8 DEF UpdateScanRunning
  <2>5. worker' \in [Workers -> WorkerState] /\ JobShape'
    BY <1>8, <2>1, <2>4, GotoFacts, FailFacts
       DEF UpdateScanRunning, JobShape, Tail3, Calls, Phases, Failure
  <2>6. QED
    BY <1>8, <2>3, <2>5, FaultTypes DEF UpdateScanRunning, TypeOK
<1>9. ASSUME NEW w \in Workers, ScanImage(w) PROVE TypeOK' /\ JobShape'
  <2>1. worker' \in [Workers -> WorkerState] /\ JobShape'
    <3>1. Goto(w, "persisting") \/ Fail(w, "pull") \/ Fail(w, "scan")
      BY <1>9 DEF ScanImage
    <3>2. QED
      BY <1>9, <3>1, GotoFacts, FailFacts
         DEF ScanImage, JobShape, Tail3, Calls, Phases, Failure
  <2>2. QED
    BY <1>9, <2>1 DEF ScanImage, TypeOK, faultVars
<1>10. ASSUME NEW w \in Workers, PersistScanResults(w) PROVE TypeOK' /\ JobShape'
  <2>1. worker[w].scan \in Scans
    BY <1>10, WorksOnScan DEF PersistScanResults
  <2>2. CompletedRow(scans[worker[w].scan]) \in Row
    BY <2>1, RowUpdates DEF TypeOK, Failure
  <2>3. scans' \in [Scans -> Row]
    BY <1>10, <2>1, <2>2, RowFacts DEF PersistScanResults, TypeOK
  <2>4. Goto(w, "completed") \/ Fail(w, "persist")
    BY <1>10 DEF PersistScanResults
  <2>5. worker' \in [Workers -> WorkerState] /\ JobShape'
    BY <1>10, <2>1, <2>4, GotoFacts, FailFacts
       DEF PersistScanResults, JobShape, Tail3, Calls, Phases, Failure
  <2>6. QED
    BY <1>10, <2>3, <2>5, FaultTypes DEF PersistScanResults, TypeOK
<1>11. ASSUME NEW w \in Workers, PublishCompleted(w) PROVE TypeOK' /\ JobShape'
  <2>1. worker[w].scan \in Scans
    BY <1>11, WorksOnScan DEF PublishCompleted
  <2>2. worker' \in [Workers -> WorkerState] /\ JobShape'
    BY <1>11, LoopFacts DEF PublishCompleted, JobShape, Tail3
  <2>3. events' \subseteq Scans \X {"completed", "failed"}
    BY <1>11, <2>1 DEF PublishCompleted, TypeOK
  <2>4. QED
    BY <1>11, <2>2, <2>3, FaultTypes DEF PublishCompleted, TypeOK
<1>12. ASSUME NEW w \in Workers, UpdateScanFailed(w) PROVE TypeOK' /\ JobShape'
  <2>1. worker[w].scan \in Scans
    BY <1>12, WorksOnScan DEF UpdateScanFailed
  <2>2. FailedRow(scans[worker[w].scan], worker[w].err) \in Row
    <3>1. scans[worker[w].scan] \in Row /\ worker[w].err \in Failure
      BY <2>1 DEF TypeOK, WorkerState
    <3>2. QED
      BY <3>1, RowUpdates
  <2>3. scans' \in [Scans -> Row]
    BY <1>12, <2>1, <2>2, RowFacts DEF UpdateScanFailed, TypeOK
  <2>4. ReturnError(w) \/ Goto(w, "publishFailed")
    BY <1>12 DEF UpdateScanFailed
  <2>5. worker' \in [Workers -> WorkerState] /\ JobShape'
    BY <1>12, <2>1, <2>4, GotoFacts, ReturnFacts, ConstantsOK
       DEF UpdateScanFailed, JobShape, Tail3, Calls, Phases
  <2>6. QED
    BY <1>12, <2>3, <2>5, FaultTypes DEF UpdateScanFailed, TypeOK
<1>13. ASSUME NEW w \in Workers, PublishFailed(w) PROVE TypeOK' /\ JobShape'
  <2>1. worker[w].scan \in Scans
    BY <1>13, WorksOnScan DEF PublishFailed
  <2>2. ReturnError(w) \/ Goto(w, "UpdateScanFailed")
    BY <1>13 DEF PublishFailed
  <2>3. worker' \in [Workers -> WorkerState] /\ JobShape'
    BY <1>13, <2>1, <2>2, GotoFacts, ReturnFacts, ConstantsOK
       DEF PublishFailed, JobShape, Tail3, Calls, Phases
  <2>4. events' \subseteq Scans \X {"completed", "failed"}
    BY <1>13, <2>1 DEF PublishFailed, TypeOK
  <2>5. QED
    BY <1>13, <2>3, <2>4, FaultTypes DEF PublishFailed, TypeOK
<1>14. ASSUME NEW w \in Workers, Retry(w) PROVE TypeOK' /\ JobShape'
  <2>1. worker' = [worker EXCEPT ![w] =
                     [@ EXCEPT !.pc = "initializing",
                               !.attempt = worker[w].attempt + 1]]
    BY <1>14 DEF Retry
  <2>2. /\ worker[w] \in WorkerState /\ worker[w].attempt < MaxRetries
        /\ worker[w].scan # NoScan /\ worker[w].err = "none"
    BY <1>14 DEF Retry, TypeOK, JobShape, Tail3
  <2>3. worker' \in [Workers -> WorkerState]
    <3>1. worker[w].attempt + 1 \in 0..MaxRetries
      BY <2>2, ConstantsOK DEF WorkerState
    <3> DEFINE again == [worker[w] EXCEPT !.pc = "initializing",
                                          !.attempt = worker[w].attempt + 1]
    <3>2. again \in WorkerState
      BY <2>2, <3>1 DEF WorkerState, Calls, Phases
    <3>3. worker' = [worker EXCEPT ![w] = again]
      BY <2>1
    <3> HIDE DEF again
    <3>4. QED
      BY <3>2, <3>3 DEF TypeOK
  <2>4. JobShape'
    BY <2>1, <2>2 DEF TypeOK, JobShape, Tail3, WorkerState
  <2>5. QED
    BY <1>14, <2>3, <2>4 DEF Retry, TypeOK, faultVars
<1>15. ASSUME NEW w \in Workers, Stopping(w) PROVE TypeOK' /\ JobShape'
  <2>1. worker' = [worker EXCEPT ![w] = AtLoop("exited")]
    BY <1>15 DEF Stopping, Unwind, PopAfterStop
  <2>2. worker' \in [Workers -> WorkerState] /\ JobShape'
    BY <2>1, LoopFacts DEF JobShape, Tail3
  <2>3. queue' \in Seq(Scans)
    BY <1>15 DEF Stopping, Unwind, PopAfterStop, TakeJob, TypeOK
  <2>4. QED
    BY <1>15, <2>2, <2>3 DEF Stopping, Unwind, PopAfterStop, TypeOK, faultVars
<1>16. ASSUME SigTerm PROVE TypeOK' /\ JobShape'
  BY <1>16, ConstantsOK DEF SigTerm, TypeOK, JobShape
<1>17. ASSUME Kill \/ Restart PROVE TypeOK' /\ JobShape'
  <2>1. \/ worker' = [w \in Workers |-> AtLoop("exited")]
        \/ worker' = [w \in Workers |-> AtLoop("BRPop")]
    BY <1>17 DEF Kill, Restart
  <2>2. JobShape'
    BY <2>1 DEF JobShape, Tail3, AtLoop
  <2>3. QED
    BY <1>17, <2>1, <2>2, LoopType DEF Kill, Restart, TypeOK, faultVars
<1>18. CASE UNCHANGED vars
  BY <1>18 DEF vars, faultVars, TypeOK, JobShape
<1>19. QED
  BY <1>1, <1>2, <1>3, <1>4, <1>5, <1>6, <1>7, <1>8, <1>9, <1>10, <1>11,
     <1>12, <1>13, <1>14, <1>15, <1>16, <1>17, <1>18
     DEF Next, Api, WorkerStep, CreateScan, RerunScan

LEMMA TypeInit == Init => TypeOK /\ JobShape
<1> SUFFICES ASSUME Init PROVE TypeOK /\ JobShape
  OBVIOUS
<1>1. NoRow \in Row
  BY DEF NoRow, Row, Status, Failure
<1>2. JobShape
  BY DEF Init, JobShape, Tail3, AtLoop
<1>3. QED
  <2>1. /\ scans \in [Scans -> Row] /\ worker \in [Workers -> WorkerState]
    BY <1>1, LoopType DEF Init
  <2>2. /\ 0 \in 0..MaxErrors /\ 0 \in 0..MaxLostReplies /\ 0 \in 0..MaxStops
    BY ConstantsOK
  <2>3. <<>> \in Seq(Scans)
    OBVIOUS
  <2>4. QED
    BY <1>2, <2>1, <2>2, <2>3 DEF Init, TypeOK

(* Every reachable state is well typed: rows, workers, queue and events    *)
(* keep their types whatever the interleaving and the faults, attempts     *)
(* never exceed MaxRetries, and a worker holds a scan exactly while it     *)
(* makes the calls of a job (runner.go).                                   *)
THEOREM TypeCorrect == Spec => [](TypeOK /\ JobShape)
<1>1. QED
  BY TypeInit, TypeStep, PTL DEF Spec

-----------------------------------------------------------------------------
(* Safety.  Each property is preserved because of what a worker's place in *)
(* the pipeline says of the row it works on; the invariants below say it.  *)
(* First layer: what holds even of a job that was pushed twice.            *)

Requested(s) == request[s] \in {"created", "error"}

(* A job comes from a request that got as far as pushing it, and a row     *)
(* from a request that inserted it.                                        *)
JobsRequested ==
    /\ \A i \in 1..Len(queue) : Requested(queue[i])
    /\ \A w \in Workers : worker[w].scan # NoScan => Requested(worker[w].scan)
    /\ \A s \in Scans :
          IF request[s] = "none" THEN scans[s] = NoRow
                                 ELSE scans[s].status # "absent"

AfterStart == {"scanning", "ScanImage", "persisting", "PersistScanResults",
               "completed", "publishCompleted"}
AfterCommit == {"completed", "publishCompleted"}

(* A worker past UpdateScanRunning works on a row that has started, one    *)
(* past the commit on a row that has results: no other step takes that     *)
(* back.                                                                   *)
RowFollowsPc ==
    \A w \in Workers :
        /\ worker[w].pc \in AfterStart => scans[worker[w].scan].started
        /\ worker[w].pc \in AfterCommit => scans[worker[w].scan].results

RowInv == JobsRequested /\ RowFollowsPc /\ RowConsistent /\ CompletedEventTruthful

RowOK(row) ==
    /\ row.status = "running" => row.started
    /\ row.status = "completed" =>
          row.started /\ row.results /\ row.error = "none"
    /\ row.status = "failed" => row.error # "none"
    /\ row.status \in {"completed", "failed", "cancelled"} => row.completedAt

LEMMA RowsOK == RowConsistent <=> \A s \in Scans : RowOK(scans[s])
BY DEF RowConsistent, RowOK

CancelledRow(row) == [row EXCEPT !.status = "cancelled", !.completedAt = TRUE]

(* Every UPDATE keeps a row consistent, and none takes back its start or   *)
(* its results.                                                            *)
LEMMA UpdatesKeepRows ==
    ASSUME NEW row \in Row, RowOK(row), NEW err \in Failure \ {"none"}
    PROVE  /\ RowOK(RunningRow(row)) /\ RunningRow(row).started
           /\ RunningRow(row).results = row.results
           /\ RunningRow(row).status # "absent"
           /\ CompletedRow(row).status # "absent"
           /\ FailedRow(row, err).status # "absent"
           /\ CancelledRow(row).status # "absent"
           /\ row.started => RowOK(CompletedRow(row))
           /\ CompletedRow(row).started = row.started
           /\ CompletedRow(row).results
           /\ RowOK(FailedRow(row, err))
           /\ FailedRow(row, err).started = row.started
           /\ FailedRow(row, err).results = row.results
           /\ RowOK(CancelledRow(row))
           /\ CancelledRow(row).started = row.started
           /\ CancelledRow(row).results = row.results
BY DEF RowOK, RunningRow, CompletedRow, FailedRow, CancelledRow, Row

(* A consistent update of one row that takes nothing back, together with   *)
(* any steps of workers that are justified by the new rows.                *)
LEMMA RowInvOfUpdate ==
    ASSUME TypeOK, JobShape, RowInv, NEW s \in Scans, NEW row \in Row,
           scans' = [scans EXCEPT ![s] = row],
           RowOK(row), request[s] # "none", row.status # "absent",
           scans[s].started => row.started, scans[s].results => row.results,
           UNCHANGED <<request, queue, events>>,
           \A v \in Workers :
              \/ worker'[v] = worker[v]
              \/ /\ worker'[v].scan \in {worker[v].scan, NoScan}
                 /\ worker'[v].pc \in AfterStart =>
                       scans'[worker'[v].scan].started
                 /\ worker'[v].pc \in AfterCommit =>
                       scans'[worker'[v].scan].results
    PROVE  RowInv'
<1>1. /\ scans'[s] = row
      /\ \A r \in Scans \ {s} : scans'[r] = scans[r]
  BY DEF TypeOK
<1>2. JobsRequested'
  BY <1>1 DEF RowInv, JobsRequested, Requested
<1>3. RowConsistent'
  <2>1. \A r \in Scans : RowOK(scans[r])
    BY RowsOK DEF RowInv
  <2>2. \A r \in Scans : RowOK(scans'[r])
    BY <1>1, <2>1
  <2>3. QED
    BY <2>2 DEF RowConsistent, RowOK
<1>4. CompletedEventTruthful'
  BY <1>1 DEF RowInv, CompletedEventTruthful
<1>5. ASSUME NEW v \in Workers, worker'[v] = worker[v]
      PROVE /\ worker'[v].pc \in AfterStart => scans'[worker'[v].scan].started
            /\ worker'[v].pc \in AfterCommit => scans'[worker'[v].scan].results
  <2>1. CASE worker[v].scan = s
    BY <1>1, <1>5, <2>1 DEF RowInv, RowFollowsPc
  <2>2. CASE worker[v].scan # s
    BY <1>1, <1>5, <2>2 DEF RowInv, RowFollowsPc, TypeOK, WorkerState, JobShape, AfterStart,
       AfterCommit
  <2>3. QED
    BY <2>1, <2>2
<1>6. RowFollowsPc'
  BY <1>5 DEF RowFollowsPc
<1>7. QED
  BY <1>2, <1>3, <1>4, <1>6 DEF RowInv
(* A step that changes no row, request or push, and lets a worker proceed  *)
(* only to where its row allows.                                           *)
LEMMA RowInvOfMove ==
    ASSUME TypeOK, JobShape, RowInv,
           UNCHANGED <<scans, request, queue>>,
           \A s \in Scans :
              <<s, "completed">> \in events' =>
                 scans[s].results \/ <<s, "completed">> \in events,
           \A v \in Workers :
              \/ worker'[v] = worker[v]
              \/ /\ worker'[v].scan \in {worker[v].scan, NoScan}
                 /\ worker'[v].pc \in AfterStart =>
                       scans[worker'[v].scan].started
                 /\ worker'[v].pc \in AfterCommit =>
                       scans[worker'[v].scan].results
    PROVE  RowInv'
<1>1. JobsRequested'
  BY DEF RowInv, JobsRequested, Requested
<1>2. RowConsistent' /\ CompletedEventTruthful'
  BY DEF RowInv, RowConsistent, CompletedEventTruthful
<1>3. RowFollowsPc'
  BY DEF RowInv, RowFollowsPc
<1>4. QED
  BY <1>1, <1>2, <1>3 DEF RowInv

(* What a push does to the list. *)
LEMMA AppendFacts ==
    ASSUME NEW S, NEW q \in Seq(S), NEW x \in S
    PROVE  /\ Append(q, x) \in Seq(S)
           /\ Len(Append(q, x)) = Len(q) + 1
           /\ \A i \in 1..Len(q) : Append(q, x)[i] = q[i]
           /\ Append(q, x)[Len(q) + 1] = x
OBVIOUS

OnlyAdds(p, q, x) ==
    \A i \in 1..Len(p) : p[i] = x \/ (i \in 1..Len(q) /\ p[i] = q[i])

LEMMA AppendAdds ==
    ASSUME NEW S, NEW q \in Seq(S), NEW p \in Seq(S), NEW x \in S,
           OnlyAdds(p, q, x)
    PROVE  Append(p, x) \in Seq(S) /\ OnlyAdds(Append(p, x), q, x)
<1> DEFINE more == Append(p, x)
<1>1. /\ more \in Seq(S) /\ Len(more) = Len(p) + 1 /\ Len(p) \in Nat
      /\ \A i \in 1..Len(p) : more[i] = p[i]
      /\ more[Len(p) + 1] = x
  BY AppendFacts
<1> HIDE DEF more
<1>2. ASSUME NEW i \in 1..Len(more)
      PROVE  more[i] = x \/ (i \in 1..Len(q) /\ more[i] = q[i])
  <2>1. CASE i = Len(p) + 1
    BY <1>1, <2>1
  <2>2. CASE i \in 1..Len(p)
    BY <1>1, <2>2 DEF OnlyAdds
  <2>3. QED
    BY <1>1, <1>2, <2>1, <2>2
<1>3. OnlyAdds(more, q, x)
  BY <1>2 DEF OnlyAdds
<1>4. QED
  BY <1>1, <1>3 DEF more

LEMMA AppendedJobs ==
    ASSUME TypeOK, NEW s \in Scans,
           queue' \in {queue, Append(queue, s), Append(Append(queue, s), s)}
    PROVE  queue' \in Seq(Scans) /\ OnlyAdds(queue', queue, s)
<1>1. queue \in Seq(Scans) /\ OnlyAdds(queue, queue, s)
  BY DEF TypeOK, OnlyAdds
<1>2. Append(queue, s) \in Seq(Scans) /\ OnlyAdds(Append(queue, s), queue, s)
  BY <1>1, AppendAdds
<1>3. /\ Append(Append(queue, s), s) \in Seq(Scans)
      /\ OnlyAdds(Append(Append(queue, s), s), queue, s)
  BY <1>1, <1>2, AppendAdds
<1>4. QED
  BY <1>1, <1>2, <1>3

(* What BRPOP does to the list. *)
LEMMA TakenJob ==
    ASSUME TypeOK, TakeJob
    PROVE  /\ Head(queue) \in Scans /\ queue' \in Seq(Scans)
           /\ 1 \in 1..Len(queue) /\ Head(queue) = queue[1]
           /\ \A i \in 1..Len(queue') :
                 i + 1 \in 1..Len(queue) /\ queue'[i] = queue[i + 1]
BY DEF TypeOK, TakeJob

LEMMA RowInvStep ==
    TypeOK /\ JobShape /\ RowInv /\ [Next]_vars => RowInv'
<1> SUFFICES ASSUME TypeOK, JobShape, RowInv, [Next]_vars PROVE RowInv'
  OBVIOUS
<1>1. ASSUME NEW s \in Scans, request[s] = "none", InsertManualScan(s)
      PROVE  RowInv'
  <2>1. /\ request'[s] = "inserted" /\ scans'[s] = [NoRow EXCEPT !.status = "pending"]
        /\ \A r \in Scans \ {s} : scans'[r] = scans[r] /\ request'[r] = request[r]
        /\ UNCHANGED <<queue, events, worker>>
    BY <1>1 DEF InsertManualScan, TypeOK
  <2>2. \A w \in Workers : worker[w].scan # s
    BY <1>1, ConstantsOK DEF RowInv, JobsRequested, Requested
  <2>3. JobsRequested'
    <3>1. \A i \in 1..Len(queue) : queue[i] \in Scans /\ queue[i] # s
      BY <1>1 DEF RowInv, JobsRequested, Requested, TypeOK
    <3>2. (\A i \in 1..Len(queue) : Requested(queue[i]))'
      BY <2>1, <3>1 DEF RowInv, JobsRequested, Requested
    <3>3. (\A w \in Workers :
               worker[w].scan # NoScan => Requested(worker[w].scan))'
      BY <2>1, <2>2 DEF RowInv, JobsRequested, Requested, TypeOK, WorkerState
    <3>4. scans'[s].status # "absent"
      BY <2>1 DEF NoRow
    <3>5. (\A r \in Scans : IF request[r] = "none" THEN scans[r] = NoRow
                                              ELSE scans[r].status # "absent")'
      <4>1. ASSUME NEW r \in Scans
            PROVE  IF request'[r] = "none" THEN scans'[r] = NoRow
                                           ELSE scans'[r].status # "absent"
        <5>1. CASE r = s
          BY <2>1, <3>4, <5>1
        <5>2. CASE r # s
          BY <2>1, <5>2 DEF RowInv, JobsRequested
        <5>3. QED
          BY <5>1, <5>2
      <4>2. QED
        BY <4>1 DEF NoRow
    <3>6. QED
      BY <3>2, <3>3, <3>5 DEF JobsRequested
  <2>4. RowFollowsPc'
    BY <2>1, <2>2 DEF RowInv, RowFollowsPc, TypeOK, WorkerState, JobShape,
       AfterStart, AfterCommit
  <2>5. RowConsistent'
    BY <2>1 DEF RowInv, RowConsistent, NoRow
  <2>6. <<s, "completed">> \notin events
    BY <1>1 DEF RowInv, JobsRequested, CompletedEventTruthful, NoRow
  <2>7. CompletedEventTruthful'
    BY <2>1, <2>6 DEF RowInv, CompletedEventTruthful
  <2>8. QED
    BY <2>3, <2>4, <2>5, <2>7 DEF RowInv
<1>2. ASSUME NEW s \in Scans, Enqueue(s) \/ AbandonRequest(s)
      PROVE  RowInv'
  <2>1. /\ request[s] = "inserted" /\ request'[s] \in {"created", "error"}
        /\ \A r \in Scans \ {s} : request'[r] = request[r]
        /\ UNCHANGED <<scans, events, worker>>
    BY <1>2 DEF Enqueue, AbandonRequest, TypeOK
  <2>2. queue' \in {queue, Append(queue, s), Append(Append(queue, s), s)}
    BY <1>2 DEF Enqueue, AbandonRequest
  <2>3. \A i \in 1..Len(queue') :
            queue'[i] = s \/ (i \in 1..Len(queue) /\ queue'[i] = queue[i])
    BY <2>2, AppendedJobs DEF OnlyAdds
  <2>4. JobsRequested'
    <3>1. \A r \in Scans : r = s \/ Requested(r) => Requested(r)'
      BY <2>1 DEF Requested
    <3>2. \A i \in 1..Len(queue) : queue[i] \in Scans
      BY DEF TypeOK
    <3>3. (\A i \in 1..Len(queue) : Requested(queue[i]))'
      BY <2>3, <3>1, <3>2 DEF RowInv, JobsRequested
    <3>4. (\A w \in Workers :
               worker[w].scan # NoScan => Requested(worker[w].scan))'
      BY <2>1, <3>1 DEF RowInv, JobsRequested, TypeOK, WorkerState
    <3>5. QED
      BY <2>1, <3>3, <3>4 DEF RowInv, JobsRequested, Requested
  <2>5. QED
    BY <2>1, <2>4
       DEF RowInv, RowFollowsPc, RowConsistent, CompletedEventTruthful
<1>3. ASSUME NEW s \in Scans, CancelScan(s) PROVE RowInv'
  <2>1. RowOK(scans[s]) /\ scans[s] \in Row
    BY RowsOK DEF RowInv, TypeOK
  <2>2. scans' = [scans EXCEPT ![s] = CancelledRow(scans[s])]
    BY <1>3 DEF CancelScan, CancelledRow
  <2>3. CancelledRow(scans[s]) \in Row
    BY <2>1 DEF CancelledRow, Row, Status
  <2>4. scans[s] # NoRow
    BY <1>3 DEF CancelScan, NoRow
  <2>5. QED
    <3>1. /\ RowOK(CancelledRow(scans[s])) /\ request[s] # "none"
          /\ CancelledRow(scans[s]).status # "absent"
      BY <2>1, <2>4, UpdatesKeepRows DEF RowInv, JobsRequested, Failure
    <3>2. /\ CancelledRow(scans[s]).started = scans[s].started
          /\ CancelledRow(scans[s]).results = scans[s].results
      BY <2>1 DEF CancelledRow, Row
    <3>3. UNCHANGED <<request, queue, events, worker>>
      BY <1>3 DEF CancelScan
    <3>4. QED
      BY <2>2, <2>3, <3>1, <3>2, <3>3, RowInvOfUpdate
<1>4. ASSUME NEW s \in Scans, ExpirePhase(s) PROVE RowInv'
  BY <1>4, RowInvOfMove DEF ExpirePhase
<1>5. ASSUME NEW w \in Workers, Pop(w) \/ PopAfterStop(w) PROVE RowInv'
  <2>1. /\ TakeJob
        /\ UNCHANGED <<scans, request, events>>
        /\ \/ worker' = worker
           \/ worker' = [worker EXCEPT ![w] = AtLoop("exited")]
           \/ worker' = [worker EXCEPT ![w] =
                 [pc |-> "initializing", scan |-> Head(queue),
                  attempt |-> 1, err |-> "none"]]
    BY <1>5 DEF Pop, PopAfterStop
  <2>2. JobsRequested'
    <3>1. (\A i \in 1..Len(queue) : Requested(queue[i]))'
      BY <2>1, TakenJob DEF RowInv, JobsRequested, Requested
    <3>2. (\A v \in Workers :
               worker[v].scan # NoScan => Requested(worker[v].scan))'
      <4>1. Requested(Head(queue))
        BY <2>1, TakenJob DEF RowInv, JobsRequested
      <4>2. \A v \in Workers : worker'[v].scan \in {worker[v].scan, NoScan, Head(queue)}
        BY <2>1 DEF AtLoop, TypeOK
      <4>3. QED
        BY <2>1, <4>1, <4>2 DEF RowInv, JobsRequested, Requested
    <3>3. QED
      BY <2>1, <3>1, <3>2 DEF RowInv, JobsRequested
  <2>3. RowFollowsPc'
    BY <2>1 DEF RowInv, RowFollowsPc, AtLoop, TypeOK, AfterStart, AfterCommit
  <2>4. QED
    BY <2>1, <2>2, <2>3 DEF RowInv, RowConsistent, CompletedEventTruthful
<1>6. ASSUME NEW w \in Workers, SetScanPhase(w) PROVE RowInv'
  <2> DEFINE next == CallAfterPhase(worker[w].pc, worker[w].err)
  <2>1. worker[w].pc \in Phases /\ next \in Calls
    BY <1>6, PhaseCalls DEF SetScanPhase, Calls
  <2>2. /\ next \in AfterStart => worker[w].pc \in AfterStart
        /\ next \in AfterCommit => worker[w].pc \in AfterCommit
    BY <2>1 DEF CallAfterPhase, Phases, AfterStart, AfterCommit
  <2> HIDE DEF next
  <2>3. Goto(w, next) /\ UNCHANGED <<scans, request, queue, events>>
    BY <1>6 DEF SetScanPhase, next
  <2>4. QED
    BY <2>1, <2>2, <2>3, GotoFacts, RowInvOfMove DEF RowInv, RowFollowsPc
<1>7. ASSUME NEW w \in Workers, UpdateScanRunning(w) PROVE RowInv'
  <2> DEFINE s == worker[w].scan
  <2>1. /\ s \in Scans /\ worker[w].pc = "UpdateScanRunning"
        /\ request[s] # "none"
    BY <1>7, WorksOnScan, ConstantsOK
       DEF UpdateScanRunning, RowInv, JobsRequested, Requested
  <2>2. scans[s] \in Row /\ RowOK(scans[s]) /\ RunningRow(scans[s]) \in Row
    BY <2>1, RowsOK, RowUpdates DEF RowInv, TypeOK, Failure
  <2>3. /\ RowOK(RunningRow(scans[s])) /\ RunningRow(scans[s]).started
        /\ RunningRow(scans[s]).results = scans[s].results
        /\ RunningRow(scans[s]).status # "absent"
    BY <2>2, UpdatesKeepRows DEF Failure
  <2>4. /\ Goto(w, "scanning") \/ Fail(w, "start")
        /\ UNCHANGED <<request, queue, events>>
        /\ \/ scans' = [scans EXCEPT ![s] = RunningRow(scans[s])]
           \/ Fail(w, "start") /\ UNCHANGED scans
    BY <1>7 DEF UpdateScanRunning
  <2>5. /\ worker'[w].scan = s /\ worker'[w].pc \notin AfterCommit
        /\ Fail(w, "start") => worker'[w].pc \notin AfterStart
        /\ \A v \in Workers \ {w} : worker'[v] = worker[v]
    BY <2>1, <2>4, GotoFacts, FailFacts
       DEF AfterStart, AfterCommit, Failure, Calls, Phases
  <2>6. CASE scans' = [scans EXCEPT ![s] = RunningRow(scans[s])]
    <3>1. scans'[s].started
      BY <2>1, <2>3, <2>6 DEF TypeOK
    <3> HIDE DEF s
    <3>2. QED
      BY <2>1, <2>2, <2>3, <2>4, <2>5, <2>6, <3>1, RowInvOfUpdate DEF s
  <2>7. CASE Fail(w, "start") /\ UNCHANGED scans
    BY <2>4, <2>5, <2>7, RowInvOfMove
  <2>8. QED
    BY <2>4, <2>6, <2>7
<1>8. ASSUME NEW w \in Workers, ScanImage(w) PROVE RowInv'
  <2>1. /\ worker[w].pc = "ScanImage"
        /\ Goto(w, "persisting") \/ Fail(w, "pull") \/ Fail(w, "scan")
        /\ UNCHANGED <<scans, request, queue, events>>
    BY <1>8 DEF ScanImage
  <2>2. /\ worker'[w].scan = worker[w].scan
        /\ worker'[w].pc \notin AfterCommit
        /\ scans[worker[w].scan].started
        /\ \A v \in Workers \ {w} : worker'[v] = worker[v]
    BY <2>1, GotoFacts, FailFacts
       DEF RowInv, RowFollowsPc, AfterStart, AfterCommit, Failure, Calls, Phases
  <2>3. QED
    BY <2>1, <2>2, RowInvOfMove
<1>9. ASSUME NEW w \in Workers, PersistScanResults(w) PROVE RowInv'
  <2> DEFINE s == worker[w].scan
  <2>1. /\ s \in Scans /\ worker[w].pc = "PersistScanResults"
        /\ request[s] # "none" /\ scans[s].started
    BY <1>9, WorksOnScan, ConstantsOK
       DEF PersistScanResults, RowInv, JobsRequested, Requested, RowFollowsPc,
           AfterStart
  <2>2. scans[s] \in Row /\ RowOK(scans[s]) /\ CompletedRow(scans[s]) \in Row
    BY <2>1, RowsOK, RowUpdates DEF RowInv, TypeOK, Failure
  <2>3. /\ RowOK(CompletedRow(scans[s])) /\ CompletedRow(scans[s]).results
        /\ CompletedRow(scans[s]).started
        /\ CompletedRow(scans[s]).status # "absent"
    BY <2>1, <2>2, UpdatesKeepRows DEF Failure
  <2>4. /\ Goto(w, "completed") \/ Fail(w, "persist")
        /\ UNCHANGED <<request, queue, events>>
        /\ \/ scans' = [scans EXCEPT ![s] = CompletedRow(scans[s])]
           \/ Fail(w, "persist") /\ UNCHANGED scans
    BY <1>9 DEF PersistScanResults
  <2>5. /\ worker'[w].scan = s
        /\ Fail(w, "persist") => worker'[w].pc \notin AfterStart \cup AfterCommit
        /\ \A v \in Workers \ {w} : worker'[v] = worker[v]
    BY <2>1, <2>4, GotoFacts, FailFacts
       DEF AfterStart, AfterCommit, Failure, Calls, Phases
  <2>6. CASE scans' = [scans EXCEPT ![s] = CompletedRow(scans[s])]
    <3>1. scans'[s].started /\ scans'[s].results
      BY <2>1, <2>3, <2>6 DEF TypeOK
    <3> HIDE DEF s
    <3>2. QED
      BY <2>1, <2>2, <2>3, <2>4, <2>5, <2>6, <3>1, RowInvOfUpdate DEF s
  <2>7. CASE Fail(w, "persist") /\ UNCHANGED scans
    BY <2>4, <2>5, <2>7, RowInvOfMove
  <2>8. QED
    BY <2>4, <2>6, <2>7
<1>10. ASSUME NEW w \in Workers, PublishCompleted(w) PROVE RowInv'
  <2>1. /\ UNCHANGED <<scans, request, queue>>
        /\ events' \subseteq events \cup {<<worker[w].scan, "completed">>}
        /\ scans[worker[w].scan].results
    BY <1>10 DEF PublishCompleted, RowInv, RowFollowsPc, AfterCommit
  <2>2. /\ worker'[w].scan = NoScan /\ worker'[w].pc = "BRPop"
        /\ \A v \in Workers \ {w} : worker'[v] = worker[v]
    BY <1>10, LoopFacts DEF PublishCompleted
  <2>3. QED
    BY <2>1, <2>2, RowInvOfMove DEF AfterStart, AfterCommit
<1>11. ASSUME NEW w \in Workers, UpdateScanFailed(w) PROVE RowInv'
  <2> DEFINE s == worker[w].scan
  <2>1. /\ s \in Scans /\ worker[w].err \in Failure \ {"none"}
        /\ request[s] # "none"
    BY <1>11, WorksOnScan, ConstantsOK
       DEF UpdateScanFailed, RowInv, JobsRequested, Requested, JobShape, Tail3,
           TypeOK, WorkerState
  <2>2. /\ scans[s] \in Row /\ RowOK(scans[s])
        /\ FailedRow(scans[s], worker[w].err) \in Row
    BY <2>1, RowsOK, RowUpdates DEF RowInv, TypeOK
  <2>3. /\ RowOK(FailedRow(scans[s], worker[w].err))
        /\ FailedRow(scans[s], worker[w].err).started = scans[s].started
        /\ FailedRow(scans[s], worker[w].err).results = scans[s].results
        /\ FailedRow(scans[s], worker[w].err).status # "absent"
    BY <2>1, <2>2, UpdatesKeepRows
  <2>4. /\ ReturnError(w) \/ Goto(w, "publishFailed")
        /\ UNCHANGED <<request, queue, events>>
        /\ \/ scans' = [scans EXCEPT ![s] = FailedRow(scans[s], worker[w].err)]
           \/ UNCHANGED scans
    BY <1>11 DEF UpdateScanFailed
  <2>5. /\ worker'[w].scan \in {s, NoScan}
        /\ worker'[w].pc \notin AfterStart \cup AfterCommit
        /\ \A v \in Workers \ {w} : worker'[v] = worker[v]
    BY <2>4, GotoFacts, ReturnFacts DEF AfterStart, AfterCommit, Calls, Phases
  <2>6. CASE scans' = [scans EXCEPT ![s] = FailedRow(scans[s], worker[w].err)]
    <3> HIDE DEF s
    <3>1. QED
      BY <2>1, <2>2, <2>3, <2>4, <2>5, <2>6, RowInvOfUpdate DEF s
  <2>7. CASE UNCHANGED scans
    BY <2>4, <2>5, <2>7, RowInvOfMove
  <2>8. QED
    BY <2>4, <2>6, <2>7
<1>12. ASSUME NEW w \in Workers, PublishFailed(w) PROVE RowInv'
  <2>1. /\ ReturnError(w) \/ Goto(w, "UpdateScanFailed")
        /\ UNCHANGED <<scans, request, queue>>
        /\ events' \subseteq events \cup {<<worker[w].scan, "failed">>}
    BY <1>12 DEF PublishFailed
  <2>2. /\ worker'[w].scan \in {worker[w].scan, NoScan}
        /\ worker'[w].pc \notin AfterStart \cup AfterCommit
        /\ \A v \in Workers \ {w} : worker'[v] = worker[v]
    BY <2>1, GotoFacts, ReturnFacts DEF AfterStart, AfterCommit, Calls
  <2>3. QED
    BY <2>1, <2>2, RowInvOfMove
<1>13. ASSUME NEW w \in Workers, Retry(w) PROVE RowInv'
  <2>1. /\ worker'[w].scan = worker[w].scan /\ worker'[w].pc = "initializing"
        /\ \A v \in Workers \ {w} : worker'[v] = worker[v]
        /\ UNCHANGED <<scans, request, queue, events>>
    BY <1>13 DEF Retry, TypeOK, WorkerState
  <2>2. QED
    BY <2>1, RowInvOfMove DEF AfterStart, AfterCommit
<1>14. ASSUME NEW w \in Workers, Unwind(w) PROVE RowInv'
  <2>1. /\ worker'[w].scan = NoScan /\ worker'[w].pc = "exited"
        /\ \A v \in Workers \ {w} : worker'[v] = worker[v]
        /\ UNCHANGED <<scans, request, queue, events>>
    BY <1>14, LoopFacts DEF Unwind
  <2>2. QED
    BY <2>1, RowInvOfMove DEF AfterStart, AfterCommit
<1>15. CASE SigTerm \/ UNCHANGED vars
  BY <1>15, RowInvOfMove DEF SigTerm, vars
<1>16. CASE Kill \/ Restart
  <2>1. /\ \A w \in Workers : /\ worker'[w].scan = NoScan
                             /\ worker'[w].pc \in {"exited", "BRPop"}
        /\ UNCHANGED <<scans, request, queue, events>>
    BY <1>16 DEF Kill, Restart, AtLoop
  <2>2. QED
    BY <2>1, RowInvOfMove DEF AfterStart, AfterCommit
<1>17. QED
  BY <1>1, <1>2, <1>3, <1>4, <1>5, <1>6, <1>7, <1>8, <1>9, <1>10, <1>11,
     <1>12, <1>13, <1>14, <1>15, <1>16
     DEF Next, Api, WorkerStep, Stopping, CreateScan, RerunScan

LEMMA RowInvInit == Init => RowInv
BY ConstantsOK DEF Init, RowInv, JobsRequested, Requested, RowFollowsPc, AtLoop,
   AfterStart, AfterCommit, RowConsistent, CompletedEventTruthful, NoRow

(* In every reachable state, even when a job was pushed twice and two      *)
(* workers process it: a row says started, completed_at, results and error *)
(* as its status requires (scans.go, persist_scan.go).                     *)
THEOREM RowsConsistent == Spec => []RowConsistent
<1>1. TypeOK /\ JobShape /\ RowInv /\ [Next]_vars
        => (TypeOK /\ JobShape /\ RowInv)'
  BY TypeStep, RowInvStep
<1>2. RowInv => RowConsistent
  BY DEF RowInv
<1>3. QED
  BY <1>1, <1>2, TypeInit, RowInvInit, PTL DEF Spec

(* Whenever the event of a completed scan was published, its results are   *)
(* committed and stay so (runner.go, runPipeline).                         *)
THEOREM EventsTruthful == Spec => []CompletedEventTruthful
<1>1. TypeOK /\ JobShape /\ RowInv /\ [Next]_vars
        => (TypeOK /\ JobShape /\ RowInv)'
  BY TypeStep, RowInvStep
<1>2. RowInv => CompletedEventTruthful
  BY DEF RowInv
<1>3. QED
  BY <1>1, <1>2, TypeInit, RowInvInit, PTL DEF Spec
=============================================================================
