----------------------- MODULE ScanPipelineRefinement -----------------------
(* ScanPipeline implements ScanLifecycle as long as no reply can be lost:  *)
(* every step changes the status and the stage of at most one scan as an   *)
(* action of ScanLifecycle does, a process stop closes the jobs it takes   *)
(* down, and every other step is a stutter.                                *)
EXTENDS ScanPipelineOwnership

-----------------------------------------------------------------------------
(* The mapped state *)

StatusMap == [s \in Scans |-> scans[s].status]
StageMap == [s \in Scans |-> StageOf(s)]

LEMMA Stages ==
    ASSUME TypeOK, NEW s \in Scans
    PROVE  /\ Queued(s) => StageOf(s) = "waiting"
           /\ ~Queued(s) /\ Held(s) => StageOf(s) = "working"
           /\ JobGone(s) /\ request[s] \in {"none", "inserted"} => StageOf(s) = "unsent"
           /\ JobGone(s) /\ Requested(s) => StageOf(s) = "closed"
BY DEF StageOf, JobGone, Requested, TypeOK

LEMMA SameStage ==
    ASSUME NEW s \in Scans, Queued(s)' <=> Queued(s), Held(s)' <=> Held(s),
           request'[s] = request[s]
    PROVE  StageOf(s)' = StageOf(s)
BY DEF StageOf, JobGone

(* A step that does not move any job and changes no status is a stutter,   *)
(* one that does it for a single scan is a step of that scan.              *)
LEMMA StutterMap ==
    ASSUME \A s \in Scans : scans'[s].status = scans[s].status,
           \A s \in Scans : StageOf(s)' = StageOf(s)
    PROVE  UNCHANGED Lifecycle!vars
BY DEF Lifecycle!vars

LEMMA StatusMapStep ==
    ASSUME NEW s \in Scans, NEW new, scans'[s].status = new,
           \A r \in Scans \ {s} : scans'[r].status = scans[r].status,
           \A r \in Scans : StageOf(r)' = StageOf(r)
    PROVE  Lifecycle!SetStatus(s, new)
BY DEF Lifecycle!SetStatus

LEMMA StageMapStep ==
    ASSUME NEW s \in Scans, NEW new, StageOf(s)' = new,
           \A r \in Scans \ {s} : StageOf(r)' = StageOf(r),
           \A r \in Scans : scans'[r].status = scans[r].status
    PROVE  Lifecycle!SetStage(s, new)
BY DEF Lifecycle!SetStage

(* A step of the worker that holds s, as ScanLifecycle sees it. *)
LEMMA HolderStage ==
    ASSUME FullInv, OneJob, NEW w \in Workers, NEW s \in Scans,
           worker[w].scan = s, UNCHANGED <<queue, request>>, FullInv',
           \A v \in Workers \ {w} : worker'[v] = worker[v],
           worker'[w].scan \in {s, NoScan}
    PROVE  /\ StageOf(s) = "working"
           /\ worker'[w].scan = s => StageOf(s)' = "working"
           /\ worker'[w].scan = NoScan => StageOf(s)' = "closed"
           /\ \A r \in Scans \ {s} : StageOf(r)' = StageOf(r)
<1>1. ~Queued(s) /\ ~Queued(s)' /\ Held(s)
  BY DEF OneJob, Queued, Held
<1>2. Requested(s) /\ Requested(s)'
  BY ConstantsOK DEF FullInv, RowInv, JobsRequested, Requested
<1>3. worker'[w].scan = s => Held(s)'
  BY DEF Held
<1>4. worker'[w].scan = NoScan => ~Held(s)'
  BY ConstantsOK DEF Held, OneJob
<1>5. \A r \in Scans \ {s} : Held(r)' <=> Held(r)
  BY ConstantsOK DEF Held
<1>6. \A r \in Scans : Queued(r)' <=> Queued(r)
  BY DEF Queued
<1>7. \A r \in Scans \ {s} : StageOf(r)' = StageOf(r)
  BY <1>5, <1>6, SameStage
<1>8. StageOf(s) = "working"
  BY <1>1, Stages DEF FullInv
<1>9. (worker'[w].scan = s => StageOf(s)' = "working")
  BY <1>1, <1>3 DEF StageOf
<1>10. worker'[w].scan = NoScan => StageOf(s)' = "closed"
  BY <1>1, <1>2, <1>4 DEF StageOf, JobGone, Requested
<1>11. QED
  BY <1>7, <1>8, <1>9, <1>10

(* Without lost replies. *)
LEMMA Reliable ==
    ASSUME MaxLostReplies = 0, FullInv
    PROVE  lostReplies = 0 /\ OneJob /\ Outcome
BY DEF FullInv, TypeOK, ReliableInv

(* A step of the holder of s that changes no status moves s as the holder  *)
(* goes on or leaves.                                                      *)
LEMMA HolderMoves ==
    ASSUME FullInv, FullInv', OneJob, NEW w \in Workers, NEW s \in Scans,
           worker[w].scan = s, UNCHANGED <<scans, queue, request>>,
           \A v \in Workers \ {w} : worker'[v] = worker[v],
           worker'[w].scan \in {s, NoScan}
    PROVE  [Lifecycle!Next]_(Lifecycle!vars)
<1>1. /\ StageOf(s) = "working"
      /\ worker'[w].scan = s => StageOf(s)' = "working"
      /\ worker'[w].scan = NoScan => StageOf(s)' = "closed"
      /\ \A r \in Scans \ {s} : StageOf(r)' = StageOf(r)
  BY HolderStage
<1>2. CASE worker'[w].scan = s
  BY <1>1, <1>2, StutterMap
<1>3. CASE worker'[w].scan = NoScan
  <2>1. Lifecycle!SetStage(s, "closed")
    BY <1>1, <1>3, StageMapStep
  <2>2. scans[s].status # "absent"
    BY ConstantsOK DEF FullInv, RowInv, JobsRequested, Requested, TypeOK, RowConsistent, Row, Status
  <2>3. Lifecycle!Close(s)
    BY <1>1, <2>1, <2>2 DEF Lifecycle!Close
  <2>4. QED
    BY <2>3 DEF Lifecycle!Next
<1>4. QED
  BY <1>2, <1>3
(* A step of the holder of s that changes its status, and keeps the job.   *)
LEMMA HolderSets ==
    ASSUME FullInv, FullInv', OneJob, NEW w \in Workers, NEW s \in Scans, NEW row,
           worker[w].scan = s, UNCHANGED <<queue, request>>,
           scans' = [scans EXCEPT ![s] = row],
           \A v \in Workers \ {w} : worker'[v] = worker[v],
           worker'[w].scan = s
    PROVE  /\ StageOf(s) = "working"
           /\ Lifecycle!SetStatus(s, row.status)
<1>1. /\ StageOf(s) = "working" /\ StageOf(s)' = "working"
      /\ \A r \in Scans \ {s} : StageOf(r)' = StageOf(r)
  BY HolderStage
<1>2. scans'[s] = row /\ \A r \in Scans \ {s} : scans'[r] = scans[r]
  BY DEF FullInv, TypeOK
<1>3. QED
  BY <1>1, <1>2, StatusMapStep

LEMMA RefinementStep ==
    ASSUME MaxLostReplies = 0, FullInv, FullInv', [Next]_vars
    PROVE  [Lifecycle!Next]_(Lifecycle!vars)
<1> USE Reliable
<1>0. lostReplies' = 0 /\ ~ReplyLost
  BY DEF FullInv, TypeOK, ReplyLost
<1>1. ASSUME NEW s \in Scans, request[s] = "none", InsertManualScan(s)
      PROVE  [Lifecycle!Next]_(Lifecycle!vars)
  <2>1. /\ scans[s].status = "absent" /\ scans'[s].status = "pending"
        /\ \A r \in Scans \ {s} : scans'[r] = scans[r] /\ request'[r] = request[r]
        /\ request'[s] = "inserted" /\ UNCHANGED <<queue, worker>>
    BY <1>1 DEF InsertManualScan, FullInv, TypeOK, RowInv, JobsRequested, NoRow
  <2>2. \A r \in Scans : (Queued(r)' <=> Queued(r)) /\ (Held(r)' <=> Held(r))
    BY <2>1 DEF Queued, Held
  <2>3. StageOf(s)' = StageOf(s)
    BY <1>1, <2>1, <2>2 DEF StageOf
  <2>4. \A r \in Scans : StageOf(r)' = StageOf(r)
    BY <2>1, <2>2, <2>3, SameStage
  <2>5. Lifecycle!Create(s)
    BY <2>1, <2>4, StatusMapStep DEF Lifecycle!Create
  <2>6. QED
    BY <2>5 DEF Lifecycle!Next
<1>2. ASSUME NEW s \in Scans, Enqueue(s) \/ AbandonRequest(s)
      PROVE  [Lifecycle!Next]_(Lifecycle!vars)
  <2>1. /\ request[s] = "inserted" /\ request'[s] \in {"created", "error"}
        /\ \A r \in Scans \ {s} : request'[r] = request[r]
        /\ queue' \in {queue, Append(queue, s)}
        /\ UNCHANGED <<scans, worker>>
    BY <1>0, <1>2 DEF Enqueue, AbandonRequest, FullInv, TypeOK
  <2>2. ~Queued(s) /\ ~Held(s) /\ scans[s].status # "absent"
    BY <2>1, ConstantsOK DEF FullInv, RowInv, JobsRequested, Requested, Queued, Held
  <2>3. StageOf(s) = "unsent"
    BY <2>1, <2>2 DEF StageOf
  <2>4. \A r \in Scans : Held(r)' <=> Held(r)
    BY <2>1 DEF Held
  <2>5. CASE queue' = queue
    <3>1. \A r \in Scans : Queued(r)' <=> Queued(r)
      BY <2>5 DEF Queued
    <3>2. StageOf(s)' = "closed"
      BY <2>1, <2>2, <2>4, <3>1 DEF StageOf
    <3>3. \A r \in Scans \ {s} : StageOf(r)' = StageOf(r)
      BY <2>1, <2>4, <3>1, SameStage
    <3>4. Lifecycle!Close(s)
      BY <2>1, <2>2, <2>3, <3>2, <3>3, StageMapStep DEF Lifecycle!Close
    <3>5. QED
      BY <3>4 DEF Lifecycle!Next
  <2>6. CASE queue' = Append(queue, s)
    <3>1. /\ Len(queue') = Len(queue) + 1 /\ Len(queue) \in Nat
          /\ \A i \in 1..Len(queue) : queue'[i] = queue[i]
          /\ queue'[Len(queue) + 1] = s
      BY <2>6, AppendFacts DEF FullInv, TypeOK
    <3>2. \A r \in Scans \ {s} : Queued(r)' <=> Queued(r)
      <4>1. \A i \in 1..Len(queue') : i = Len(queue) + 1 \/ i \in 1..Len(queue)
        BY <3>1
      <4>2. \A i \in 1..Len(queue) : i \in 1..Len(queue')
        BY <3>1
      <4>3. QED
        BY <3>1, <4>1, <4>2 DEF Queued
    <3>3. Queued(s)'
      BY <3>1 DEF Queued
    <3>4. StageOf(s)' = "waiting"
      BY <3>3 DEF StageOf
    <3>5. \A r \in Scans \ {s} : StageOf(r)' = StageOf(r)
      BY <2>1, <2>4, <3>2, SameStage
    <3>6. Lifecycle!Send(s)
      BY <2>1, <2>2, <2>3, <3>4, <3>5, StageMapStep DEF Lifecycle!Send
    <3>7. QED
      BY <3>6 DEF Lifecycle!Next
  <2>7. QED
    BY <2>1, <2>5, <2>6
<1>3. ASSUME NEW s \in Scans, CancelScan(s)
      PROVE  [Lifecycle!Next]_(Lifecycle!vars)
  <2>1. /\ scans[s].status \in {"pending", "running"} /\ scans'[s].status = "cancelled"
        /\ \A r \in Scans \ {s} : scans'[r] = scans[r]
        /\ UNCHANGED <<request, queue, worker>>
    BY <1>3 DEF CancelScan, FullInv, TypeOK, Row
  <2>2. \A r \in Scans : StageOf(r)' = StageOf(r)
    BY <2>1, SameStage DEF Queued, Held
  <2>3. Lifecycle!Cancel(s)
    BY <2>1, <2>2, StatusMapStep DEF Lifecycle!Cancel
  <2>4. QED
    BY <2>3 DEF Lifecycle!Next
<1>4. ASSUME UNCHANGED <<scans, request, queue, worker>>
      PROVE  [Lifecycle!Next]_(Lifecycle!vars)
  <2>1. \A r \in Scans : StageOf(r)' = StageOf(r)
    BY <1>4, SameStage DEF Queued, Held
  <2>2. QED
    BY <1>4, <2>1, StutterMap
<1>5. ASSUME NEW w \in Workers, Pop(w) \/ PopAfterStop(w)
      PROVE  [Lifecycle!Next]_(Lifecycle!vars)
  <2>0. PICK h \in Scans : h = Head(queue)
    BY <1>5, TakenJob DEF Pop, PopAfterStop, FullInv
  <2>1. /\ OneJob /\ OneJob' /\ TakeJob /\ worker[w].pc = "BRPop"
        /\ UNCHANGED <<scans, request>>
        /\ \/ worker' = [worker EXCEPT ![w] = AtLoop("exited")]
           \/ worker' = [worker EXCEPT ![w] =
                 [pc |-> "initializing", scan |-> h,
                  attempt |-> 1, err |-> "none"]]
    BY <1>0, <1>5, <2>0 DEF Pop, PopAfterStop, FullInv, ReliableInv
  <2>2. /\ h = queue[1] /\ 1 \in 1..Len(queue)
        /\ \A i \in 1..Len(queue') :
              i + 1 \in 1..Len(queue) /\ queue'[i] = queue[i + 1]
        /\ Requested(h) /\ scans[h].status # "absent"
    BY <2>0, <2>1, TakenJob DEF FullInv, RowInv, JobsRequested, Requested
  <2>3. Queued(h) /\ ~Queued(h)' /\ ~Held(h)
    <3>1. \A i \in 1..Len(queue') : i + 1 # 1 /\ queue[i + 1] # queue[1]
      BY <2>1, <2>2 DEF OneJob
    <3>2. ~Queued(h)'
      BY <2>2, <3>1 DEF Queued
    <3>3. Queued(h) /\ ~Held(h)
      BY <2>1, <2>2 DEF Queued, Held, OneJob
    <3>4. QED
      BY <3>2, <3>3
  <2>4. \A r \in Scans \ {h} : Queued(r)' <=> Queued(r)
    <3>1. \A i \in 1..Len(queue) : i = 1 \/ (i - 1 \in 1..Len(queue') /\ queue'[i - 1] = queue[i])
      BY <2>1 DEF TakeJob, FullInv, TypeOK
    <3>2. ASSUME NEW r \in Scans \ {h}, Queued(r) PROVE Queued(r)'
      <4>1. PICK i \in 1..Len(queue) : queue[i] = r
        BY <3>2 DEF Queued
      <4>2. QED
        BY <2>2, <3>1, <4>1 DEF Queued
    <3>3. ASSUME NEW r \in Scans \ {h}, Queued(r)' PROVE Queued(r)
      <4>1. PICK i \in 1..Len(queue') : queue'[i] = r
        BY <3>3 DEF Queued
      <4>2. QED
        BY <2>2, <4>1 DEF Queued
    <3>4. QED
      BY <3>2, <3>3
  <2>5. /\ worker[w].scan = NoScan
        /\ \A v \in Workers \ {w} : worker'[v] = worker[v]
        /\ worker'[w].scan \in {h, NoScan}
    BY <2>1 DEF AtLoop, FullInv, TypeOK, JobShape
  <2>6. \A r \in Scans \ {h} : Held(r)' <=> Held(r)
    BY <2>5, ConstantsOK DEF Held
  <2>7. \A r \in Scans \ {h} : StageOf(r)' = StageOf(r)
    BY <2>1, <2>4, <2>6, SameStage
  <2>8. StageOf(h) = "waiting"
    BY <2>3 DEF StageOf
  <2>9. CASE worker'[w].scan = h
    <3>1. StageOf(h)' = "working"
      BY <2>3, <2>9 DEF StageOf, Held
    <3>2. Lifecycle!Claim(h)
      BY <2>1, <2>2, <2>7, <2>8, <3>1, StageMapStep DEF Lifecycle!Claim
    <3>3. QED
      BY <2>2, <3>2 DEF Lifecycle!Next
  <2>10. CASE worker'[w].scan = NoScan
    <3>1. ~Held(h)'
      BY <2>2, <2>3, <2>5, <2>10, ConstantsOK DEF Held
    <3>2. StageOf(h)' = "closed"
      BY <2>1, <2>2, <2>3, <3>1 DEF StageOf, Requested
    <3>3. Lifecycle!Close(h)
      BY <2>1, <2>2, <2>7, <2>8, <3>2, StageMapStep DEF Lifecycle!Close
    <3>4. QED
      BY <2>2, <3>3 DEF Lifecycle!Next
  <2>11. QED
    BY <2>5, <2>9, <2>10
<1>6. ASSUME NEW w \in Workers, worker[w].scan # NoScan,
             UNCHANGED <<scans, queue, request>>,
             \A v \in Workers \ {w} : worker'[v] = worker[v],
             worker'[w].scan \in {worker[w].scan, NoScan}
      PROVE  [Lifecycle!Next]_(Lifecycle!vars)
  <2>1. PICK s \in Scans : s = worker[w].scan
    BY <1>6 DEF FullInv, TypeOK, WorkerState
  <2>2. QED
    BY <1>6, <2>1, HolderMoves
<1>7. ASSUME NEW w \in Workers,
             \/ SetScanPhase(w) \/ ScanImage(w) \/ PublishCompleted(w)
             \/ PublishFailed(w) \/ Retry(w)
      PROVE  [Lifecycle!Next]_(Lifecycle!vars)
  <2>1. worker[w].pc \notin {"BRPop", "exited"}
    BY <1>7 DEF SetScanPhase, ScanImage, PublishCompleted, PublishFailed, Retry, Phases
  <2>2. worker[w].scan # NoScan
    BY <2>1 DEF FullInv, JobShape
  <2>3. UNCHANGED <<scans, queue, request>>
    BY <1>7 DEF SetScanPhase, ScanImage, PublishCompleted, PublishFailed, Retry
  <2>4. \/ \E pc \in Calls : Goto(w, pc)
        \/ \E err \in Failure : Fail(w, err)
        \/ ReturnError(w)
        \/ worker' = [worker EXCEPT ![w] = AtLoop("BRPop")]
        \/ Retry(w)
    <3>1. SetScanPhase(w) => \E pc \in Calls : Goto(w, pc)
      BY PhaseCalls DEF SetScanPhase, Calls
    <3>2. ScanImage(w) => (\E pc \in Calls : Goto(w, pc)) \/ (\E err \in Failure : Fail(w, err))
      BY DEF ScanImage, Calls, Phases, Failure
    <3>3. PublishFailed(w) => (\E pc \in Calls : Goto(w, pc)) \/ ReturnError(w)
      BY DEF PublishFailed, Calls
    <3>4. QED
      BY <1>7, <3>1, <3>2, <3>3 DEF PublishCompleted
  <2>5. Retry(w) => /\ worker'[w].scan = worker[w].scan
                    /\ \A v \in Workers \ {w} : worker'[v] = worker[v]
    BY DEF Retry, FullInv, TypeOK, WorkerState
  <2>6. /\ \A v \in Workers \ {w} : worker'[v] = worker[v]
        /\ worker'[w].scan \in {worker[w].scan, NoScan}
    BY <2>4, <2>5, GotoFacts, FailFacts, ReturnFacts, LoopFacts DEF FullInv
  <2>7. QED
    BY <1>6, <2>2, <2>3, <2>6
<1>8. ASSUME NEW w \in Workers, UpdateScanRunning(w) \/ PersistScanResults(w)
      PROVE  [Lifecycle!Next]_(Lifecycle!vars)
  <2>1. worker[w].pc \in {"UpdateScanRunning", "PersistScanResults"}
    BY <1>8 DEF UpdateScanRunning, PersistScanResults
  <2>2. PICK s \in Scans : s = worker[w].scan
    BY <2>1, WorksOnScan DEF FullInv
  <2>3. /\ Fits(worker[w], scans[s]) /\ OneJob
        /\ worker[w].scan # NoScan
    BY <2>1, <2>2, AtWork DEF FullInv
  <2>4. /\ UNCHANGED <<queue, request>>
        /\ \/ UNCHANGED scans
           \/ /\ worker[w].pc = "UpdateScanRunning"
              /\ scans' = [scans EXCEPT ![s] = RunningRow(scans[s])]
           \/ /\ worker[w].pc = "PersistScanResults"
              /\ scans' = [scans EXCEPT ![s] = CompletedRow(scans[s])]
        /\ (\E pc \in Calls : Goto(w, pc)) \/ (\E err \in Failure : Fail(w, err))
    BY <1>8, <2>2 DEF UpdateScanRunning, PersistScanResults, Calls, Phases, Failure
  <2>5. /\ worker'[w].scan = s
        /\ \A v \in Workers \ {w} : worker'[v] = worker[v]
    BY <2>2, <2>4, GotoFacts, FailFacts DEF FullInv
  <2>6. CASE UNCHANGED scans
    BY <1>6, <2>2, <2>3, <2>4, <2>5, <2>6
  <2>7. CASE /\ worker[w].pc = "UpdateScanRunning"
             /\ scans' = [scans EXCEPT ![s] = RunningRow(scans[s])]
    <3>1. PICK row \in Row : row = RunningRow(scans[s])
      BY RowUpdates DEF FullInv, TypeOK, Failure
    <3>2. /\ row.status = "running"
          /\ scans[s].status # "completed"
      BY <2>3, <2>7, <3>1
         DEF RunningRow, Fits, Between, AfterCommit, FullInv, TypeOK, Row
    <3>3. StageOf(s) = "working" /\ Lifecycle!SetStatus(s, row.status)
      BY <2>2, <2>3, <2>4, <2>5, <2>7, <3>1, HolderSets
    <3>4. Lifecycle!Start(s)
      BY <3>2, <3>3 DEF Lifecycle!Start
    <3>5. QED
      BY <3>4 DEF Lifecycle!Next
  <2>8. CASE /\ worker[w].pc = "PersistScanResults"
             /\ scans' = [scans EXCEPT ![s] = CompletedRow(scans[s])]
    <3>1. PICK row \in Row : row = CompletedRow(scans[s])
      BY RowUpdates DEF FullInv, TypeOK, Failure
    <3>2. /\ row.status = "completed"
          /\ scans[s].status \in {"running", "cancelled"}
      BY <2>3, <2>8, <3>1
         DEF CompletedRow, Fits, Between, AfterCommit, FullInv, TypeOK, Row
    <3>3. StageOf(s) = "working" /\ Lifecycle!SetStatus(s, row.status)
      BY <2>2, <2>3, <2>4, <2>5, <2>8, <3>1, HolderSets
    <3>4. Lifecycle!Complete(s)
      BY <3>2, <3>3 DEF Lifecycle!Complete
    <3>5. QED
      BY <3>4 DEF Lifecycle!Next
  <2>9. QED
    BY <2>4, <2>6, <2>7, <2>8
<1>9. ASSUME NEW w \in Workers, UpdateScanFailed(w)
      PROVE  [Lifecycle!Next]_(Lifecycle!vars)
  <2>1. worker[w].pc = "UpdateScanFailed"
    BY <1>9 DEF UpdateScanFailed
  <2>2. PICK s \in Scans : s = worker[w].scan
    BY <2>1, WorksOnScan DEF FullInv
  <2>3. /\ scans[s].status # "completed" /\ OneJob
        /\ worker[w].scan # NoScan
    BY <2>1, <2>2, AtWork DEF FullInv, Fits, AfterCommit
  <2>4. PICK row \in Row : row = FailedRow(scans[s], worker[w].err)
    BY RowUpdates DEF FullInv, TypeOK, WorkerState
  <2>5. row.status = "failed"
    BY <2>4 DEF FailedRow, FullInv, TypeOK, Row
  <2>6. /\ UNCHANGED <<queue, request>>
        /\ UNCHANGED scans \/ scans' = [scans EXCEPT ![s] = row]
        /\ ReturnError(w) \/ Goto(w, "publishFailed")
    BY <1>9, <2>2, <2>4 DEF UpdateScanFailed
  <2>7. /\ worker'[w].scan \in {s, NoScan}
        /\ \A v \in Workers \ {w} : worker'[v] = worker[v]
    BY <2>2, <2>6, GotoFacts, ReturnFacts DEF Calls, FullInv
  <2>8. CASE UNCHANGED scans
    BY <1>6, <2>2, <2>3, <2>6, <2>7, <2>8
  <2>9. CASE scans' = [scans EXCEPT ![s] = row] /\ worker'[w].scan = s
    <3>1. StageOf(s) = "working" /\ Lifecycle!SetStatus(s, row.status)
      BY <2>2, <2>3, <2>6, <2>7, <2>9, HolderSets
    <3>2. Lifecycle!Fail(s)
      BY <2>3, <2>5, <3>1 DEF Lifecycle!Fail
    <3>3. QED
      BY <3>2 DEF Lifecycle!Next
  <2>10. CASE scans' = [scans EXCEPT ![s] = row] /\ worker'[w].scan = NoScan
    <3>1. /\ StageOf(s) = "working" /\ StageOf(s)' = "closed"
          /\ \A r \in Scans \ {s} : StageOf(r)' = StageOf(r)
      BY <2>2, <2>3, <2>6, <2>7, <2>10, HolderStage
    <3>2. /\ scans'[s].status = "failed"
          /\ \A r \in Scans \ {s} : scans'[r] = scans[r]
      BY <2>5, <2>10 DEF FullInv, TypeOK
    <3>3. Lifecycle!FailLast(s)
      BY <2>3, <3>1, <3>2 DEF Lifecycle!FailLast
    <3>4. QED
      BY <3>3 DEF Lifecycle!Next
  <2>11. QED
    BY <2>6, <2>7, <2>8, <2>9, <2>10
<1>10. ASSUME NEW w \in Workers, Unwind(w)
       PROVE  [Lifecycle!Next]_(Lifecycle!vars)
  <2>1. /\ worker'[w].scan = NoScan /\ UNCHANGED <<scans, queue, request>>
        /\ \A v \in Workers \ {w} : worker'[v] = worker[v]
    BY <1>10, LoopFacts DEF Unwind, FullInv
  <2>2. CASE worker[w].scan # NoScan
    BY <1>6, <2>1, <2>2
  <2>3. CASE worker[w].scan = NoScan
    <3>1. \A r \in Scans : Held(r)' <=> Held(r)
      BY <2>1, <2>3, ConstantsOK DEF Held
    <3>2. \A r \in Scans : StageOf(r)' = StageOf(r)
      BY <2>1, <3>1, SameStage DEF Queued
    <3>3. QED
      BY <2>1, <3>2, StutterMap
  <2>4. QED
    BY <2>2, <2>3
<1>11. CASE Kill \/ Restart
  <2>1. /\ UNCHANGED <<scans, queue, request>>
        /\ \A w \in Workers : worker'[w].scan = NoScan
    BY <1>11 DEF Kill, Restart, AtLoop
  <2>2. PICK S \in SUBSET Scans : \A r \in Scans : r \in S <=> Held(r)
    <3>1. {r \in Scans : Held(r)} \in SUBSET Scans
      OBVIOUS
    <3>2. QED
      BY <3>1
  <2>3. \A r \in Scans : ~Held(r)' /\ (Queued(r)' <=> Queued(r))
    BY <2>1, ConstantsOK DEF Held, Queued
  <2>4. ASSUME NEW r \in S
        PROVE  StageOf(r) = "working" /\ StageOf(r)' = "closed"
    <3>1. /\ Held(r) /\ r \in Scans /\ ~Queued(r)
      BY <2>2, <2>4 DEF OneJob, Held, Queued
    <3>2. Requested(r) /\ request'[r] = request[r]
      BY <2>1, <3>1, ConstantsOK DEF FullInv, RowInv, JobsRequested, Held
    <3>3. QED
      BY <2>3, <3>1, <3>2 DEF StageOf, Requested
  <2>5. \A r \in Scans \ S : StageOf(r)' = StageOf(r)
    BY <2>1, <2>2, <2>3, SameStage
  <2>6. Lifecycle!CloseAll(S)
    BY <2>1, <2>4, <2>5 DEF Lifecycle!CloseAll
  <2>7. QED
    BY <2>6 DEF Lifecycle!Next
<1>12. QED
  BY <1>1, <1>2, <1>3, <1>4, <1>5, <1>7, <1>8, <1>9, <1>10, <1>11
     DEF Next, Api, WorkerStep, Stopping, CreateScan, RerunScan, ExpirePhase,
         SigTerm, vars

LEMMA RefinementInit == Init => Lifecycle!Init
<1> SUFFICES ASSUME Init PROVE Lifecycle!Init
  OBVIOUS
<1>1. \A s \in Scans : ~Queued(s) /\ ~Held(s) /\ request[s] = "none"
  <2>1. \A i \in 1..Len(queue) : FALSE
    BY DEF Init
  <2>2. \A w \in Workers : worker[w].scan = NoScan
    BY DEF Init, AtLoop
  <2>3. \A s \in Scans : request[s] = "none" /\ s # NoScan
    BY ConstantsOK DEF Init
  <2>4. QED
    BY <2>1, <2>2, <2>3 DEF Queued, Held
<1>2. \A s \in Scans : StageOf(s) = "unsent" /\ scans[s].status = "absent"
  BY <1>1 DEF StageOf, Init, NoRow
<1>3. QED
  BY <1>2 DEF Lifecycle!Init

(* If no reply can be lost, the pipeline keeps the promises of             *)
(* ScanLifecycle, whatever calls fail and whenever the process stops: each *)
(* job is delivered at most once, only its holder starts, completes or     *)
(* fails the scan, and nothing follows a completion.                       *)
THEOREM PipelineImplementsLifecycle ==
    ASSUME MaxLostReplies = 0
    PROVE  Spec => ImplementsLifecycle
<1>1. FullInv /\ FullInv' /\ [Next]_vars => [Lifecycle!Next]_(Lifecycle!vars)
  BY RefinementStep
<1>2. QED
  BY <1>1, RefinementInit, FullAlways, PTL
     DEF Spec, ImplementsLifecycle, Lifecycle!Spec
=============================================================================
