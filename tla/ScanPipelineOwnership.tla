------------------------ MODULE ScanPipelineOwnership ------------------------
(* What ScanPipeline guarantees as long as no reply was lost: a scan has   *)
(* one job, the place of its worker fits the row, and so an outcome, once  *)
(* final, is never overwritten although no UPDATE looks at the status.     *)
(* With one error at most, or none, also how every job ends.               *)
EXTENDS ScanPipelineProofs

-----------------------------------------------------------------------------
(* Second layer: the one job of a scan *)

OneJob ==
    /\ \A i, j \in 1..Len(queue) : queue[i] = queue[j] => i = j
    /\ \A i \in 1..Len(queue) : \A w \in Workers : worker[w].scan # queue[i]
    /\ \A v, w \in Workers :
          worker[v].scan = worker[w].scan /\ worker[v].scan # NoScan => v = w

Between == {"scanning", "ScanImage", "persisting", "PersistScanResults"}

PullFailed(row) == row.status = "failed" /\ row.error = "pull"

(* What the place of a worker says of the status of the scan it holds. *)
Fits(job, row) ==
    /\ job.pc \in Between => row.status \in {"running", "cancelled"}
    /\ job.pc \in AfterCommit <=> row.status = "completed"
    /\ PullFailed(row) => job.pc = "publishFailed" /\ job.err = "pull"

Outcome ==
    /\ \A w \in Workers :
          worker[w].scan # NoScan => Fits(worker[w], scans[worker[w].scan])
    /\ \A i \in 1..Len(queue) :
          /\ scans[queue[i]].status # "completed"
          /\ ~PullFailed(scans[queue[i]])
    /\ \A s \in Scans :
          /\ phase[s] = "completed" => scans[s].status = "completed"
          /\ request[s] = "inserted" => scans[s].status \in {"pending", "cancelled"}

ReliableInv == lostReplies = 0 => OneJob /\ Outcome

(* A step of the worker that holds s touches nothing of the other scans.   *)
LEMMA StepOfHolder ==
    ASSUME TypeOK, OneJob, Outcome, NEW s \in Scans, NEW w \in Workers,
           worker[w].scan = s, UNCHANGED <<queue, request>>,
           request[s] # "inserted",
           \A v \in Workers \ {w} : worker'[v] = worker[v],
           \A r \in Scans \ {s} : scans'[r] = scans[r] /\ phase'[r] = phase[r],
           \/ worker'[w].scan = s /\ Fits(worker'[w], scans'[s])
           \/ worker'[w].scan = NoScan,
           phase'[s] = "completed" => scans'[s].status = "completed"
    PROVE  OneJob' /\ Outcome'
<1>1. OneJob'
  <2>1. \A v \in Workers : worker'[v].scan \in {worker[v].scan, NoScan}
    OBVIOUS
  <2>2. \A i \in 1..Len(queue) : queue[i] # NoScan
    BY ConstantsOK DEF TypeOK
  <2>3. QED
    BY <2>1, <2>2 DEF OneJob
<1>2. ASSUME NEW v \in Workers, worker'[v].scan # NoScan
      PROVE  Fits(worker'[v], scans'[worker'[v].scan])
  <2>1. CASE v = w
    BY <1>2, <2>1
  <2>2. CASE v # w
    <3>1. worker'[v] = worker[v] /\ worker[v].scan \in Scans \ {s}
      BY <1>2, <2>2, ConstantsOK DEF OneJob, TypeOK, WorkerState
    <3>2. scans'[worker[v].scan] = scans[worker[v].scan]
      BY <3>1
    <3>3. QED
      BY <1>2, <3>1, <3>2 DEF Outcome
  <2>3. QED
    BY <2>1, <2>2
<1>3. ASSUME NEW i \in 1..Len(queue)
      PROVE  /\ scans'[queue[i]].status # "completed"
             /\ ~PullFailed(scans'[queue[i]])
  <2>1. queue[i] \in Scans \ {s}
    BY DEF OneJob, TypeOK
  <2>2. scans'[queue[i]] = scans[queue[i]]
    BY <2>1
  <2>3. QED
    BY <2>2 DEF Outcome
<1>4. (\A r \in Scans :
         /\ phase[r] = "completed" => scans[r].status = "completed"
         /\ request[r] = "inserted" => scans[r].status \in {"pending", "cancelled"})'
  BY DEF Outcome
<1>5. (\A v \in Workers :
         worker[v].scan # NoScan => Fits(worker[v], scans[worker[v].scan]))'
  BY <1>2 DEF Fits
<1>6. (\A i \in 1..Len(queue) :
         /\ scans[queue[i]].status # "completed"
         /\ ~PullFailed(scans[queue[i]]))'
  BY <1>3 DEF PullFailed
<1>7. QED
  BY <1>1, <1>4, <1>5, <1>6 DEF Outcome

(* Without a lost reply before or in the step. *)
LEMMA NoReplyLost ==
    ASSUME TypeOK, lostReplies' = 0, CallOk \/ CallFails \/ ReplyLost
    PROVE  lostReplies = 0 /\ ~ReplyLost
BY DEF TypeOK, CallOk, CallFails, ReplyLost, faultVars

(* A worker in the middle of a job. *)
LEMMA AtWork ==
    ASSUME TypeOK, JobShape, RowInv, Outcome, NEW w \in Workers,
           worker[w].pc \notin {"BRPop", "exited"}
    PROVE  /\ worker[w].scan \in Scans
           /\ worker[w].scan # NoScan
           /\ request[worker[w].scan] # "inserted"
           /\ Fits(worker[w], scans[worker[w].scan])
BY WorksOnScan, ConstantsOK DEF RowInv, JobsRequested, Requested, Outcome, JobShape

(* Workers that leave their jobs, and nothing else that matters here. *)
LEMMA LeaveJobs ==
    ASSUME TypeOK, OneJob, Outcome, UNCHANGED <<scans, request, queue, phase>>,
           \A v \in Workers : worker'[v] = worker[v] \/ worker'[v].scan = NoScan
    PROVE  OneJob' /\ Outcome'
<1>1. \A i \in 1..Len(queue) : queue[i] # NoScan
  BY ConstantsOK DEF TypeOK
<1>2. OneJob'
  BY <1>1 DEF OneJob
<1>3. Outcome'
  BY DEF Outcome, Fits, PullFailed
<1>4. QED
  BY <1>2, <1>3

LEMMA ReliableStep ==
    TypeOK /\ JobShape /\ RowInv /\ ReliableInv /\ [Next]_vars => ReliableInv'
<1> SUFFICES ASSUME TypeOK, JobShape, RowInv, ReliableInv, [Next]_vars,
                    lostReplies' = 0
             PROVE  OneJob' /\ Outcome'
  BY DEF ReliableInv
<1>1. ASSUME NEW s \in Scans, request[s] = "none", InsertManualScan(s)
      PROVE  OneJob' /\ Outcome'
  <2>0. \A r \in Scans \ {s} : request'[r] = request[r]
    BY <1>1 DEF InsertManualScan, TypeOK
  <2>1. /\ scans'[s] = [NoRow EXCEPT !.status = "pending"]
        /\ \A r \in Scans \ {s} : scans'[r] = scans[r]
        /\ UNCHANGED <<queue, worker, phase>> /\ OneJob /\ Outcome
    BY <1>1 DEF InsertManualScan, TypeOK, ReliableInv, faultVars
  <2>2. /\ \A i \in 1..Len(queue) : queue[i] \in Scans \ {s}
        /\ \A w \in Workers : worker[w].scan # NoScan => worker[w].scan \in Scans \ {s}
    <3>1. ~Requested(s)
      BY <1>1 DEF Requested
    <3>2. /\ \A i \in 1..Len(queue) : queue[i] \in Scans
          /\ \A w \in Workers : worker[w].scan \in Scans \cup {NoScan}
      BY DEF TypeOK, WorkerState
    <3>3. QED
      BY <3>1, <3>2 DEF RowInv, JobsRequested
  <2>3. phase[s] # "completed"
    BY <1>1, <2>1 DEF RowInv, JobsRequested, NoRow, Outcome
  <2>4. OneJob'
    BY <2>1 DEF OneJob
  <2>5. Outcome'
    BY <2>0, <2>1, <2>2, <2>3 DEF Outcome, Fits, PullFailed, NoRow
  <2>6. QED
    BY <2>4, <2>5
<1>2. ASSUME NEW s \in Scans, Enqueue(s) PROVE OneJob' /\ Outcome'
  <2>1. /\ request[s] = "inserted" /\ OneJob /\ Outcome
        /\ queue' = Append(queue, s)
        /\ UNCHANGED <<scans, worker, phase>>
    BY <1>2, NoReplyLost DEF Enqueue, ReliableInv
  <2>2. /\ \A i \in 1..Len(queue) : queue[i] # s
        /\ \A w \in Workers : worker[w].scan # s
    BY <2>1, ConstantsOK DEF RowInv, JobsRequested, Requested
  <2>3. /\ Len(queue') = Len(queue) + 1 /\ Len(queue) \in Nat
        /\ \A i \in 1..Len(queue) : queue'[i] = queue[i]
        /\ queue'[Len(queue) + 1] = s
    BY <2>1, AppendFacts DEF TypeOK
  <2>4. \A i \in 1..Len(queue') : i = Len(queue) + 1 \/ i \in 1..Len(queue)
    BY <2>3
  <2>5. OneJob'
    <3>1. (\A i, j \in 1..Len(queue) : queue[i] = queue[j] => i = j)'
      BY <2>1, <2>2, <2>3, <2>4 DEF OneJob
    <3>2. (\A i \in 1..Len(queue) : \A w \in Workers : worker[w].scan # queue[i])'
      BY <2>1, <2>2, <2>3, <2>4 DEF OneJob
    <3>3. QED
      BY <2>1, <3>1, <3>2 DEF OneJob
  <2>6. /\ scans[s].status # "completed" /\ ~PullFailed(scans[s])
        /\ request'[s] # "inserted"
        /\ \A r \in Scans \ {s} : request'[r] = request[r]
    BY <1>2, <2>1 DEF Enqueue, Outcome, PullFailed, TypeOK
  <2>7. Outcome'
    BY <2>1, <2>3, <2>4, <2>6 DEF Outcome, Fits, PullFailed
  <2>8. QED
    BY <2>5, <2>7
<1>3. ASSUME NEW s \in Scans, AbandonRequest(s) PROVE OneJob' /\ Outcome'
  <2>1. /\ OneJob /\ Outcome /\ request'[s] # "inserted"
        /\ \A r \in Scans \ {s} : request'[r] = request[r]
        /\ UNCHANGED <<scans, worker, phase, queue>>
    BY <1>3 DEF AbandonRequest, ReliableInv, CallFails, TypeOK
  <2>2. QED
    BY <2>1 DEF OneJob, Outcome, Fits, PullFailed
<1>4. ASSUME NEW s \in Scans, CancelScan(s) PROVE OneJob' /\ Outcome'
  <2>1. /\ OneJob /\ Outcome /\ scans'[s].status = "cancelled"
        /\ scans[s].status \in {"pending", "running"}
        /\ \A r \in Scans \ {s} : scans'[r] = scans[r]
        /\ UNCHANGED <<request, worker, phase, queue>>
    BY <1>4 DEF CancelScan, ReliableInv, faultVars, TypeOK, Row
  <2>2. OneJob'
    BY <2>1 DEF OneJob
  <2>3. ASSUME NEW w \in Workers, worker[w].scan # NoScan
        PROVE  Fits(worker'[w], scans'[worker'[w].scan])
    <3>1. Fits(worker[w], scans[worker[w].scan]) /\ worker[w].scan \in Scans
      BY <2>1, <2>3 DEF Outcome, TypeOK, WorkerState
    <3>2. CASE worker[w].scan = s
      BY <2>1, <3>1, <3>2 DEF Fits, PullFailed
    <3>3. CASE worker[w].scan # s
      BY <2>1, <3>1, <3>3 DEF Fits, PullFailed
    <3>4. QED
      BY <3>2, <3>3
  <2>4. ASSUME NEW i \in 1..Len(queue)
        PROVE  scans'[queue[i]].status # "completed" /\ ~PullFailed(scans'[queue[i]])
    <3>1. /\ scans[queue[i]].status # "completed" /\ ~PullFailed(scans[queue[i]])
          /\ queue[i] \in Scans
      BY <2>1, <2>4 DEF Outcome, TypeOK
    <3>2. QED
      BY <2>1, <3>1 DEF PullFailed
  <2>5. (\A w \in Workers :
           worker[w].scan # NoScan => Fits(worker[w], scans[worker[w].scan]))'
    BY <2>1, <2>3 DEF Fits
  <2>6. (\A i \in 1..Len(queue) :
           /\ scans[queue[i]].status # "completed"
           /\ ~PullFailed(scans[queue[i]]))'
    BY <2>1, <2>4 DEF PullFailed
  <2>7. (\A r \in Scans :
           /\ phase[r] = "completed" => scans[r].status = "completed"
           /\ request[r] = "inserted" => scans[r].status \in {"pending", "cancelled"})'
    BY <2>1 DEF Outcome
  <2>8. QED
    BY <2>2, <2>5, <2>6, <2>7 DEF Outcome
<1>5. ASSUME NEW s \in Scans, ExpirePhase(s) PROVE OneJob' /\ Outcome'
  <2>1. /\ OneJob /\ Outcome /\ phase'[s] = "none"
        /\ \A r \in Scans \ {s} : phase'[r] = phase[r]
        /\ UNCHANGED <<scans, request, worker, queue>>
    BY <1>5 DEF ExpirePhase, ReliableInv, faultVars, TypeOK
  <2>2. QED
    BY <2>1 DEF OneJob, Outcome, Fits, PullFailed
<1>6. ASSUME NEW w \in Workers, Pop(w) \/ PopAfterStop(w)
      PROVE  OneJob' /\ Outcome'
  <2>1. /\ OneJob /\ Outcome /\ TakeJob
        /\ UNCHANGED <<scans, request, phase>>
        /\ \/ worker' = [worker EXCEPT ![w] = AtLoop("exited")]
           \/ worker' = [worker EXCEPT ![w] =
                 [pc |-> "initializing", scan |-> Head(queue),
                  attempt |-> 1, err |-> "none"]]
    BY <1>6, NoReplyLost DEF Pop, PopAfterStop, ReliableInv, faultVars
  <2> DEFINE h == Head(queue)
  <2>2. /\ h \in Scans /\ h = queue[1] /\ 1 \in 1..Len(queue)
        /\ \A i \in 1..Len(queue') :
              i + 1 \in 1..Len(queue) /\ queue'[i] = queue[i + 1]
    BY <2>1, TakenJob
  <2> HIDE DEF h
  <2>3. \A i \in 1..Len(queue') : queue'[i] # h /\ queue'[i] # NoScan
    <3>1. \A i \in 1..Len(queue') : i + 1 # 1 /\ queue[i + 1] # queue[1]
      BY <2>1, <2>2 DEF OneJob
    <3>2. QED
      BY <2>2, <3>1, ConstantsOK DEF TypeOK
  <2>4. \A v \in Workers : worker[v].scan # h
    BY <2>1, <2>2 DEF OneJob
  <2>5. /\ \A v \in Workers \ {w} : worker'[v] = worker[v]
        /\ \/ worker'[w].scan = NoScan
           \/ worker'[w].scan = h /\ worker'[w].pc = "initializing"
    BY <2>1 DEF AtLoop, TypeOK, h
  <2>6. (\A i, j \in 1..Len(queue) : queue[i] = queue[j] => i = j)'
    <3>1. \A i, j \in 1..Len(queue') : queue'[i] = queue'[j] => i + 1 = j + 1
      BY <2>1, <2>2 DEF OneJob
    <3>2. QED
      BY <3>1
  <2>7. OneJob'
    <3>1. (\A i \in 1..Len(queue) : \A v \in Workers : worker[v].scan # queue[i])'
      BY <2>1, <2>2, <2>3, <2>5 DEF OneJob
    <3>2. (\A u, v \in Workers :
             worker[u].scan = worker[v].scan /\ worker[u].scan # NoScan => u = v)'
      BY <2>1, <2>4, <2>5 DEF OneJob
    <3>3. QED
      BY <2>6, <3>1, <3>2 DEF OneJob
  <2>8. Outcome'
    <3>1. scans[h].status # "completed" /\ ~PullFailed(scans[h])
      BY <2>1, <2>2 DEF Outcome
    <3>2. (\A v \in Workers :
             worker[v].scan # NoScan => Fits(worker[v], scans[worker[v].scan]))'
      BY <2>1, <2>5, <3>1 DEF Outcome, Fits, PullFailed, Between, AfterCommit
    <3>3. (\A i \in 1..Len(queue) :
             /\ scans[queue[i]].status # "completed"
             /\ ~PullFailed(scans[queue[i]]))'
      BY <2>1, <2>2 DEF Outcome, PullFailed
    <3>4. QED
      BY <2>1, <3>2, <3>3 DEF Outcome
  <2>9. QED
    BY <2>7, <2>8
<1>7. ASSUME NEW w \in Workers, SetScanPhase(w) PROVE OneJob' /\ Outcome'
  <2> DEFINE next == CallAfterPhase(worker[w].pc, worker[w].err)
             s == worker[w].scan
  <2>1. /\ worker[w].pc \in Phases /\ next \in Calls /\ OneJob /\ Outcome
        /\ next \in Between <=> worker[w].pc \in Between
        /\ next \in AfterCommit <=> worker[w].pc \in AfterCommit
    BY <1>7, PhaseCalls, NoReplyLost
       DEF SetScanPhase, Calls, ReliableInv, CallAfterPhase, Phases, Between,
           AfterCommit
  <2>2. s \in Scans /\ request[s] # "inserted" /\ Fits(worker[w], scans[s])
    BY <2>1, AtWork DEF Phases
  <2> HIDE DEF next, s
  <2>3. /\ Goto(w, next) /\ UNCHANGED <<scans, request, queue>>
        /\ phase' \in {phase, [phase EXCEPT ![s] = worker[w].pc]}
    BY <1>7 DEF SetScanPhase, next, s
  <2>4. /\ worker'[w].scan = s /\ worker'[w].pc = next
        /\ \A v \in Workers \ {w} : worker'[v] = worker[v]
    BY <2>1, <2>3, GotoFacts DEF s
  <2>5. Fits(worker'[w], scans'[s])
    BY <2>1, <2>2, <2>3, <2>4 DEF Fits, Phases, PullFailed
  <2>6. phase'[s] = "completed" => scans'[s].status = "completed"
    BY <2>1, <2>2, <2>3 DEF Outcome, Fits, AfterCommit, TypeOK
  <2>7. \A r \in Scans \ {s} : phase'[r] = phase[r]
    BY <2>3 DEF TypeOK
  <2>8. QED
    BY <2>1, <2>2, <2>3, <2>4, <2>5, <2>6, <2>7, StepOfHolder DEF s
<1>8. ASSUME NEW w \in Workers, UpdateScanRunning(w)
      PROVE  OneJob' /\ Outcome'
  <2> DEFINE s == worker[w].scan
  <2>1. /\ worker[w].pc = "UpdateScanRunning" /\ OneJob /\ Outcome
        /\ UNCHANGED <<request, queue, phase>>
        /\ \/ Goto(w, "scanning") /\ scans' = [scans EXCEPT ![s] = RunningRow(scans[s])]
           \/ Fail(w, "start") /\ UNCHANGED scans
    BY <1>8, NoReplyLost DEF UpdateScanRunning, ReliableInv
  <2>2. /\ s \in Scans /\ request[s] # "inserted"
        /\ scans[s].status # "completed" /\ ~PullFailed(scans[s])
    BY <2>1, AtWork DEF Fits, AfterCommit
  <2> HIDE DEF s
  <2>3. /\ worker'[w].scan = s /\ worker'[w].pc \in {"scanning", "failed"}
        /\ worker'[w].pc = "scanning" => scans' = [scans EXCEPT ![s] = RunningRow(scans[s])]
        /\ worker'[w].pc = "failed" => UNCHANGED scans
        /\ \A v \in Workers \ {w} : worker'[v] = worker[v]
    BY <2>1, GotoFacts, FailFacts DEF s, Calls, Phases, Failure
  <2>4. \A r \in Scans \ {s} : scans'[r] = scans[r]
    BY <2>3 DEF TypeOK
  <2>5. Fits(worker'[w], scans'[s])
    <3>1. worker'[w].pc = "scanning" => scans'[s].status = "running"
      <4>1. \A row \in Row : RunningRow(row).status = "running"
        BY DEF RunningRow, Row
      <4>2. QED
        BY <2>2, <2>3, <4>1 DEF TypeOK
    <3>2. QED
      BY <2>2, <2>3, <3>1 DEF Fits, PullFailed, Between, AfterCommit
  <2>6. phase'[s] = "completed" => scans'[s].status = "completed"
    BY <2>1, <2>2 DEF Outcome
  <2>7. QED
    BY <2>1, <2>2, <2>3, <2>4, <2>5, <2>6, StepOfHolder DEF s
<1>9. ASSUME NEW w \in Workers, ScanImage(w) PROVE OneJob' /\ Outcome'
  <2> DEFINE s == worker[w].scan
  <2>1. /\ worker[w].pc = "ScanImage" /\ OneJob /\ Outcome
        /\ UNCHANGED <<scans, request, queue, phase>>
        /\ Goto(w, "persisting") \/ Fail(w, "pull") \/ Fail(w, "scan")
    BY <1>9 DEF ScanImage, ReliableInv, faultVars
  <2>2. /\ s \in Scans /\ request[s] # "inserted"
        /\ scans[s].status \in {"running", "cancelled"}
    BY <2>1, AtWork DEF Fits, Between
  <2> HIDE DEF s
  <2>3. /\ worker'[w].scan = s /\ worker'[w].pc \in {"persisting", "failed"}
        /\ \A v \in Workers \ {w} : worker'[v] = worker[v]
    BY <2>1, GotoFacts, FailFacts DEF s, Calls, Phases, Failure
  <2>4. Fits(worker'[w], scans'[s])
    BY <2>1, <2>2, <2>3 DEF Fits, PullFailed, Between, AfterCommit
  <2>5. QED
    BY <2>1, <2>2, <2>3, <2>4, StepOfHolder DEF s, Outcome
<1>10. ASSUME NEW w \in Workers, PersistScanResults(w)
       PROVE  OneJob' /\ Outcome'
  <2> DEFINE s == worker[w].scan
  <2>1. /\ worker[w].pc = "PersistScanResults" /\ OneJob /\ Outcome
        /\ UNCHANGED <<request, queue, phase>>
        /\ \/ Goto(w, "completed") /\ scans' = [scans EXCEPT ![s] = CompletedRow(scans[s])]
           \/ Fail(w, "persist") /\ UNCHANGED scans
    BY <1>10, NoReplyLost DEF PersistScanResults, ReliableInv
  <2>2. /\ s \in Scans /\ request[s] # "inserted"
        /\ scans[s].status \in {"running", "cancelled"}
    BY <2>1, AtWork DEF Fits, Between
  <2> HIDE DEF s
  <2>3. /\ worker'[w].scan = s /\ worker'[w].pc \in {"completed", "failed"}
        /\ worker'[w].pc = "completed" => scans' = [scans EXCEPT ![s] = CompletedRow(scans[s])]
        /\ worker'[w].pc = "failed" => UNCHANGED scans
        /\ \A v \in Workers \ {w} : worker'[v] = worker[v]
    BY <2>1, GotoFacts, FailFacts DEF s, Calls, Phases, Failure
  <2>4. \A r \in Scans \ {s} : scans'[r] = scans[r]
    BY <2>3 DEF TypeOK
  <2>5. Fits(worker'[w], scans'[s])
    <3>1. worker'[w].pc = "completed" => scans'[s].status = "completed"
      <4>1. \A row \in Row : CompletedRow(row).status = "completed"
        BY DEF CompletedRow, Row
      <4>2. QED
        BY <2>2, <2>3, <4>1 DEF TypeOK
    <3>2. QED
      BY <2>2, <2>3, <3>1 DEF Fits, PullFailed, Between, AfterCommit
  <2>6. phase'[s] = "completed" => scans'[s].status = "completed"
    BY <2>1, <2>2 DEF Outcome
  <2>7. QED
    BY <2>1, <2>2, <2>3, <2>4, <2>5, <2>6, StepOfHolder DEF s
<1>11. ASSUME NEW w \in Workers, PublishCompleted(w) \/ Unwind(w)
       PROVE  OneJob' /\ Outcome'
  <2>1. /\ OneJob /\ Outcome /\ UNCHANGED <<scans, request, queue, phase>>
        /\ \E pc \in {"BRPop", "exited"} :
              worker' = [worker EXCEPT ![w] = AtLoop(pc)]
    BY <1>11, NoReplyLost DEF PublishCompleted, Unwind, ReliableInv, faultVars
  <2>2. \A v \in Workers : worker'[v] = worker[v] \/ worker'[v].scan = NoScan
    BY <2>1, LoopFacts
  <2>3. QED
    BY <2>1, <2>2, LeaveJobs
<1>12. ASSUME NEW w \in Workers, UpdateScanFailed(w)
       PROVE  OneJob' /\ Outcome'
  <2> DEFINE s == worker[w].scan
             err == worker[w].err
  <2>1. /\ worker[w].pc = "UpdateScanFailed" /\ OneJob /\ Outcome
        /\ UNCHANGED <<request, queue, phase>>
        /\ \/ err = "start" /\ ReturnError(w)
           \/ err # "start" /\ Goto(w, "publishFailed")
        /\ scans' \in {scans, [scans EXCEPT ![s] = FailedRow(scans[s], err)]}
    BY <1>12, NoReplyLost DEF UpdateScanFailed, ReliableInv
  <2>2. /\ s \in Scans /\ request[s] # "inserted"
        /\ scans[s].status # "completed" /\ ~PullFailed(scans[s])
    BY <2>1, AtWork DEF Fits, AfterCommit
  <2> HIDE DEF s
  <2>3. /\ \/ worker'[w].scan = NoScan
           \/ /\ worker'[w].scan = s /\ worker'[w].pc = "backoff"
              /\ err = "start"
           \/ /\ worker'[w].scan = s /\ worker'[w].pc = "publishFailed"
              /\ worker'[w].err = err
        /\ \A v \in Workers \ {w} : worker'[v] = worker[v]
    BY <2>1, GotoFacts, ReturnFacts DEF s, Calls
  <2>4. /\ \A r \in Scans \ {s} : scans'[r] = scans[r]
        /\ scans'[s] \in {scans[s], FailedRow(scans[s], err)}
    BY <2>1 DEF TypeOK
  <2>5. scans'[s].status # "completed" /\ (PullFailed(scans'[s]) => err = "pull")
    BY <2>2, <2>4 DEF FailedRow, PullFailed, TypeOK, Row
  <2>6. worker'[w].scan = s => Fits(worker'[w], scans'[s])
    BY <2>2, <2>3, <2>5, ConstantsOK DEF Fits, Between, AfterCommit
  <2>7. phase'[s] # "completed"
    BY <2>1, <2>2 DEF Outcome
  <2>8. QED
    BY <2>1, <2>2, <2>3, <2>4, <2>6, <2>7, StepOfHolder DEF s
<1>13. ASSUME NEW w \in Workers, PublishFailed(w)
       PROVE  OneJob' /\ Outcome'
  <2> DEFINE s == worker[w].scan
  <2>1. /\ worker[w].pc = "publishFailed" /\ OneJob /\ Outcome
        /\ UNCHANGED <<scans, request, queue, phase>>
        /\ \/ worker[w].err = "start" /\ Goto(w, "UpdateScanFailed")
           \/ ReturnError(w)
    BY <1>13, NoReplyLost DEF PublishFailed, ReliableInv
  <2>2. /\ s \in Scans /\ request[s] # "inserted"
        /\ scans[s].status # "completed"
        /\ PullFailed(scans[s]) => worker[w].err = "pull"
    BY <2>1, AtWork DEF Fits, AfterCommit
  <2> HIDE DEF s
  <2>3. /\ \/ worker'[w].scan = NoScan
           \/ /\ worker'[w].scan = s
              /\ worker'[w].pc \in {"backoff", "UpdateScanFailed"}
              /\ worker[w].err # "pull"
        /\ \A v \in Workers \ {w} : worker'[v] = worker[v]
    BY <2>1, GotoFacts, ReturnFacts DEF s, Calls
  <2>4. worker'[w].scan = s => Fits(worker'[w], scans'[s])
    BY <2>1, <2>2, <2>3, ConstantsOK DEF Fits, Between, AfterCommit
  <2>5. QED
    BY <2>1, <2>2, <2>3, <2>4, StepOfHolder DEF s, Outcome
<1>14. ASSUME NEW w \in Workers, Retry(w) PROVE OneJob' /\ Outcome'
  <2> DEFINE s == worker[w].scan
  <2>1. /\ worker[w].pc = "backoff" /\ OneJob /\ Outcome
        /\ worker'[w].scan = s /\ worker'[w].pc = "initializing"
        /\ UNCHANGED <<scans, request, queue, phase>>
        /\ \A v \in Workers \ {w} : worker'[v] = worker[v]
    BY <1>14 DEF Retry, ReliableInv, faultVars, TypeOK, WorkerState
  <2>2. /\ s \in Scans /\ request[s] # "inserted"
        /\ scans[s].status # "completed" /\ ~PullFailed(scans[s])
    BY <2>1, AtWork DEF Fits, AfterCommit
  <2> HIDE DEF s
  <2>3. Fits(worker'[w], scans'[s])
    BY <2>1, <2>2 DEF Fits, Between, AfterCommit
  <2>4. QED
    BY <2>1, <2>2, <2>3, StepOfHolder DEF s, Outcome
<1>15. CASE SigTerm \/ UNCHANGED vars
  <2>1. /\ UNCHANGED <<scans, request, queue, phase, worker>>
        /\ OneJob /\ Outcome
    BY <1>15 DEF SigTerm, vars, faultVars, ReliableInv
  <2>2. QED
    BY <2>1, LeaveJobs
<1>16. CASE Kill \/ Restart
  <2>1. /\ UNCHANGED <<scans, request, queue, phase>> /\ OneJob /\ Outcome
        /\ \A w \in Workers : worker'[w].scan = NoScan
    BY <1>16 DEF Kill, Restart, AtLoop, faultVars, ReliableInv
  <2>2. QED
    BY <2>1, LeaveJobs
<1>17. QED
  BY <1>1, <1>2, <1>3, <1>4, <1>5, <1>6, <1>7, <1>8, <1>9, <1>10, <1>11,
     <1>12, <1>13, <1>14, <1>15, <1>16
     DEF Next, Api, WorkerStep, Stopping, CreateScan, RerunScan

LEMMA ReliableInit == Init => ReliableInv
BY ConstantsOK DEF Init, ReliableInv, OneJob, Outcome, AtLoop

-----------------------------------------------------------------------------
(* What the three layers give *)

FullInv == TypeOK /\ JobShape /\ RowInv /\ ReliableInv

LEMMA FullInductive == Init => FullInv
BY TypeInit, RowInvInit, ReliableInit DEF FullInv

LEMMA FullStep == FullInv /\ [Next]_vars => FullInv'
BY TypeStep, RowInvStep, ReliableStep DEF FullInv

LEMMA FullAlways == Spec => []FullInv
BY FullInductive, FullStep, PTL DEF Spec

(* Unless a push was repeated, a scan has one job at most: once in the     *)
(* list, or with one worker (scanqueue.go Enqueue, runner.go workerLoop).  *)
THEOREM SingleOwnership == Spec => []SingleOwner
<1>1. FullInv => SingleOwner
  <2> SUFFICES ASSUME FullInv, lostReplies = 0 PROVE SingleOwner
    BY DEF SingleOwner
  <2>1. OneJob
    BY DEF FullInv, ReliableInv
  <2>2. QED
    BY <2>1 DEF OneJob, SingleOwner, Queued
<1>2. QED
  BY <1>1, FullAlways, PTL

(* Unless a reply was lost, the progress endpoint never reports completed  *)
(* of a scan whose row does not (handlers_scans.go scanProgress).          *)
THEOREM PhaseTruthful == Spec => []CompletedPhaseTruthful
<1>1. FullInv => CompletedPhaseTruthful
  BY DEF FullInv, ReliableInv, Outcome, CompletedPhaseTruthful
<1>2. QED
  BY <1>1, FullAlways, PTL

LEMMA LostRepliesGrow ==
    ASSUME TypeOK, [Next]_vars, lostReplies' = 0
    PROVE  lostReplies = 0
<1>1. CallOk \/ CallFails \/ ReplyLost => lostReplies = 0
  BY NoReplyLost
<1>2. UNCHANGED lostReplies => lostReplies = 0
  OBVIOUS
<1>3. ASSUME NEW s \in Scans, Api(s) \/ ExpirePhase(s)
      PROVE  CallOk \/ CallFails \/ ReplyLost \/ UNCHANGED lostReplies
  BY <1>3 DEF Api, CreateScan, RerunScan, InsertManualScan, Enqueue, AbandonRequest,
     CancelScan, ExpirePhase, faultVars
<1>4. ASSUME NEW w \in Workers, WorkerStep(w) \/ Stopping(w)
      PROVE  CallOk \/ CallFails \/ ReplyLost \/ UNCHANGED lostReplies
  BY <1>4 DEF WorkerStep, Pop, SetScanPhase, UpdateScanRunning, ScanImage,
     PersistScanResults, PublishCompleted, UpdateScanFailed, PublishFailed, Retry,
     Stopping, Unwind, PopAfterStop, faultVars
<1>5. SigTerm \/ Kill \/ Restart \/ UNCHANGED vars => UNCHANGED lostReplies
  BY DEF SigTerm, Kill, Restart, vars, faultVars
<1>6. QED
  BY <1>1, <1>2, <1>3, <1>4, <1>5 DEF Next

(* What a step of Next may do to a row, given the invariant.               *)
Final(row) == row.status = "completed" \/ PullFailed(row)

LEMMA FinalRows ==
    ASSUME FullInv, [Next]_vars, lostReplies' = 0, NEW s \in Scans,
           Final(scans[s])
    PROVE  scans'[s] = scans[s]
<1> USE DEF FullInv
<1>0. Outcome
  BY LostRepliesGrow DEF ReliableInv
<1>1. ASSUME NEW r \in Scans, request[r] = "none", InsertManualScan(r)
      PROVE  scans'[s] = scans[s]
  <2>1. r # s
    BY <1>1 DEF RowInv, JobsRequested, Final, PullFailed, NoRow
  <2>2. QED
    BY <1>1, <2>1 DEF InsertManualScan, TypeOK
<1>2. ASSUME NEW r \in Scans, CancelScan(r) PROVE scans'[s] = scans[s]
  <2>1. r # s
    BY <1>2 DEF CancelScan, Final, PullFailed
  <2>2. QED
    BY <1>2, <2>1 DEF CancelScan, TypeOK
<1>3. ASSUME NEW w \in Workers,
             UpdateScanRunning(w) \/ PersistScanResults(w) \/ UpdateScanFailed(w)
      PROVE  scans'[s] = scans[s]
  <2>1. worker[w].pc \in {"UpdateScanRunning", "PersistScanResults", "UpdateScanFailed"}
    BY <1>3 DEF UpdateScanRunning, PersistScanResults, UpdateScanFailed
  <2>2. worker[w].scan # s
    BY <1>0, <2>1, AtWork DEF Fits, Final, AfterCommit
  <2>3. QED
    BY <1>3, <2>2 DEF UpdateScanRunning, PersistScanResults, UpdateScanFailed, TypeOK
<1>4. CASE UNCHANGED scans
  BY <1>4
<1>5. QED
  BY <1>1, <1>2, <1>3, <1>4
     DEF Next, Api, WorkerStep, Stopping, CreateScan, RerunScan, Enqueue,
         AbandonRequest, ExpirePhase, Pop, SetScanPhase, ScanImage,
         PublishCompleted, PublishFailed, Retry, Unwind, PopAfterStop, SigTerm,
         Kill, Restart, vars

(* Unless a reply was lost, no interleaving of workers, cancellations and  *)
(* stops changes a completed scan, although the UPDATEs of the worker have *)
(* no condition on the status (scans.go:27-92).                            *)
THEOREM CompletedFinal == Spec => CompletedIsFinal
<1>1. FullInv /\ [Next]_vars =>
        [\A s \in Scans :
           lostReplies' = 0 /\ scans[s].status = "completed" =>
               scans'[s] = scans[s]]_vars
  BY FinalRows DEF Final
<1>2. QED
  BY <1>1, FullAlways, PTL DEF Spec, CompletedIsFinal

(* Unless a reply was lost, nothing follows the failure of a scan whose    *)
(* image cannot be pulled: no retry, no other outcome (runner.go:133).     *)
THEOREM PullFailureFinal == Spec => PullFailureIsFinal
<1>1. FullInv /\ [Next]_vars =>
        [\A s \in Scans :
           lostReplies' = 0 /\ scans[s].status = "failed" /\ scans[s].error = "pull"
               => scans'[s] = scans[s]]_vars
  BY FinalRows DEF Final, PullFailed
<1>2. QED
  BY <1>1, FullAlways, PTL DEF Spec, PullFailureIsFinal

-----------------------------------------------------------------------------
(* Third layer: how a job ends when no fault, or one error, happened *)

(* The worker of a job has used up an error before it calls its start      *)
(* failed, and any other failure comes after the row left "pending".       *)
Spared(job, row, spent) ==
    /\ job.err = "start" => spent >= 1
    /\ job.pc \in Tail3 /\ job.err # "start" => row.status # "pending"

(* Before a worker tells of an outcome, the phase key (unless it expired)  *)
(* and the row have it.                                                    *)
Told(job, row, ph) ==
    /\ job.pc = "UpdateScanFailed" => ph \in {"failed", "none"}
    /\ job.pc = "publishFailed" => row.status = "failed" /\ ph \in {"failed", "none"}
    /\ job.pc = "publishCompleted" => ph \in {"completed", "none"}

(* The request of s was accepted, and its job is over.                     *)
Gone(s) == request[s] = "created" /\ JobGone(s)

Settled(s) ==
    /\ scans[s].status \in {"completed", "failed"}
    /\ phase[s] \in {scans[s].status, "none"}
    /\ <<s, scans[s].status>> \in events

SparedInv ==
    /\ \A w \in Workers : worker[w].scan # NoScan =>
          Spared(worker[w], scans[worker[w].scan], errors)
    /\ \A s \in Scans : Gone(s) => scans[s].status # "pending"

ToldInv ==
    /\ \A w \in Workers : worker[w].scan # NoScan =>
          Told(worker[w], scans[worker[w].scan], phase[worker[w].scan])
    /\ \A s \in Scans : Gone(s) => Settled(s)

OneErrorOnly == errors <= 1 /\ lostReplies = 0 /\ stops = 0

CalmInv ==
    /\ ctxDone => stops # 0
    /\ OneErrorOnly => SparedInv
    /\ NoFaults => ToldInv

(* Faults are counted, never forgotten.                                    *)
LEMMA FaultsGrow ==
    ASSUME TypeOK, [Next]_vars
    PROVE  /\ errors \in Nat /\ errors' \in Nat /\ errors <= errors'
           /\ lostReplies' = 0 => lostReplies = 0
           /\ stops' = 0 => UNCHANGED stops
<1>1. errors \in Nat /\ stops \in Nat /\ lostReplies \in Nat
  BY DEF TypeOK
<1>2. CASE CallOk \/ CallFails \/ ReplyLost
  BY <1>1, <1>2 DEF CallOk, CallFails, ReplyLost, faultVars
<1>3. CASE UNCHANGED <<errors, lostReplies>> /\ (UNCHANGED stops \/ stops' = stops + 1)
  BY <1>1, <1>3
<1>4. ASSUME NEW s \in Scans, Api(s) \/ ExpirePhase(s)
      PROVE  CallOk \/ CallFails \/ ReplyLost
  BY <1>4 DEF Api, CreateScan, RerunScan, InsertManualScan, Enqueue, AbandonRequest,
     CancelScan, ExpirePhase, CallOk, faultVars
<1>5. ASSUME NEW w \in Workers, WorkerStep(w) \/ Stopping(w)
      PROVE  CallOk \/ CallFails \/ ReplyLost
  BY <1>5 DEF WorkerStep, Pop, SetScanPhase, UpdateScanRunning, ScanImage,
     PersistScanResults, PublishCompleted, UpdateScanFailed, PublishFailed, Retry,
     Stopping, Unwind, PopAfterStop, CallOk, faultVars
<1>6. SigTerm \/ Kill \/ Restart \/ UNCHANGED vars =>
        UNCHANGED <<errors, lostReplies>> /\ (UNCHANGED stops \/ stops' = stops + 1)
  BY DEF SigTerm, Kill, Restart, vars, faultVars
<1>7. QED
  BY <1>2, <1>3, <1>4, <1>5, <1>6 DEF Next

(* While the process was never stopped it has not been asked to stop.      *)
LEMMA StopsCounted ==
    ASSUME TypeOK, [Next]_vars, ctxDone => stops # 0
    PROVE  (ctxDone => stops # 0)'
<1>1. stops \in Nat
  BY DEF TypeOK
<1>2. CASE SigTerm
  BY <1>1, <1>2 DEF SigTerm
<1>3. CASE Restart
  BY <1>3 DEF Restart
<1>4. ASSUME NEW s \in Scans, Api(s) \/ ExpirePhase(s)
      PROVE  UNCHANGED <<ctxDone, stops>>
  BY <1>4 DEF Api, CreateScan, RerunScan, InsertManualScan, Enqueue, AbandonRequest,
     CancelScan, ExpirePhase, CallOk, CallFails, ReplyLost, faultVars
<1>5. ASSUME NEW w \in Workers, WorkerStep(w) \/ Stopping(w)
      PROVE  UNCHANGED <<ctxDone, stops>>
  BY <1>5 DEF WorkerStep, Pop, SetScanPhase, UpdateScanRunning, ScanImage,
     PersistScanResults, PublishCompleted, UpdateScanFailed, PublishFailed, Retry,
     Stopping, Unwind, PopAfterStop, CallOk, CallFails, ReplyLost, faultVars
<1>6. Kill \/ UNCHANGED vars => UNCHANGED <<ctxDone, stops>>
  BY DEF Kill, vars, faultVars
<1>7. QED
  BY <1>2, <1>3, <1>4, <1>5, <1>6 DEF Next

(* When the worker that holds s makes a step, the other jobs go on, and    *)
(* that of s is over only if the worker let go of it.                      *)
LEMMA GoneByHolder ==
    ASSUME TypeOK, OneJob, NEW s \in Scans, NEW w \in Workers,
           worker[w].scan = s, UNCHANGED <<queue, request>>,
           \A v \in Workers \ {w} : worker'[v] = worker[v]
    PROVE  /\ \A r \in Scans \ {s} : Gone(r)' => Gone(r)
           /\ worker'[w].scan = s => ~Gone(s)'
           /\ \A v \in Workers \ {w} : worker[v].scan # s
<1>1. ASSUME NEW r \in Scans \ {s}, Gone(r)' PROVE Gone(r)
  <2>1. ~Held(r)
    BY <1>1 DEF Gone, JobGone, Held
  <2>2. QED
    BY <1>1, <2>1 DEF Gone, JobGone, Queued
<1>2. worker'[w].scan = s => ~Gone(s)'
  BY DEF Gone, JobGone, Held
<1>3. \A v \in Workers \ {w} : worker[v].scan # s
  BY ConstantsOK DEF OneJob
<1>4. QED
  BY <1>1, <1>2, <1>3

LEMMA SparedByHolder ==
    ASSUME TypeOK, OneJob, SparedInv, NEW s \in Scans, NEW w \in Workers,
           worker[w].scan = s, UNCHANGED <<queue, request>>,
           \A v \in Workers \ {w} : worker'[v] = worker[v],
           \A r \in Scans \ {s} : scans'[r] = scans[r],
           errors \in Nat, errors' \in Nat, errors <= errors',
           \/ worker'[w].scan = s /\ Spared(worker'[w], scans'[s], errors')
           \/ worker'[w].scan = NoScan /\ scans'[s].status # "pending"
    PROVE  SparedInv'
<1>1. ASSUME NEW v \in Workers, worker'[v].scan # NoScan
      PROVE  Spared(worker'[v], scans'[worker'[v].scan], errors')
  <2>1. CASE v = w
    BY <1>1, <2>1
  <2>2. CASE v # w
    <3>1. worker'[v] = worker[v] /\ worker[v].scan \in Scans \ {s}
      BY <1>1, <2>2, GoneByHolder DEF TypeOK, WorkerState
    <3>2. Spared(worker[v], scans[worker[v].scan], errors)
      BY <1>1, <3>1 DEF SparedInv
    <3>3. QED
      BY <3>1, <3>2 DEF Spared
  <2>3. QED
    BY <2>1, <2>2
<1>2. ASSUME NEW r \in Scans, Gone(r)' PROVE scans'[r].status # "pending"
  <2>1. CASE r = s
    BY <1>2, <2>1, GoneByHolder
  <2>2. CASE r # s
    BY <1>2, <2>2, GoneByHolder DEF SparedInv
  <2>3. QED
    BY <2>1, <2>2
<1>3. (\A v \in Workers : worker[v].scan # NoScan =>
          Spared(worker[v], scans[worker[v].scan], errors))'
  BY <1>1 DEF Spared
<1>4. QED
  BY <1>2, <1>3 DEF SparedInv

LEMMA ToldByHolder ==
    ASSUME TypeOK, OneJob, ToldInv, NEW s \in Scans, NEW w \in Workers,
           worker[w].scan = s, UNCHANGED <<queue, request>>,
           \A v \in Workers \ {w} : worker'[v] = worker[v],
           \A r \in Scans \ {s} : scans'[r] = scans[r] /\ phase'[r] = phase[r],
           events \subseteq events',
           \/ worker'[w].scan = s /\ Told(worker'[w], scans'[s], phase'[s])
           \/ worker'[w].scan = NoScan /\ Settled(s)'
    PROVE  ToldInv'
<1>1. ASSUME NEW v \in Workers, worker'[v].scan # NoScan
      PROVE  Told(worker'[v], scans'[worker'[v].scan], phase'[worker'[v].scan])
  <2>1. CASE v = w
    BY <1>1, <2>1
  <2>2. CASE v # w
    <3>1. worker'[v] = worker[v] /\ worker[v].scan \in Scans \ {s}
      BY <1>1, <2>2, GoneByHolder DEF TypeOK, WorkerState
    <3>2. Told(worker[v], scans[worker[v].scan], phase[worker[v].scan])
      BY <1>1, <3>1 DEF ToldInv
    <3>3. QED
      BY <3>1, <3>2 DEF Told
  <2>3. QED
    BY <2>1, <2>2
<1>2. ASSUME NEW r \in Scans, Gone(r)' PROVE Settled(r)'
  <2>1. CASE r = s
    BY <1>2, <2>1, GoneByHolder
  <2>2. CASE r # s
    <3>1. Settled(r) /\ scans'[r] = scans[r] /\ phase'[r] = phase[r]
      BY <1>2, <2>2, GoneByHolder DEF ToldInv
    <3>2. QED
      BY <3>1 DEF Settled
  <2>3. QED
    BY <2>1, <2>2
<1>3. (\A v \in Workers : worker[v].scan # NoScan =>
          Told(worker[v], scans[worker[v].scan], phase[worker[v].scan]))'
  BY <1>1 DEF Told
<1>4. QED
  BY <1>2, <1>3 DEF ToldInv

(* What the steps do to the jobs that are over, as long as no reply is     *)
(* lost and the process does not stop: only the end of a job adds to them. *)
LEMMA GoneFrame ==
    ASSUME TypeOK, UNCHANGED worker, NEW s \in Scans,
           \A r \in Scans \ {s} : request'[r] = request[r],
           \/ UNCHANGED queue /\ request'[s] # "created"
           \/ UNCHANGED <<queue, request>>
           \/ queue' = Append(queue, s)
    PROVE  \A r \in Scans : Gone(r)' => Gone(r)
<1>1. \A r \in Scans : Held(r)' <=> Held(r)
  BY DEF Held
<1>2. CASE UNCHANGED queue
  <2>1. \A r \in Scans : Queued(r)' <=> Queued(r)
    BY <1>2 DEF Queued
  <2>2. QED
    BY <1>1, <1>2, <2>1 DEF Gone, JobGone
<1>3. CASE queue' = Append(queue, s)
  <2>1. /\ Len(queue) \in Nat /\ Len(queue') = Len(queue) + 1
        /\ \A i \in 1..Len(queue) : queue'[i] = queue[i]
        /\ queue'[Len(queue) + 1] = s
    BY <1>3, AppendFacts DEF TypeOK
  <2>2. \A r \in Scans : Queued(r) => Queued(r)'
    BY <2>1 DEF Queued
  <2>3. Queued(s)'
    BY <2>1 DEF Queued
  <2>4. QED
    BY <1>1, <2>2, <2>3 DEF Gone, JobGone
<1>4. QED
  BY <1>2, <1>3

(* A worker takes the job at the head of the list.                         *)
LEMMA GoneByPop ==
    ASSUME TypeOK, OneJob, TakeJob, UNCHANGED request, NEW w \in Workers,
           worker[w].scan = NoScan, worker'[w].scan = Head(queue),
           \A v \in Workers \ {w} : worker'[v] = worker[v]
    PROVE  \A r \in Scans : Gone(r)' => Gone(r)
<1>1. /\ Head(queue) = queue[1] /\ 1 \in 1..Len(queue)
      /\ \A i \in 1..Len(queue') :
            i + 1 \in 1..Len(queue) /\ queue'[i] = queue[i + 1]
  BY TakenJob
<1>2. Len(queue') = Len(queue) - 1 /\ Len(queue) \in Nat
  BY <1>1 DEF TypeOK, TakeJob
<1>3. \A r \in Scans : Held(r) \/ r = Head(queue) => Held(r)'
  BY ConstantsOK DEF Held
<1>4. ASSUME NEW r \in Scans, Queued(r), r # Head(queue) PROVE Queued(r)'
  <2>1. PICK i \in 1..Len(queue) : queue[i] = r
    BY <1>4 DEF Queued
  <2>2. i - 1 \in 1..Len(queue') /\ (i - 1) + 1 = i
    BY <1>1, <1>2, <1>4, <2>1
  <2>3. QED
    BY <1>1, <2>1, <2>2 DEF Queued
<1>5. QED
  BY <1>3, <1>4 DEF Gone, JobGone

(* Workers, rows and faults stay as they are, or only a cancellation is    *)
(* written.                                                                *)
LEMMA SparedByOther ==
    ASSUME TypeOK, SparedInv, UNCHANGED <<worker, errors>>,
           \A r \in Scans : Gone(r)' => Gone(r) /\ request[r] # "none",
           \A r \in Scans :
              \/ scans'[r] = scans[r]
              \/ scans'[r].status = "cancelled"
              \/ /\ scans[r] = NoRow /\ request[r] = "none"
                 /\ \A w \in Workers : worker[w].scan # r
    PROVE  SparedInv'
<1>1. ASSUME NEW v \in Workers, worker[v].scan # NoScan
      PROVE  Spared(worker[v], scans'[worker[v].scan], errors)
  <2>1. worker[v].scan \in Scans
    BY <1>1 DEF TypeOK, WorkerState
  <2>2. QED
    BY <1>1, <2>1 DEF SparedInv, Spared
<1>2. ASSUME NEW r \in Scans, Gone(r)' PROVE scans'[r].status # "pending"
  BY <1>2 DEF SparedInv
<1>3. QED
  BY <1>1, <1>2 DEF SparedInv, Spared

LEMMA SparedStep ==
    ASSUME FullInv, CalmInv, [Next]_vars PROVE (OneErrorOnly => SparedInv)'
<1> SUFFICES ASSUME OneErrorOnly' PROVE SparedInv'
  OBVIOUS
<1> USE DEF FullInv
<1>1. /\ errors \in Nat /\ errors' \in Nat /\ errors <= errors' /\ errors' <= 1
      /\ lostReplies = 0 /\ lostReplies' = 0 /\ stops = 0 /\ stops' = 0
  BY FaultsGrow DEF OneErrorOnly
<1>2. SparedInv /\ OneJob /\ Outcome /\ ~ctxDone
  BY <1>1 DEF OneErrorOnly, CalmInv, ReliableInv
<1>3. ASSUME NEW s \in Scans, request[s] = "none", InsertManualScan(s)
      PROVE  SparedInv'
  <2>1. /\ UNCHANGED <<queue, worker, errors>> /\ request'[s] = "inserted"
        /\ \A r \in Scans \ {s} : scans'[r] = scans[r] /\ request'[r] = request[r]
    BY <1>3 DEF InsertManualScan, faultVars, TypeOK
  <2>2. /\ \A w \in Workers : worker[w].scan # s
        /\ scans[s] = NoRow
    BY <1>3, ConstantsOK DEF RowInv, JobsRequested, Requested
  <2>3. \A r \in Scans : Gone(r)' => Gone(r)
    BY <2>1, GoneFrame
  <2>4. \A r \in Scans : Gone(r)' => request[r] # "none"
    BY <2>3 DEF Gone
  <2>5. QED
    BY <1>2, <1>3, <2>1, <2>2, <2>3, <2>4, SparedByOther
<1>4. ASSUME NEW s \in Scans, Enqueue(s) \/ AbandonRequest(s) PROVE SparedInv'
  <2>1. /\ UNCHANGED <<scans, worker>>
        /\ \A r \in Scans \ {s} : request'[r] = request[r]
        /\ (UNCHANGED queue /\ request'[s] # "created") \/ queue' = Append(queue, s)
    BY <1>1, <1>4, NoReplyLost DEF Enqueue, AbandonRequest, TypeOK
  <2>2. \A r \in Scans : Gone(r)' => Gone(r)
    BY <2>1, GoneFrame
  <2>3. \A v \in Workers : worker[v].scan # NoScan =>
            Spared(worker[v], scans[worker[v].scan], errors')
    BY <1>1, <1>2 DEF SparedInv, Spared
  <2>4. QED
    BY <1>2, <2>1, <2>2, <2>3 DEF SparedInv, Spared
<1>5. ASSUME NEW s \in Scans, CancelScan(s) \/ ExpirePhase(s) PROVE SparedInv'
  <2>1. /\ UNCHANGED <<queue, request, worker, errors>>
        /\ \A r \in Scans : scans'[r] = scans[r] \/ scans'[r].status = "cancelled"
    BY <1>5 DEF CancelScan, ExpirePhase, faultVars, TypeOK, Row
  <2>2. \A r \in Scans : Gone(r)' => Gone(r) /\ request[r] # "none"
    BY <2>1, GoneFrame DEF Gone
  <2>3. QED
    BY <1>2, <2>1, <2>2, SparedByOther
<1>6. ASSUME NEW w \in Workers, Pop(w) PROVE SparedInv'
  <2>1. /\ TakeJob /\ UNCHANGED <<scans, request, errors>>
        /\ worker' = [worker EXCEPT ![w] =
              [pc |-> "initializing", scan |-> Head(queue),
               attempt |-> 1, err |-> "none"]]
        /\ worker[w].scan = NoScan
    BY <1>1, <1>6, NoReplyLost DEF Pop, CallOk, faultVars, JobShape
  <2>2. /\ worker'[w].scan = Head(queue) /\ worker'[w].err = "none"
        /\ worker'[w].pc = "initializing"
        /\ \A v \in Workers \ {w} : worker'[v] = worker[v]
    BY <2>1 DEF TypeOK
  <2>3. \A r \in Scans : Gone(r)' => Gone(r)
    BY <1>2, <2>1, <2>2, GoneByPop
  <2>4. QED
    BY <1>2, <2>1, <2>2, <2>3 DEF SparedInv, Spared, Tail3
<1>7. ASSUME NEW w \in Workers, NEW s \in Scans, worker[w].scan = s,
             Fits(worker[w], scans[s]), Spared(worker[w], scans[s], errors),
             \/ SetScanPhase(w) \/ UpdateScanRunning(w) \/ ScanImage(w)
             \/ PersistScanResults(w) \/ PublishCompleted(w)
             \/ UpdateScanFailed(w) \/ PublishFailed(w) \/ Retry(w)
      PROVE  SparedInv'
  <2> DEFINE Kept == worker'[w].scan = s /\ Spared(worker'[w], scans'[s], errors')
             Left == worker'[w].scan = NoScan /\ scans'[s].status # "pending"
  <2>1. /\ UNCHANGED <<queue, request>>
        /\ \A r \in Scans \ {s} : scans'[r] = scans[r]
    BY <1>7 DEF SetScanPhase, UpdateScanRunning, ScanImage, PersistScanResults,
       PublishCompleted, UpdateScanFailed, PublishFailed, Retry, TypeOK
  <2>2. SUFFICES /\ \A v \in Workers \ {w} : worker'[v] = worker[v]
                 /\ Kept \/ Left
    BY <1>1, <1>2, <1>7, <2>1, SparedByHolder
  <2>3. CASE SetScanPhase(w)
    <3> DEFINE next == CallAfterPhase(worker[w].pc, worker[w].err)
    <3>1. /\ worker[w].pc \in Phases /\ next \in Calls
          /\ next \in Tail3 => worker[w].pc \in Tail3
      BY <2>3, PhaseCalls DEF SetScanPhase, Calls, CallAfterPhase, Phases, Tail3
    <3> HIDE DEF next
    <3>2. Goto(w, next) /\ UNCHANGED scans
      BY <2>3 DEF SetScanPhase, next
    <3>3. QED
      BY <1>1, <1>7, <3>1, <3>2, GotoFacts DEF Spared
  <2>4. CASE UpdateScanRunning(w)
    <3>1. \/ Goto(w, "scanning")
          \/ Fail(w, "start") /\ CallFails
      BY <1>1, <2>4, NoReplyLost DEF UpdateScanRunning
    <3>2. QED
      BY <1>1, <2>4, <1>7, <3>1, GotoFacts, FailFacts
         DEF Spared, CallFails, Tail3, Calls, Phases, Failure, JobShape,
             UpdateScanRunning
  <2>5. CASE ScanImage(w) \/ PersistScanResults(w)
    <3>1. /\ worker[w].pc \in Between
          /\ \/ Goto(w, "persisting") \/ Goto(w, "completed")
             \/ UNCHANGED scans /\ (Fail(w, "pull") \/ Fail(w, "scan") \/ Fail(w, "persist"))
      BY <1>1, <2>5, NoReplyLost DEF ScanImage, PersistScanResults, Between
    <3>2. worker[w].err = "none" /\ scans[s].status # "pending"
      BY <1>7, <3>1 DEF JobShape, Fits, Between, Tail3
    <3>3. QED
      BY <1>7, <3>1, <3>2, GotoFacts, FailFacts
         DEF Spared, Tail3, Calls, Phases, Failure
  <2>6. CASE PublishCompleted(w)
    <3>1. scans[s].status = "completed" /\ UNCHANGED scans
      BY <1>7, <2>6 DEF Fits, AfterCommit, PublishCompleted
    <3>2. QED
      BY <2>6, <3>1, LoopFacts DEF PublishCompleted
  <2>7. CASE UpdateScanFailed(w)
    <3>1. scans[s] \in Row /\ \A err : FailedRow(scans[s], err).status = "failed"
      BY DEF TypeOK, FailedRow, Row
    <3>2. scans'[s].status = "failed" \/ (UNCHANGED scans /\ errors' = errors + 1)
      BY <1>7, <2>7, <3>1 DEF UpdateScanFailed, CallFails, TypeOK
    <3>3. scans'[s].status # "pending"
      BY <1>1, <1>7, <2>7, <3>2 DEF Spared, Tail3, UpdateScanFailed
    <3>4. QED
      BY <1>1, <1>7, <2>7, <3>3, GotoFacts, ReturnFacts
         DEF UpdateScanFailed, Spared, Calls, Phases
  <2>8. CASE PublishFailed(w)
    <3>1. UNCHANGED scans /\ worker[w].pc = "publishFailed"
      BY <2>8 DEF PublishFailed
    <3>2. CASE worker[w].err = "start"
      BY <1>1, <1>7, <2>8, <3>1, <3>2, GotoFacts DEF PublishFailed, Spared, Calls
    <3>3. CASE worker[w].err # "start"
      BY <1>7, <2>8, <3>1, <3>3, ReturnFacts DEF PublishFailed, Spared, Tail3
    <3>4. QED
      BY <3>2, <3>3
  <2>9. CASE Retry(w)
    <3>1. /\ UNCHANGED scans /\ worker[w].pc = "backoff"
          /\ worker'[w].scan = s /\ worker'[w].pc = "initializing"
          /\ worker'[w].err = worker[w].err
          /\ \A v \in Workers \ {w} : worker'[v] = worker[v]
      BY <1>7, <2>9 DEF Retry, TypeOK, WorkerState
    <3>2. QED
      BY <1>1, <1>7, <3>1 DEF Spared, Tail3, JobShape
  <2>10. QED
    BY <1>7, <2>3, <2>4, <2>5, <2>6, <2>7, <2>8, <2>9
<1>8. ASSUME NEW w \in Workers,
             \/ SetScanPhase(w) \/ UpdateScanRunning(w) \/ ScanImage(w)
             \/ PersistScanResults(w) \/ PublishCompleted(w)
             \/ UpdateScanFailed(w) \/ PublishFailed(w) \/ Retry(w)
      PROVE  SparedInv'
  <2>1. worker[w].pc \notin {"BRPop", "exited"}
    BY <1>8 DEF SetScanPhase, UpdateScanRunning, ScanImage, PersistScanResults,
       PublishCompleted, UpdateScanFailed, PublishFailed, Retry, Phases
  <2>2. /\ worker[w].scan \in Scans
        /\ Fits(worker[w], scans[worker[w].scan])
        /\ Spared(worker[w], scans[worker[w].scan], errors)
    BY <1>2, <2>1, AtWork DEF SparedInv
  <2>3. QED
    BY <1>7, <1>8, <2>2
<1>9. CASE UNCHANGED vars
  BY <1>2, <1>9 DEF vars, faultVars, SparedInv, Spared, Gone, JobGone, Queued, Held
<1>10. QED
  BY <1>1, <1>2, <1>3, <1>4, <1>5, <1>6, <1>8, <1>9
     DEF Next, Api, WorkerStep, Stopping, CreateScan, RerunScan, Unwind,
         PopAfterStop, SigTerm, Kill, Restart

LEMMA ToldStep ==
    ASSUME FullInv, CalmInv, [Next]_vars PROVE (NoFaults => ToldInv)'
<1> SUFFICES ASSUME NoFaults' PROVE ToldInv'
  OBVIOUS
<1> USE DEF FullInv
<1>1. /\ errors = 0 /\ errors' = 0 /\ lostReplies = 0 /\ lostReplies' = 0
      /\ stops = 0 /\ stops' = 0
  BY FaultsGrow DEF NoFaults
<1>2. ToldInv /\ SparedInv /\ OneJob /\ Outcome /\ ~ctxDone
  BY <1>1 DEF OneErrorOnly, NoFaults, CalmInv, ReliableInv
<1>3. ~CallFails /\ ~ReplyLost
  BY <1>1 DEF CallFails, ReplyLost
<1>4. ASSUME UNCHANGED <<scans, phase, events, worker>>,
             \A r \in Scans : Gone(r)' => Gone(r)
      PROVE  ToldInv'
  BY <1>2, <1>4 DEF ToldInv, Told, Settled
<1>5. ASSUME NEW s \in Scans, request[s] = "none", InsertManualScan(s)
      PROVE  ToldInv'
  <2>1. /\ UNCHANGED <<queue, worker, phase, events>> /\ request'[s] = "inserted"
        /\ \A r \in Scans \ {s} : scans'[r] = scans[r] /\ request'[r] = request[r]
    BY <1>5 DEF InsertManualScan, faultVars, TypeOK
  <2>2. \A w \in Workers : worker[w].scan # s
    BY <1>5, ConstantsOK DEF RowInv, JobsRequested, Requested
  <2>3. /\ \A r \in Scans : Gone(r)' => Gone(r)
        /\ ~Gone(s)
    BY <1>5, <2>1, GoneFrame DEF Gone
  <2>4. ASSUME NEW r \in Scans, Gone(r)' PROVE Settled(r)'
    <3>1. Settled(r) /\ scans'[r] = scans[r]
      BY <1>2, <2>1, <2>3, <2>4 DEF ToldInv
    <3>2. QED
      BY <2>1, <3>1 DEF Settled
  <2>5. ASSUME NEW w \in Workers, worker[w].scan # NoScan
        PROVE  Told(worker[w], scans'[worker[w].scan], phase[worker[w].scan])
    <3>1. worker[w].scan \in Scans \ {s}
      BY <2>2, <2>5 DEF TypeOK, WorkerState
    <3>2. QED
      BY <1>2, <2>1, <2>5, <3>1 DEF ToldInv
  <2>6. QED
    BY <2>1, <2>4, <2>5 DEF ToldInv, Told
<1>6. ASSUME NEW s \in Scans, Enqueue(s) \/ AbandonRequest(s) PROVE ToldInv'
  <2>1. /\ UNCHANGED <<scans, worker, phase, events>>
        /\ \A r \in Scans \ {s} : request'[r] = request[r]
        /\ queue' = Append(queue, s)
    BY <1>3, <1>6 DEF Enqueue, AbandonRequest, TypeOK
  <2>2. \A r \in Scans : Gone(r)' => Gone(r)
    BY <2>1, GoneFrame
  <2>3. QED
    BY <1>4, <2>1, <2>2
<1>7. ASSUME NEW s \in Scans, CancelScan(s) PROVE ToldInv'
  <2>1. /\ UNCHANGED <<queue, request, worker, phase, events>>
        /\ scans[s].status \in {"pending", "running"}
        /\ \A r \in Scans \ {s} : scans'[r] = scans[r]
    BY <1>7 DEF CancelScan, TypeOK
  <2>2. ASSUME NEW r \in Scans, Gone(r)' PROVE Settled(r)'
    <3>1. Settled(r)
      BY <1>2, <2>1, <2>2, GoneFrame DEF ToldInv
    <3>2. scans'[r] = scans[r]
      BY <2>1, <3>1 DEF Settled
    <3>3. QED
      BY <2>1, <3>1, <3>2 DEF Settled
  <2>3. ASSUME NEW w \in Workers, worker[w].scan # NoScan
        PROVE  Told(worker[w], scans'[worker[w].scan], phase[worker[w].scan])
    <3>1. worker[w].scan \in Scans
      BY <2>3 DEF TypeOK, WorkerState
    <3>2. Told(worker[w], scans[worker[w].scan], phase[worker[w].scan])
      BY <1>2, <2>3 DEF ToldInv
    <3>3. CASE worker[w].scan = s
      BY <2>1, <3>2, <3>3 DEF Told
    <3>4. CASE worker[w].scan # s
      BY <2>1, <3>1, <3>2, <3>4
    <3>5. QED
      BY <3>3, <3>4
  <2>4. QED
    BY <2>1, <2>2, <2>3 DEF ToldInv, Told
<1>8. ASSUME NEW s \in Scans, ExpirePhase(s) PROVE ToldInv'
  <2>1. /\ UNCHANGED <<scans, queue, request, worker, events>>
        /\ \A r \in Scans : phase'[r] \in {phase[r], "none"}
    BY <1>8 DEF ExpirePhase, TypeOK
  <2>2. ASSUME NEW r \in Scans, Gone(r)' PROVE Settled(r)'
    <3>1. Settled(r)
      BY <1>2, <2>1, <2>2, GoneFrame DEF ToldInv
    <3>2. QED
      BY <2>1, <3>1 DEF Settled
  <2>3. ASSUME NEW w \in Workers, worker[w].scan # NoScan
        PROVE  Told(worker[w], scans[worker[w].scan], phase'[worker[w].scan])
    <3>1. worker[w].scan \in Scans
      BY <2>3 DEF TypeOK, WorkerState
    <3>2. QED
      BY <1>2, <2>1, <2>3, <3>1 DEF ToldInv, Told
  <2>4. QED
    BY <2>1, <2>2, <2>3 DEF ToldInv, Told
<1>9. ASSUME NEW w \in Workers, Pop(w) PROVE ToldInv'
  <2>1. /\ TakeJob /\ UNCHANGED <<scans, request, phase, events>>
        /\ worker' = [worker EXCEPT ![w] =
              [pc |-> "initializing", scan |-> Head(queue),
               attempt |-> 1, err |-> "none"]]
        /\ worker[w].scan = NoScan
    BY <1>3, <1>9 DEF Pop, JobShape
  <2>2. /\ worker'[w].scan = Head(queue)
        /\ worker'[w].pc = "initializing"
        /\ \A v \in Workers \ {w} : worker'[v] = worker[v]
    BY <2>1 DEF TypeOK
  <2>3. \A r \in Scans : Gone(r)' => Gone(r)
    BY <1>2, <2>1, <2>2, GoneByPop
  <2>4. QED
    BY <1>2, <2>1, <2>2, <2>3 DEF ToldInv, Told, Settled
<1>10. ASSUME NEW w \in Workers, NEW s \in Scans, worker[w].scan = s,
              Fits(worker[w], scans[s]), worker[w].err # "start",
              Told(worker[w], scans[s], phase[s]),
              \/ SetScanPhase(w) \/ UpdateScanRunning(w) \/ ScanImage(w)
              \/ PersistScanResults(w) \/ PublishCompleted(w)
              \/ UpdateScanFailed(w) \/ PublishFailed(w) \/ Retry(w)
       PROVE  ToldInv'
  <2> DEFINE Kept == worker'[w].scan = s /\ Told(worker'[w], scans'[s], phase'[s])
             Left == worker'[w].scan = NoScan /\ Settled(s)'
  <2>1. /\ UNCHANGED <<queue, request>> /\ events \subseteq events'
        /\ \A r \in Scans \ {s} : scans'[r] = scans[r] /\ phase'[r] = phase[r]
    BY <1>10 DEF SetScanPhase, UpdateScanRunning, ScanImage, PersistScanResults,
       PublishCompleted, UpdateScanFailed, PublishFailed, Retry, TypeOK
  <2>2. SUFFICES /\ \A v \in Workers \ {w} : worker'[v] = worker[v]
                 /\ Kept \/ Left
    BY <1>2, <1>10, <2>1, ToldByHolder
  <2>3. CASE SetScanPhase(w)
    <3> DEFINE next == CallAfterPhase(worker[w].pc, worker[w].err)
    <3>1. /\ worker[w].pc \in Phases /\ next \in Calls /\ next # "publishFailed"
          /\ next = "UpdateScanFailed" => worker[w].pc = "failed"
          /\ next = "publishCompleted" => worker[w].pc = "completed"
      BY <1>10, <2>3, PhaseCalls DEF SetScanPhase, Calls, CallAfterPhase, Phases
    <3> HIDE DEF next
    <3>2. Goto(w, next) /\ phase'[s] = worker[w].pc
      BY <1>3, <1>10, <2>3 DEF SetScanPhase, next, TypeOK
    <3>3. QED
      BY <1>10, <3>1, <3>2, GotoFacts DEF Told
  <2>4. CASE UpdateScanRunning(w) \/ ScanImage(w) \/ PersistScanResults(w)
    <3>1. \/ Goto(w, "scanning") \/ Goto(w, "persisting") \/ Goto(w, "completed")
          \/ \E err \in Failure : Fail(w, err)
      BY <1>3, <2>4 DEF UpdateScanRunning, ScanImage, PersistScanResults, Failure
    <3>2. QED
      BY <1>10, <3>1, GotoFacts, FailFacts DEF Told, Calls, Phases
  <2>5. CASE PublishCompleted(w)
    <3>1. /\ scans[s].status = "completed" /\ phase[s] \in {"completed", "none"}
          /\ UNCHANGED <<scans, phase>> /\ <<s, "completed">> \in events'
      BY <1>3, <1>10, <2>5 DEF Fits, AfterCommit, PublishCompleted, Told
    <3>2. QED
      BY <2>5, <3>1, LoopFacts DEF PublishCompleted, Settled
  <2>6. CASE UpdateScanFailed(w)
    <3>1. scans[s] \in Row /\ \A err : FailedRow(scans[s], err).status = "failed"
      BY DEF TypeOK, FailedRow, Row
    <3>2. /\ scans'[s].status = "failed" /\ Goto(w, "publishFailed")
          /\ phase'[s] \in {"failed", "none"}
      BY <1>3, <1>10, <2>6, <3>1 DEF UpdateScanFailed, TypeOK, Told
    <3>3. QED
      BY <1>10, <3>2, GotoFacts DEF Told, Calls
  <2>7. CASE PublishFailed(w)
    <3>1. /\ UNCHANGED <<scans, phase>> /\ <<s, "failed">> \in events'
          /\ ReturnError(w)
          /\ scans[s].status = "failed" /\ phase[s] \in {"failed", "none"}
      BY <1>3, <1>10, <2>7 DEF PublishFailed, Told
    <3>2. Settled(s)'
      BY <3>1 DEF Settled
    <3>3. QED
      BY <1>10, <3>1, <3>2, ReturnFacts DEF Told
  <2>8. CASE Retry(w)
    <3>1. /\ worker'[w].scan = s /\ worker'[w].pc = "initializing"
          /\ \A v \in Workers \ {w} : worker'[v] = worker[v]
      BY <1>10, <2>8 DEF Retry, TypeOK, WorkerState
    <3>2. QED
      BY <3>1 DEF Told
  <2>9. QED
    BY <1>10, <2>3, <2>4, <2>5, <2>6, <2>7, <2>8
<1>11. ASSUME NEW w \in Workers,
              \/ SetScanPhase(w) \/ UpdateScanRunning(w) \/ ScanImage(w)
              \/ PersistScanResults(w) \/ PublishCompleted(w)
              \/ UpdateScanFailed(w) \/ PublishFailed(w) \/ Retry(w)
       PROVE  ToldInv'
  <2>1. worker[w].pc \notin {"BRPop", "exited"}
    BY <1>11 DEF SetScanPhase, UpdateScanRunning, ScanImage, PersistScanResults,
       PublishCompleted, UpdateScanFailed, PublishFailed, Retry, Phases
  <2>2. /\ worker[w].scan \in Scans
        /\ Fits(worker[w], scans[worker[w].scan])
        /\ Told(worker[w], scans[worker[w].scan], phase[worker[w].scan])
        /\ worker[w].err # "start"
    BY <1>1, <1>2, <2>1, AtWork DEF SparedInv, Spared, ToldInv
  <2>3. QED
    BY <1>10, <1>11, <2>2
<1>12. CASE UNCHANGED vars
  BY <1>2, <1>12 DEF vars, ToldInv, Told, Settled, Gone, JobGone, Queued, Held
<1>13. QED
  BY <1>1, <1>2, <1>5, <1>6, <1>7, <1>8, <1>9, <1>11, <1>12
     DEF Next, Api, WorkerStep, Stopping, CreateScan, RerunScan, Unwind,
         PopAfterStop, SigTerm, Kill, Restart

LEMMA CalmInit == Init => CalmInv
BY ConstantsOK DEF Init, CalmInv, SparedInv, ToldInv, AtLoop, Gone

LEMMA CalmAlways == Spec => [](FullInv /\ CalmInv)
<1>1. FullInv /\ CalmInv /\ [Next]_vars => CalmInv'
  <2>1. FullInv /\ CalmInv => TypeOK /\ (ctxDone => stops # 0)
    BY DEF FullInv, CalmInv
  <2>2. QED
    BY <2>1, StopsCounted, SparedStep, ToldStep DEF CalmInv
<1>2. QED
  BY <1>1, FullInductive, FullStep, CalmInit, PTL DEF Spec

(* One failing call, whichever it is, leaves no accepted scan pending for  *)
(* ever: a start that could not be written is followed by the UPDATE that  *)
(* marks the row failed (runner.go runPipeline, processJobWithRetry).      *)
THEOREM OneErrorNeverStrands == Spec => []SingleErrorNeverStrands
<1>1. CalmInv => SingleErrorNeverStrands
  BY DEF CalmInv, OneErrorOnly, SparedInv, Gone, SingleErrorNeverStrands
<1>2. QED
  BY <1>1, CalmAlways, PTL

(* Without faults, once the job of an accepted scan is gone, whatever was  *)
(* cancelled or retried meanwhile, its row, its phase key and the events   *)
(* channel agree on how it ended (runner.go runPipeline).                  *)
THEOREM QuiescentAgreement == Spec => []QuiescentTruth
<1>1. CalmInv => QuiescentTruth
  BY DEF CalmInv, ToldInv, Gone, Settled, QuiescentTruth
<1>2. QED
  BY <1>1, CalmAlways, PTL
=============================================================================
