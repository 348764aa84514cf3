---------------------------- MODULE ScanPipeline ----------------------------
(***************************************************************************)
(* The path of a scan through the system: the API inserts a row of table   *)
(* scans and pushes a job on the Redis list; a pool of worker goroutines   *)
(* pops jobs, runs the scanner and writes the row, the per-scan phase key  *)
(* and the events channel.  Every call to Redis, Postgres or the scanner   *)
(* is one step, so the interleavings of workers, API requests, failing     *)
(* calls and process stops are those of the program.                       *)
(*                                                                         *)
(* Sources: internal/worker/runner.go, internal/scanqueue/scanqueue.go,    *)
(* internal/db/scans.go, internal/db/persist_scan.go,                      *)
(* internal/db/scans_api_store.go, internal/api/handlers_scans.go.         *)
(***************************************************************************)
EXTENDS Naturals, Sequences

CONSTANTS
    Scans,          \* ids of scans that requests may create
    Workers,        \* goroutines of the worker pool (PoolSize of them)
    NoScan,         \* what a worker without a job holds
    MaxRetries,     \* Runner.MaxRetries, pipeline attempts per job
    MaxErrors,      \* bound: calls that fail without effect
    MaxLostReplies, \* bound: calls that take effect but whose reply is lost
    MaxStops        \* bound: stops of the worker process

ASSUME ConstantsOK ==
    /\ NoScan \notin Scans
    /\ MaxRetries \in Nat \ {0}    \* initDefaults replaces values <= 0
    /\ MaxErrors \in Nat
    /\ MaxLostReplies \in Nat
    /\ MaxStops \in Nat

VARIABLES
    scans,       \* table scans
    request,     \* the API request that creates each scan
    queue,       \* the Redis list, next job to pop first
    phase,       \* the key vullify:scan:<id>:phase
    events,      \* what was published on the events channel, ever
    worker,      \* the goroutines of the pool
    ctxDone,     \* the worker process's context is cancelled
    errors, lostReplies, stops   \* faults so far

faultVars == <<errors, lostReplies, stops>>
vars == <<scans, request, queue, phase, events, worker, ctxDone, faultVars>>

-----------------------------------------------------------------------------
(* Types *)

Status == {"absent", "pending", "running", "completed", "failed", "cancelled"}
Phases == {"initializing", "scanning", "persisting", "completed", "failed"}

\* Why an attempt failed: UpdateScanRunning, an image that cannot be pulled,
\* any other scanner failure, PersistScanResults.
Failure == {"none", "start", "pull", "scan", "persist"}

\* A row: `results' says that the findings, SBOMs and counts of an attempt
\* are stored (they are written and replaced in one transaction).
Row == [status : Status, started : BOOLEAN, completedAt : BOOLEAN,
        error : Failure, results : BOOLEAN]

\* A worker's pc is the call it makes next; a phase's name stands for the
\* SETEX that writes that phase.
Calls == Phases \cup {"BRPop", "UpdateScanRunning", "ScanImage",
                      "PersistScanResults", "UpdateScanFailed",
                      "publishCompleted", "publishFailed", "backoff",
                      "exited"}

WorkerState == [pc : Calls, scan : Scans \cup {NoScan},
                attempt : 0..MaxRetries, err : Failure]

NoRow == [status |-> "absent", started |-> FALSE, completedAt |-> FALSE,
          error |-> "none", results |-> FALSE]

AtLoop(pc) == [pc |-> pc, scan |-> NoScan, attempt |-> 0, err |-> "none"]

Init ==
    /\ scans = [s \in Scans |-> NoRow]
    /\ request = [s \in Scans |-> "none"]
    /\ queue = <<>>
    /\ phase = [s \in Scans |-> "none"]
    /\ events = {}
    /\ worker = [w \in Workers |-> AtLoop("BRPop")]
    /\ ctxDone = FALSE
    /\ errors = 0 /\ lostReplies = 0 /\ stops = 0

-----------------------------------------------------------------------------
(* Faults.  A call fails without effect, or takes effect and its reply is  *)
(* lost (the go-redis client then repeats the command; a COMMIT then       *)
(* returns an error although it was applied).                              *)

CallOk == UNCHANGED faultVars

CallFails ==
    /\ errors < MaxErrors
    /\ errors' = errors + 1
    /\ UNCHANGED <<lostReplies, stops>>

ReplyLost ==
    /\ lostReplies < MaxLostReplies
    /\ lostReplies' = lostReplies + 1
    /\ UNCHANGED <<errors, stops>>

-----------------------------------------------------------------------------
(* The API: a scan request inserts the row, then pushes the job *)

InsertManualScan(s) ==
    /\ scans' = [scans EXCEPT ![s] = [NoRow EXCEPT !.status = "pending"]]
    /\ request' = [request EXCEPT ![s] = "inserted"]
    /\ UNCHANGED <<queue, phase, events, worker, ctxDone, faultVars>>

CreateScan(s) == request[s] = "none" /\ InsertManualScan(s)

\* A rerun starts from a scan that exists and inserts a row of its own.
RerunScan(prev, s) ==
    /\ scans[prev].status # "absent"
    /\ request[s] = "none"
    /\ InsertManualScan(s)

\* The request goes on to LPUSH its job and answers 201; it answers 500 if a
\* call after the push fails (or the push reports an error it did not have);
\* a push whose reply is lost is repeated by the client.
Enqueue(s) ==
    /\ request[s] = "inserted"
    /\ \/ /\ CallOk
          /\ queue' = Append(queue, s)
          /\ request' = [request EXCEPT ![s] = "created"]
       \/ /\ CallFails
          /\ queue' = Append(queue, s)
          /\ request' = [request EXCEPT ![s] = "error"]
       \/ /\ ReplyLost
          /\ queue' = Append(Append(queue, s), s)
          /\ request' = [request EXCEPT ![s] = "created"]
    /\ UNCHANGED <<scans, phase, events, worker, ctxDone>>

\* Mutated form of AbandonRequest: the error of the push is swallowed.
IgnorePushError(s) ==
    /\ request[s] = "inserted"
    /\ CallFails
    /\ request' = [request EXCEPT ![s] = "created"]
    /\ UNCHANGED <<scans, queue, phase, events, worker, ctxDone>>

\* A call between the insert and the push fails, the push fails, or the
\* client goes away and cancels the request's context: the row stays.
AbandonRequest(s) ==
    /\ request[s] = "inserted"
    /\ CallFails
    /\ request' = [request EXCEPT ![s] = "error"]
    /\ UNCHANGED <<scans, queue, phase, events, worker, ctxDone>>

\* Mutated form of CancelScan: the UPDATE has no condition on the status.
CancelAnyScan(s) ==
    /\ scans[s].status # "absent"
    /\ scans' = [scans EXCEPT ![s] =
                    [@ EXCEPT !.status = "cancelled", !.completedAt = TRUE]]
    /\ UNCHANGED <<request, queue, phase, events, worker, ctxDone, faultVars>>

\* POST /scans/{id}/cancel: the row only; the job and the worker go on.
CancelScan(s) ==
    /\ scans[s].status \in {"pending", "running"}
    /\ scans' = [scans EXCEPT ![s] =
                    [@ EXCEPT !.status = "cancelled", !.completedAt = TRUE]]
    /\ UNCHANGED <<request, queue, phase, events, worker, ctxDone, faultVars>>

\* The phase key outlives its 30 minutes.
ExpirePhase(s) ==
    /\ phase[s] # "none"
    /\ phase' = [phase EXCEPT ![s] = "none"]
    /\ UNCHANGED <<scans, request, queue, events, worker, ctxDone, faultVars>>

-----------------------------------------------------------------------------
(* A worker goroutine *)

Goto(w, pc) == worker' = [worker EXCEPT ![w] = [@ EXCEPT !.pc = pc]]

Fail(w, err) ==
    worker' = [worker EXCEPT ![w] = [@ EXCEPT !.pc = "failed", !.err = err]]

\* Mutated form of TakeJob: the job is read and stays in the list.
PeekJob == queue # <<>> /\ UNCHANGED queue

\* BRPOP takes the job off the list before anything is done about it.
TakeJob == queue # <<>> /\ queue' = Tail(queue)

Pop(w) ==
    /\ worker[w].pc = "BRPop" /\ ~ctxDone
    /\ TakeJob
    /\ \/ /\ CallOk
          /\ worker' = [worker EXCEPT ![w] =
                [pc |-> "initializing", scan |-> Head(queue),
                 attempt |-> 1, err |-> "none"]]
       \/ ReplyLost /\ UNCHANGED worker
    /\ UNCHANGED <<scans, request, phase, events, ctxDone>>

\* Mutated forms of CallAfterPhase: the event is published before the results
\* are persisted; a failed attempt is announced and its row not marked.
PublishFirst(ph, err) ==
    CASE ph = "initializing" -> "UpdateScanRunning"
      [] ph = "scanning"     -> "ScanImage"
      [] ph = "persisting"   -> "publishCompleted"
      [] OTHER               -> "UpdateScanFailed"

NeverMarksFailed(ph, err) ==
    CASE ph = "initializing" -> "UpdateScanRunning"
      [] ph = "scanning"     -> "ScanImage"
      [] ph = "persisting"   -> "PersistScanResults"
      [] ph = "completed"    -> "publishCompleted"
      [] ph = "failed"       -> "publishFailed"

\* What the pipeline calls after setScanPhase(ph): a failed start publishes
\* before it marks the row, the other failures after.
CallAfterPhase(ph, err) ==
    CASE ph = "initializing" -> "UpdateScanRunning"
      [] ph = "scanning"     -> "ScanImage"
      [] ph = "persisting"   -> "PersistScanResults"
      [] ph = "completed"    -> "publishCompleted"
      [] ph = "failed"       -> IF err = "start" THEN "publishFailed"
                                                 ELSE "UpdateScanFailed"

\* The errors of setScanPhase are ignored.
SetScanPhase(w) ==
    /\ worker[w].pc \in Phases /\ ~ctxDone
    /\ \/ CallOk /\ phase' = [phase EXCEPT ![worker[w].scan] = worker[w].pc]
       \/ CallFails /\ UNCHANGED phase
    /\ Goto(w, CallAfterPhase(worker[w].pc, worker[w].err))
    /\ UNCHANGED <<scans, request, queue, events, ctxDone>>

\* Unconditional: whatever the status was, it becomes running.
RunningRow(row) == [row EXCEPT !.status = "running", !.started = TRUE]

UpdateScanRunning(w) ==
    LET s == worker[w].scan
        Updated == [scans EXCEPT ![s] = RunningRow(@)]
    IN /\ worker[w].pc = "UpdateScanRunning" /\ ~ctxDone
       /\ \/ CallOk /\ scans' = Updated /\ Goto(w, "scanning")
          \/ CallFails /\ UNCHANGED scans /\ Fail(w, "start")
          \/ ReplyLost /\ scans' = Updated /\ Fail(w, "start")
       /\ UNCHANGED <<request, queue, phase, events, ctxDone>>

\* Trivy succeeds, cannot pull the image, or fails otherwise (or times out).
ScanImage(w) ==
    /\ worker[w].pc = "ScanImage" /\ ~ctxDone
    /\ \/ Goto(w, "persisting")
       \/ Fail(w, "pull")
       \/ Fail(w, "scan")
    /\ UNCHANGED <<scans, request, queue, phase, events, ctxDone, faultVars>>

\* Mutated form of CompletedRow: the error of an earlier attempt stays.
CompletedKeepsError(row) ==
    [row EXCEPT !.status = "completed", !.completedAt = TRUE, !.results = TRUE]

\* One transaction replaces the scan's findings and completes the row; it is
\* rolled back if a statement fails (the database may refuse the data of every
\* attempt, so this is not counted as a fault).
CompletedRow(row) ==
    [row EXCEPT !.status = "completed", !.completedAt = TRUE,
                !.error = "none", !.results = TRUE]

PersistScanResults(w) ==
    LET s == worker[w].scan
        Committed == [scans EXCEPT ![s] = CompletedRow(@)]
    IN /\ worker[w].pc = "PersistScanResults" /\ ~ctxDone
       /\ \/ CallOk /\ scans' = Committed /\ Goto(w, "completed")
          \/ CallOk /\ UNCHANGED scans /\ Fail(w, "persist")
          \/ ReplyLost /\ scans' = Committed /\ Fail(w, "persist")
       /\ UNCHANGED <<request, queue, phase, events, ctxDone>>

\* Mutated form of PublishCompleted: an event that is not sent fails the
\* attempt.
PublishOrFail(w) ==
    /\ worker[w].pc = "publishCompleted" /\ ~ctxDone
    /\ \/ /\ CallOk
          /\ events' = events \cup {<<worker[w].scan, "completed">>}
          /\ worker' = [worker EXCEPT ![w] = AtLoop("BRPop")]
       \/ CallFails /\ Fail(w, "persist") /\ UNCHANGED events
    /\ UNCHANGED <<scans, request, queue, phase, ctxDone>>

\* The events channel is pub/sub: what is published is not stored.
PublishCompleted(w) ==
    /\ worker[w].pc = "publishCompleted" /\ ~ctxDone
    /\ \/ CallOk /\ events' = events \cup {<<worker[w].scan, "completed">>}
       \/ CallFails /\ UNCHANGED events
    /\ worker' = [worker EXCEPT ![w] = AtLoop("BRPop")]
    /\ UNCHANGED <<scans, request, queue, phase, ctxDone>>

\* Mutated forms of GivesUp: one attempt too many; pull failures retried.
GivesUpLate(w) == worker[w].err = "pull" \/ worker[w].attempt > MaxRetries
RetriesPulls(w) == worker[w].attempt = MaxRetries

\* Pull failures and the last attempt end the job.
GivesUp(w) == worker[w].err = "pull" \/ worker[w].attempt = MaxRetries

\* runPipeline returns an error to processJobWithRetry.
ReturnError(w) ==
    worker' = [worker EXCEPT ![w] =
        IF GivesUp(w) THEN AtLoop("BRPop")
        ELSE [@ EXCEPT !.pc = "backoff", !.err = "none"]]

\* Unconditional as well, and its error is ignored.
FailedRow(row, err) ==
    [row EXCEPT !.status = "failed", !.completedAt = TRUE, !.error = err]

UpdateScanFailed(w) ==
    /\ worker[w].pc = "UpdateScanFailed" /\ ~ctxDone
    /\ \/ /\ CallOk
          /\ scans' = [scans EXCEPT ![worker[w].scan] =
                          FailedRow(@, worker[w].err)]
       \/ CallFails /\ UNCHANGED scans
    /\ IF worker[w].err = "start" THEN ReturnError(w)
                                  ELSE Goto(w, "publishFailed")
    /\ UNCHANGED <<request, queue, phase, events, ctxDone>>

PublishFailed(w) ==
    /\ worker[w].pc = "publishFailed" /\ ~ctxDone
    /\ \/ CallOk /\ events' = events \cup {<<worker[w].scan, "failed">>}
       \/ CallFails /\ UNCHANGED events
    /\ IF worker[w].err = "start" THEN Goto(w, "UpdateScanFailed")
                                  ELSE ReturnError(w)
    /\ UNCHANGED <<scans, request, queue, phase, ctxDone>>

\* Mutated form of Retry: the attempt is not counted.
RetryUncounted(w) ==
    /\ worker[w].pc = "backoff" /\ ~ctxDone
    /\ Goto(w, "initializing")
    /\ UNCHANGED <<scans, request, queue, phase, events, ctxDone, faultVars>>

\* The backoff is over: next attempt.
Retry(w) ==
    /\ worker[w].pc = "backoff" /\ ~ctxDone
    /\ worker' = [worker EXCEPT ![w] =
                     [@ EXCEPT !.pc = "initializing",
                               !.attempt = worker[w].attempt + 1]]
    /\ UNCHANGED <<scans, request, queue, phase, events, ctxDone, faultVars>>

-----------------------------------------------------------------------------
(* The worker process stops and starts again.  A crash is a SigTerm        *)
(* followed at once by a Kill.                                             *)

SigTerm ==
    /\ ~ctxDone /\ stops < MaxStops
    /\ ctxDone' = TRUE
    /\ stops' = stops + 1
    /\ UNCHANGED <<scans, request, queue, phase, events, worker, errors,
                   lostReplies>>

\* With the context cancelled every remaining call of an attempt fails, and
\* so does the backoff: the goroutine leaves its job where it stands.  One
\* that sees the context at the top of its loop leaves without a job.
Unwind(w) ==
    /\ ctxDone /\ worker[w].pc # "exited"
    /\ worker' = [worker EXCEPT ![w] = AtLoop("exited")]
    /\ UNCHANGED <<scans, request, queue, phase, events, ctxDone, faultVars>>

\* A goroutine blocked in BRPOP is not woken by the context: it takes the
\* next job off the list, all calls fail, and only then does it leave.
PopAfterStop(w) ==
    /\ ctxDone /\ worker[w].pc = "BRPop"
    /\ TakeJob
    /\ worker' = [worker EXCEPT ![w] = AtLoop("exited")]
    /\ UNCHANGED <<scans, request, phase, events, ctxDone, faultVars>>

Kill ==
    /\ ctxDone
    /\ worker' = [w \in Workers |-> AtLoop("exited")]
    /\ UNCHANGED <<scans, request, queue, phase, events, ctxDone, faultVars>>

\* Nothing looks for scans that the stopped process left pending or running.
Restart ==
    /\ ctxDone /\ \A w \in Workers : worker[w].pc = "exited"
    /\ ctxDone' = FALSE
    /\ worker' = [w \in Workers |-> AtLoop("BRPop")]
    /\ UNCHANGED <<scans, request, queue, phase, events, faultVars>>

-----------------------------------------------------------------------------

Api(s) ==
    \/ CreateScan(s)
    \/ \E prev \in Scans : RerunScan(prev, s)
    \/ Enqueue(s)
    \/ AbandonRequest(s)
    \/ CancelScan(s)

WorkerStep(w) ==
    \/ Pop(w)
    \/ SetScanPhase(w)
    \/ UpdateScanRunning(w)
    \/ ScanImage(w)
    \/ PersistScanResults(w)
    \/ PublishCompleted(w)
    \/ UpdateScanFailed(w)
    \/ PublishFailed(w)
    \/ Retry(w)

Stopping(w) == Unwind(w) \/ PopAfterStop(w)

Next ==
    \/ \E s \in Scans : Api(s) \/ ExpirePhase(s)
    \/ \E w \in Workers : WorkerStep(w) \/ Stopping(w)
    \/ SigTerm
    \/ Kill
    \/ Restart

Spec == Init /\ [][Next]_vars

\* The Go scheduler runs every goroutine, calls return (ScanImage has a
\* timeout), and a stopped worker process is started again by its supervisor.
\* Nothing makes clients send requests, and nothing repairs a request.
Fairness ==
    /\ \A w \in Workers : WF_vars(WorkerStep(w)) /\ WF_vars(Stopping(w))
    /\ WF_vars(Restart)

FairSpec == Spec /\ Fairness

-----------------------------------------------------------------------------
(* Properties *)

\* Every variable has its type, and the faults are within their bounds.
TypeOK ==
    /\ scans \in [Scans -> Row]
    /\ request \in [Scans -> {"none", "inserted", "created", "error"}]
    /\ queue \in Seq(Scans)
    /\ phase \in [Scans -> Phases \cup {"none"}]
    /\ events \subseteq Scans \X {"completed", "failed"}
    /\ worker \in [Workers -> WorkerState]
    /\ ctxDone \in BOOLEAN
    /\ errors \in 0..MaxErrors
    /\ lostReplies \in 0..MaxLostReplies
    /\ stops \in 0..MaxStops

Queued(s) == \E i \in 1..Len(queue) : queue[i] = s
Held(s) == \E w \in Workers : worker[w].scan = s
JobGone(s) == ~Queued(s) /\ ~Held(s)

NoFaults == errors = 0 /\ lostReplies = 0 /\ stops = 0

\* Unless a push was repeated, a scan has one job at most: it is in the list
\* once, or with one worker (LPUSH and BRPOP in scanqueue.Enqueue, workerLoop).
SingleOwner ==
    lostReplies = 0 =>
        /\ \A i, j \in 1..Len(queue) : queue[i] = queue[j] => i = j
        /\ \A w \in Workers : ~Queued(worker[w].scan)
        /\ \A v, w \in Workers :
              worker[v].scan = worker[w].scan /\ worker[v].scan # NoScan => v = w

\* What the API reads from a row is consistent in every state, whatever calls
\* failed, repeated or raced: a completed scan has started, has the results of
\* an attempt and no error left from an earlier one (persist_scan.go resets
\* it), a failed one says why, and a terminal one has its completed_at.
RowConsistent ==
    \A s \in Scans :
        LET row == scans[s] IN
        /\ row.status = "running" => row.started
        /\ row.status = "completed" =>
              row.started /\ row.results /\ row.error = "none"
        /\ row.status = "failed" => row.error # "none"
        /\ row.status \in {"completed", "failed", "cancelled"} => row.completedAt

\* The enricher reads the findings of a scan when it hears that the scan
\* completed: they are committed by then (PersistScanResults, then publish).
CompletedEventTruthful ==
    \A s \in Scans : <<s, "completed">> \in events => scans[s].results

\* The progress endpoint prefers the phase key to the row.  Unless a reply was
\* lost, it never says completed of a scan whose row does not.
CompletedPhaseTruthful ==
    lostReplies = 0 =>
        \A s \in Scans : phase[s] = "completed" => scans[s].status = "completed"

\* Unless a reply was lost, a completed scan never changes again, although no
\* UPDATE of the worker looks at the status it overwrites (scans.go:27-92).
CompletedIsFinal ==
    [][\A s \in Scans :
         lostReplies' = 0 /\ scans[s].status = "completed" =>
             scans'[s] = scans[s]]_vars

\* Unless a reply was lost, a scan that failed because the image cannot be
\* pulled stays failed: it is not retried (runner.go:133).
PullFailureIsFinal ==
    [][\A s \in Scans :
         lostReplies' = 0 /\ scans[s].status = "failed" /\ scans[s].error = "pull"
             => scans'[s] = scans[s]]_vars

\* One failing call, wherever it is, leaves no accepted scan pending for ever:
\* its job is still there, or the row has moved on.
SingleErrorNeverStrands ==
    errors <= 1 /\ lostReplies = 0 /\ stops = 0 =>
        \A s \in Scans :
            request[s] = "created" /\ scans[s].status = "pending" => ~JobGone(s)

\* Without faults, once the job of a scan is gone the row, the phase key and
\* the event agree on how it ended.  In particular a cancellation does not
\* last: the worker's UPDATE always comes after it.
QuiescentTruth ==
    NoFaults =>
        \A s \in Scans :
            request[s] = "created" /\ JobGone(s) =>
                /\ scans[s].status \in {"completed", "failed"}
                /\ phase[s] \in {scans[s].status, "none"}
                /\ <<s, scans[s].status>> \in events

\* Every job that was pushed ends, whatever fails and whenever the worker
\* process stops, because attempts are bounded (processJobWithRetry).
JobsEnd == \A s \in Scans : Queued(s) ~> JobGone(s)

\* As long as there is no fault, every accepted scan ends completed or failed.
AcceptedScansSettle ==
    \A s \in Scans :
        NoFaults /\ request[s] = "created" ~>
            \/ JobGone(s) /\ scans[s].status \in {"completed", "failed"}
            \/ ~NoFaults

\* README.md:78: a scan is pending until the worker process runs; the worker
\* picks up the job and updates the scan.
PendingIsPickedUp ==
    \A s \in Scans :
        request[s] = "created" /\ scans[s].status = "pending" /\ ~ctxDone
            ~> scans[s].status # "pending"

-----------------------------------------------------------------------------
(* The abstract specification and the refinement mapping *)

StageOf(s) ==
    IF Queued(s) THEN "waiting"
    ELSE IF Held(s) THEN "working"
    ELSE IF request[s] \in {"none", "inserted"} THEN "unsent" ELSE "closed"

Lifecycle == INSTANCE ScanLifecycle WITH
    status <- [s \in Scans |-> scans[s].status],
    stage <- [s \in Scans |-> StageOf(s)]

\* With MaxLostReplies = 0, the pipeline keeps the promises of ScanLifecycle:
\* every step of it is a step of the abstract machine, or changes neither the
\* status nor the stage of a scan.
ImplementsLifecycle == Lifecycle!Spec
=============================================================================
