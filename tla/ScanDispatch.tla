---------------------------- MODULE ScanDispatch ----------------------------
(***************************************************************************)
(* Who asks for scans of an image: the scheduler's tasks, the webhooks and *)
(* the API.  Tasks and webhooks first look whether the image is busy, then *)
(* insert a row and push its job, each in a statement of its own, so they  *)
(* overlap with each other and with the worker.  What the worker does to a *)
(* scan is what ScanLifecycle promises.                                    *)
(*                                                                         *)
(* Sources: internal/scheduler/tasks.go, internal/db/scheduler_store.go,   *)
(* internal/webhook/handler.go, internal/api/handlers_scans.go.            *)
(***************************************************************************)
EXTENDS Naturals, FiniteSets

CONSTANTS
    Images, Scans,
    ManualScans,    \* bound: the scans that API requests create
    PeriodicTasks,  \* runs of periodic_rescan, one per replica at most
    TargetTasks,    \* runs of target_rescan
    DetectionTasks, \* runs of change_detection
    Hooks,          \* deliveries of a webhook, each a goroutine
    NoImage, NoScan,
    MaxAttempts,    \* pipeline attempts per job
    MaxPushes,      \* bound: pushes to the registry
    MaxUpsets       \* bound: calls that fail, jobs that are lost, crashes
                    \* and cancellations

Tasks == PeriodicTasks \cup TargetTasks \cup DetectionTasks
Producers == Tasks \cup Hooks

ASSUME ConstantsOK ==
    /\ IsFiniteSet(Producers) /\ IsFiniteSet(Scans)
    /\ Hooks \cap Tasks = {} /\ ManualScans \subseteq Scans
    /\ NoImage \notin Images /\ NoScan \notin Scans
    /\ MaxAttempts \in Nat \ {0}
    /\ MaxPushes \in Nat /\ MaxUpsets \in Nat

VARIABLES
    content,     \* what the registry serves of each image: a version
    digest,      \* images.digest, 0 for NULL
    status, stage, \* of each scan, as in ScanLifecycle
    imageOf,     \* scans.image_id
    trigger,     \* scans.triggered_by
    attempts,    \* attempts of each scan so far
    run,         \* how far the attempt of each scan has come
    seen,        \* version that the latest attempt of each scan pulled
    producer,    \* the tasks and webhook goroutines
    revived,     \* times a failed or cancelled scan became running again
    busyPushes,  \* pushes of an image while it was busy
    faults, cancels

scanVars == <<status, stage, imageOf, trigger, attempts, run, seen, revived>>
boundVars == <<busyPushes, faults, cancels>>
vars == <<content, digest, scanVars, producer, boundVars>>

Lifecycle == INSTANCE ScanLifecycle

-----------------------------------------------------------------------------

Versions == 1..(MaxPushes + 1)

ProducerPc == {"idle", "next", "getDigest", "precheck", "check", "insert",
               "push", "record", "processed", "dropped"}

\* image: the one being handled; todo: those that remain of the list, rows:
\* the digests read with the list; remote: the version read or announced.
ProducerState == [pc : ProducerPc, image : Images \cup {NoImage},
                  scan : Scans \cup {NoScan}, remote : Versions \cup {0},
                  todo : SUBSET Images, rows : [Images -> Versions \cup {0}]]

NoRows == [i \in Images |-> 0]

At(pc) == [pc |-> pc, image |-> NoImage, scan |-> NoScan, remote |-> 0,
           todo |-> {}, rows |-> NoRows]

Init ==
    /\ content = [i \in Images |-> 1]
    /\ digest = NoRows
    /\ Lifecycle!Init
    /\ imageOf = [s \in Scans |-> NoImage]
    /\ trigger = [s \in Scans |-> "none"]
    /\ attempts = [s \in Scans |-> 0]
    /\ run = [s \in Scans |-> "none"]
    /\ seen = [s \in Scans |-> 0]
    /\ producer = [p \in Producers |-> At("idle")]
    /\ revived = 0 /\ busyPushes = 0 /\ faults = 0 /\ cancels = 0

\* ImageHasPendingOrRunningScan: a failed or cancelled scan does not count,
\* even if its job is still with the worker and will be tried again.
Busy(i) == \E s \in Scans : imageOf[s] = i /\ status[s] \in {"pending", "running"}

\* Mutated forms of MayEnqueue: pending scans are overlooked; any scan of the
\* image counts.
IgnoresPending(i) == \A s \in Scans : ~(imageOf[s] = i /\ status[s] = "running")
OnlyUnscanned(i) == \A s \in Scans : imageOf[s] # i

MayEnqueue(i) == ~Busy(i)

Fault == faults + cancels < MaxUpsets /\ faults' = faults + 1 /\ UNCHANGED <<busyPushes, cancels>>

-----------------------------------------------------------------------------
(* Scans as the API and the worker change them *)

InsertScan(s, i, by) ==
    /\ Lifecycle!Create(s)
    /\ imageOf' = [imageOf EXCEPT ![s] = i]
    /\ trigger' = [trigger EXCEPT ![s] = by]
    /\ UNCHANGED <<attempts, run, seen, revived>>

ScanStep == UNCHANGED <<content, digest, imageOf, trigger, producer>>

\* The API does not look whether the image is busy.
CreateScan(s) ==
    /\ s \in ManualScans /\ \E i \in Images : InsertScan(s, i, "manual")
    /\ UNCHANGED <<content, digest, producer, boundVars>>

SendManual(s) ==
    /\ trigger[s] = "manual" /\ stage[s] = "unsent"
    /\ \/ Lifecycle!Send(s) /\ UNCHANGED boundVars
       \/ Lifecycle!Close(s) /\ Fault
    /\ UNCHANGED <<attempts, run, seen, revived>> /\ ScanStep

CancelScan(s) ==
    /\ faults + cancels < MaxUpsets /\ cancels' = cancels + 1
    /\ Lifecycle!Cancel(s)
    /\ UNCHANGED <<attempts, run, seen, revived, busyPushes, faults>> /\ ScanStep

Claim(s) ==
    /\ Lifecycle!Claim(s)
    /\ UNCHANGED <<attempts, run, seen, revived, boundVars>> /\ ScanStep

\* Mutated forms of AttemptLeft: one attempt more, one fewer.
OneMoreAttempt(s) == attempts[s] <= MaxAttempts
OneFewerAttempt(s) == attempts[s] + 1 < MaxAttempts

AttemptLeft(s) == attempts[s] < MaxAttempts

\* UpdateScanRunning of the next attempt.
Start(s) ==
    /\ run[s] \in {"none", "failed"} /\ AttemptLeft(s)
    /\ Lifecycle!Start(s)
    /\ run' = [run EXCEPT ![s] = "started"]
    /\ attempts' = [attempts EXCEPT ![s] = @ + 1]
    /\ revived' = IF status[s] \in {"failed", "cancelled"} THEN revived + 1
                                                           ELSE revived
    /\ UNCHANGED <<seen, boundVars>> /\ ScanStep

\* Trivy pulls what the registry serves now.
ScanImage(s) ==
    /\ stage[s] = "working" /\ run[s] = "started"
    /\ run' = [run EXCEPT ![s] = "pulled"]
    /\ seen' = [seen EXCEPT ![s] = content[imageOf[s]]]
    /\ UNCHANGED <<status, stage, attempts, revived, boundVars>> /\ ScanStep

Complete(s) ==
    /\ run[s] = "pulled"
    /\ Lifecycle!Complete(s)
    /\ run' = [run EXCEPT ![s] = "over"]
    /\ UNCHANGED <<attempts, seen, revived, boundVars>> /\ ScanStep

\* The pull fails; or, after it, the scanner or the transaction.
Fail(s) ==
    /\ \/ run[s] = "started" /\ Fault
       \/ run[s] = "pulled" /\ UNCHANGED boundVars
    /\ Lifecycle!Fail(s)
    /\ run' = [run EXCEPT ![s] = "failed"]
    /\ UNCHANGED <<attempts, seen, revived>> /\ ScanStep

\* The job is done: no attempt is left, or the failure is not retried.
Finish(s) ==
    /\ stage[s] = "working" /\ run[s] \in {"over", "failed"}
    /\ Lifecycle!Close(s)
    /\ UNCHANGED <<attempts, run, seen, revived, boundVars>> /\ ScanStep

\* The worker stops, or BRPOP's reply is lost.
LoseJob(s) ==
    /\ stage[s] \in {"waiting", "working"}
    /\ Lifecycle!Close(s)
    /\ Fault
    /\ UNCHANGED <<attempts, run, seen, revived>> /\ ScanStep

-----------------------------------------------------------------------------
(* The registry *)

PushImage(i) ==
    /\ content[i] <= MaxPushes
    /\ content' = [content EXCEPT ![i] = @ + 1]
    /\ busyPushes' = IF Busy(i) THEN busyPushes + 1 ELSE busyPushes
    /\ UNCHANGED <<digest, scanVars, producer, faults, cancels>>

-----------------------------------------------------------------------------
(* The scheduler's tasks and the webhooks *)

Set(p, rec) == producer' = [producer EXCEPT ![p] = rec]
GotoPc(p, pc) == Set(p, [producer[p] EXCEPT !.pc = pc])

\* A task goes on with its next image, whatever happened to this one; a
\* webhook has only one.
Leave(p, hookPc) ==
    IF p \in Hooks THEN Set(p, At(hookPc))
    ELSE Set(p, [At("next") EXCEPT !.todo = producer[p].todo,
                                   !.rows = producer[p].rows])

\* A call fails: it is logged, and that is all.
CallFails(p) == Fault /\ Leave(p, "dropped")

NeverCompleted ==
    {i \in Images : ~\E s \in Scans : imageOf[s] = i /\ status[s] = "completed"}

\* The images a task handles are listed when it starts.  Age is not modelled:
\* any image may be due, one that was never scanned always is.
StartTask(p) ==
    /\ p \in Tasks /\ producer[p].pc = "idle"
    /\ \/ /\ p \in DetectionTasks
          /\ Set(p, [At("next") EXCEPT !.todo = Images, !.rows = digest])
       \/ /\ p \notin DetectionTasks
          /\ \E due \in SUBSET Images :
                /\ NeverCompleted \subseteq due
                /\ Set(p, [At("next") EXCEPT !.todo = due])
    /\ UNCHANGED <<content, digest, scanVars, boundVars>>

\* A task whose time is over returns before its next image.
NextImage(p) ==
    /\ producer[p].pc = "next"
    /\ \/ producer[p].todo = {} /\ Set(p, At("idle")) /\ UNCHANGED boundVars
       \/ Fault /\ Set(p, At("idle"))
       \/ \E i \in producer[p].todo :
            /\ Set(p, [producer[p] EXCEPT
                         !.pc = CASE p \in DetectionTasks -> "getDigest"
                                  [] p \in TargetTasks    -> "precheck"
                                  [] OTHER                -> "check",
                         !.image = i, !.todo = producer[p].todo \ {i}])
            /\ UNCHANGED boundVars
    /\ UNCHANGED <<content, digest, scanVars>>

\* A registry calls the webhook after a push; the goroutine records the event
\* and finds or inserts the image, or drops the event if it cannot.
ReceiveWebhook(h, i) ==
    /\ h \in Hooks /\ producer[h].pc = "idle" /\ content[i] > 1
    /\ \/ /\ Set(h, [At("check") EXCEPT !.image = i, !.remote = content[i]])
          /\ UNCHANGED boundVars
       \/ CallFails(h)
    /\ UNCHANGED <<content, digest, scanVars>>

\* Mutated form of SameDigest: no digest is taken for the same digest.
NoDigestIsSame(p) == producer[p].rows[producer[p].image] \in {0, content[producer[p].image]}

\* The digest of the registry is compared with the one read with the list.
SameDigest(p) == producer[p].rows[producer[p].image] = content[producer[p].image]

GetDigest(p) ==
    LET i == producer[p].image
    IN /\ producer[p].pc = "getDigest"
       /\ \/ /\ SameDigest(p)
             /\ Leave(p, "dropped") /\ UNCHANGED boundVars
          \/ /\ ~SameDigest(p)
             /\ Set(p, [producer[p] EXCEPT !.pc = "check", !.remote = content[i]])
             /\ UNCHANGED boundVars
          \/ CallFails(p)
       /\ UNCHANGED <<content, digest, scanVars>>

\* If the image is busy nothing is enqueued and no error is returned, so that
\* change detection goes on to store the digest and a webhook is processed.
CheckBusy(p) ==
    LET i == producer[p].image
    IN /\ producer[p].pc \in {"precheck", "check"}
       /\ \/ /\ MayEnqueue(i) /\ UNCHANGED boundVars
             /\ GotoPc(p, IF producer[p].pc = "precheck" THEN "check" ELSE "insert")
          \/ /\ ~MayEnqueue(i) /\ UNCHANGED boundVars
             /\ IF p \in DetectionTasks \cup Hooks THEN GotoPc(p, "record")
                                                   ELSE Leave(p, "dropped")
          \/ CallFails(p)
       /\ UNCHANGED <<content, digest, scanVars>>

\* InsertScheduledScan, InsertWebhookScan
Insert(p) ==
    /\ producer[p].pc = "insert"
    /\ \/ \E s \in Scans \ ManualScans :
            /\ InsertScan(s, producer[p].image,
                          IF p \in Hooks THEN "webhook" ELSE "schedule")
            /\ Set(p, [producer[p] EXCEPT !.pc = "push", !.scan = s])
            /\ UNCHANGED boundVars
       \/ CallFails(p) /\ UNCHANGED scanVars
    /\ UNCHANGED <<content, digest>>

\* After the push, change detection stores the digest and a webhook marks the
\* event as processed; a rescan has nothing else to do.
Enqueued(p) ==
    IF p \in DetectionTasks \cup Hooks
    THEN Set(p, [producer[p] EXCEPT !.pc = "record", !.scan = NoScan])
    ELSE Leave(p, "dropped")

\* If the push fails the row stays behind, pending for ever.
Push(p) ==
    /\ producer[p].pc = "push"
    /\ \/ Lifecycle!Send(producer[p].scan) /\ Enqueued(p) /\ UNCHANGED boundVars
       \/ Lifecycle!Close(producer[p].scan) /\ CallFails(p)
    /\ UNCHANGED <<content, digest, imageOf, trigger, attempts, run, seen, revived>>

\* UpdateImageDigest, MarkWebhookEventProcessed
Record(p) ==
    /\ producer[p].pc = "record"
    /\ \/ /\ p \in DetectionTasks
          /\ digest' = [digest EXCEPT ![producer[p].image] = producer[p].remote]
          /\ Leave(p, "dropped") /\ UNCHANGED boundVars
       \/ /\ p \in Hooks
          /\ Set(p, [At("processed") EXCEPT !.image = producer[p].image,
                                            !.remote = producer[p].remote])
          /\ UNCHANGED <<digest, boundVars>>
       \/ CallFails(p) /\ UNCHANGED digest
    /\ UNCHANGED <<content, scanVars>>

\* The API process, which runs tasks and webhooks, stops and starts again:
\* tasks start from their lists, webhooks are gone, and a row whose job was
\* not pushed yet never will be.
Crash ==
    /\ Fault
    /\ producer' = [p \in Producers |->
                      IF p \in Hooks /\ producer[p].pc # "idle"
                      THEN IF producer[p].pc = "processed" THEN producer[p]
                                                           ELSE At("dropped")
                      ELSE At("idle")]
    /\ stage' = [s \in Scans |->
                   IF stage[s] = "unsent" /\ status[s] # "absent" THEN "closed"
                                                                 ELSE stage[s]]
    /\ UNCHANGED <<content, digest, status, imageOf, trigger, attempts, run,
                   seen, revived>>

-----------------------------------------------------------------------------

Produce(p) ==
    \/ StartTask(p)
    \/ NextImage(p)
    \/ GetDigest(p)
    \/ CheckBusy(p)
    \/ Insert(p)
    \/ Push(p)
    \/ Record(p)

Work(s) ==
    \/ Claim(s)
    \/ Start(s)
    \/ ScanImage(s)
    \/ Complete(s)
    \/ Fail(s)
    \/ Finish(s)

Next ==
    \/ \E p \in Producers : Produce(p)
    \/ \E h \in Hooks, i \in Images : ReceiveWebhook(h, i)
    \/ \E s \in Scans : Work(s) \/ CreateScan(s) \/ SendManual(s)
                        \/ CancelScan(s) \/ LoseJob(s)
    \/ \E i \in Images : PushImage(i)
    \/ Crash

Spec == Init /\ [][Next]_vars

\* Tickers start each task again and again, on some replica, every goroutine
\* runs, calls return, and the worker works on what is in the list.  Requests,
\* pushes, deliveries of webhooks, cancellations and faults need not happen.
Fairness ==
    /\ \A task \in {PeriodicTasks, TargetTasks, DetectionTasks} :
           WF_vars(\E p \in task : StartTask(p))
    /\ \A p \in Producers : WF_vars(producer[p].pc # "idle" /\ Produce(p))
    /\ \A s \in Scans : WF_vars(Work(s))
    /\ \A s \in ManualScans : WF_vars(SendManual(s))

FairSpec == Spec /\ Fairness

-----------------------------------------------------------------------------
(* Properties *)

TypeOK ==
    /\ content \in [Images -> Versions]
    /\ digest \in [Images -> Versions \cup {0}]
    /\ status \in [Scans -> {"absent", "pending", "running", "completed",
                            "failed", "cancelled"}]
    /\ stage \in [Scans -> {"unsent", "waiting", "working", "closed"}]
    /\ imageOf \in [Scans -> Images \cup {NoImage}]
    /\ trigger \in [Scans -> {"none", "manual", "schedule", "webhook"}]
    /\ attempts \in [Scans -> 0..MaxAttempts]
    /\ run \in [Scans -> {"none", "started", "pulled", "failed", "over"}]
    /\ seen \in [Scans -> Versions \cup {0}]
    /\ producer \in [Producers -> ProducerState]
    /\ revived \in Nat /\ busyPushes \in Nat
    /\ faults \in 0..MaxUpsets /\ cancels \in 0..MaxUpsets

\* Scans of an image, other than those a user asked for, that the busy check
\* counts; producers that have passed the check and will insert one more.
Active(i) == {s \in Scans : /\ imageOf[s] = i /\ trigger[s] # "manual"
                           /\ status[s] \in {"pending", "running"}}
Inserting(i) == {p \in Producers : producer[p].pc = "insert" /\ producer[p].image = i}

\* The check and the insert of a scan are separate statements, so an image
\* may have several automatic scans at once, but never more than there are
\* tasks and webhook goroutines, plus one for each scan that looked finished
\* and was tried again (enqueueScheduledScan, processAsync).
DuplicatesBounded ==
    \A i \in Images :
        Cardinality(Active(i)) + Cardinality(Inserting(i))
            <= Cardinality(Producers) + revived

\* If no call failed and no push came while the image was busy, a stored digest
\* of the present content means that a scan has pulled that content, or that
\* the job of one is still under way (runChangeDetection).
ChangesAreScanned ==
    faults = 0 /\ busyPushes = 0 =>
        \A i \in Images :
            digest[i] = content[i] =>
                \E s \in Scans : /\ imageOf[s] = i
                                 /\ seen[s] = content[i] \/ stage[s] # "closed"

\* Two replicas may run change detection at once and each store a digest it
\* read before, an older one over a newer one; calls may fail and jobs be lost.
\* Once nothing is pushed any more the stored digest becomes the content and
\* stays so (runChangeDetection).
DigestConverges == \A i \in Images : <>[](digest[i] = content[i])

Pulled(i) == \E s \in Scans : imageOf[s] = i /\ seen[s] > 0

\* As long as nothing fails, the tasks get every image scanned.
EveryImageIsScanned == \A i \in Images : <>(Pulled(i) \/ faults > 0)

\* README.md:169: an image is considered stale, and rescanned, after a time.
StaleImagesAreRescanned == \A i \in Images : <>Pulled(i)

\* README.md:3: webhooks trigger scans on push events.
PushIsScanned ==
    \A h \in Hooks :
        producer[h].pc = "processed" ~>
            \E s \in Scans : /\ imageOf[s] = producer[h].image
                             /\ seen[s] >= producer[h].remote
=============================================================================
