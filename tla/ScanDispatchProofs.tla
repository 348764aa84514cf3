------------------------ MODULE ScanDispatchProofs ------------------------
(* Theorems about ScanDispatch, for every set of images and scans, any      *)
(* number of tasks and webhook goroutines, and any bounds.                  *)
EXTENDS ScanDispatch, FiniteSetTheorems, TLAPS

-----------------------------------------------------------------------------
(* What the rows and the producers' records say beyond their types: the job *)
(* of a scan exists only after its row, which names an image; a producer    *)
(* that handles an image knows which.                                       *)

RowsNameImages ==
    \A s \in Scans :
        IF status[s] = "absent" THEN stage[s] = "unsent" /\ imageOf[s] = NoImage
                                ELSE imageOf[s] \in Images

Handling == {"getDigest", "precheck", "check", "insert", "push", "record"}

HandlersNameImages ==
    \A p \in Producers : producer[p].pc \in Handling => producer[p].image \in Images

TypeInv == TypeOK /\ RowsNameImages /\ HandlersNameImages

ScanTypes ==
    /\ status \in [Scans -> {"absent", "pending", "running", "completed",
                            "failed", "cancelled"}]
    /\ stage \in [Scans -> {"unsent", "waiting", "working", "closed"}]
    /\ imageOf \in [Scans -> Images \cup {NoImage}]
    /\ trigger \in [Scans -> {"none", "manual", "schedule", "webhook"}]

(* A step of one scan that is not its creation. *)
LifecycleStep(s) ==
    \/ Lifecycle!Send(s) \/ Lifecycle!Claim(s) \/ Lifecycle!Close(s)
    \/ Lifecycle!Start(s) \/ Lifecycle!Complete(s) \/ Lifecycle!Fail(s)
    \/ Lifecycle!Cancel(s)

LEMMA LifecycleFacts ==
    ASSUME TypeInv, NEW s \in Scans, LifecycleStep(s), UNCHANGED <<imageOf, trigger>>
    PROVE  ScanTypes' /\ RowsNameImages'
<1>1. ScanTypes'
  BY DEF TypeInv, TypeOK, ScanTypes, LifecycleStep, Lifecycle!Send,
     Lifecycle!Claim, Lifecycle!Close, Lifecycle!Start, Lifecycle!Complete,
     Lifecycle!Fail, Lifecycle!Cancel, Lifecycle!SetStatus, Lifecycle!SetStage
<1>2. ASSUME NEW t \in Scans
      PROVE  /\ status'[t] = "absent" <=> status[t] = "absent"
             /\ status[t] = "absent" => stage'[t] = stage[t]
  BY DEF TypeInv, TypeOK, RowsNameImages, LifecycleStep, Lifecycle!Send,
     Lifecycle!Claim, Lifecycle!Close, Lifecycle!Start, Lifecycle!Complete,
     Lifecycle!Fail, Lifecycle!Cancel, Lifecycle!SetStatus, Lifecycle!SetStage
<1>3. QED
  BY <1>1, <1>2 DEF TypeInv, RowsNameImages

LEMMA InsertFacts ==
    ASSUME TypeInv, NEW s \in Scans, NEW i \in Images,
           NEW by \in {"manual", "schedule", "webhook"}, InsertScan(s, i, by)
    PROVE  ScanTypes' /\ RowsNameImages'
<1>1. ScanTypes'
  BY DEF TypeInv, TypeOK, ScanTypes, InsertScan, Lifecycle!Create, Lifecycle!SetStatus
<1>2. imageOf'[s] = i /\ status'[s] = "pending"
  BY DEF TypeInv, TypeOK, InsertScan, Lifecycle!Create, Lifecycle!SetStatus
<1>3. \A t \in Scans \ {s} : status'[t] = status[t] /\ imageOf'[t] = imageOf[t]
  BY DEF TypeInv, TypeOK, InsertScan, Lifecycle!Create, Lifecycle!SetStatus
<1>4. stage' = stage
  BY DEF InsertScan, Lifecycle!Create, Lifecycle!SetStatus
<1>5. QED
  BY <1>1, <1>2, <1>3, <1>4 DEF TypeInv, RowsNameImages

LEMMA ProducerFacts ==
    ASSUME TypeInv, NEW p \in Producers, NEW rec \in ProducerState, Set(p, rec),
           rec.pc \in Handling => rec.image \in Images
    PROVE  /\ producer' \in [Producers -> ProducerState]
           /\ HandlersNameImages'
           /\ producer'[p] = rec
           /\ \A q \in Producers \ {p} : producer'[q] = producer[q]
BY DEF TypeInv, TypeOK, HandlersNameImages, Set

(* The records that a producer may be given. *)
LEMMA AtFacts ==
    ASSUME NEW pc \in ProducerPc
    PROVE  /\ At(pc) \in ProducerState
           /\ At(pc).pc = pc /\ At(pc).image = NoImage
           /\ At(pc).todo = {} /\ At(pc).rows = NoRows
BY DEF At, ProducerState, NoRows

LEMMA LeaveFacts ==
    ASSUME TypeInv, NEW p \in Producers, NEW pc \in {"processed", "dropped"},
           Leave(p, pc)
    PROVE  /\ producer' \in [Producers -> ProducerState]
           /\ HandlersNameImages'
           /\ producer'[p].pc \notin Handling
           /\ \A q \in Producers \ {p} : producer'[q] = producer[q]
<1>1. CASE p \in Hooks
  <2>1. Set(p, At(pc))
    BY <1>1 DEF Leave
  <2>2. At(pc) \in ProducerState /\ At(pc).pc \notin Handling
    BY AtFacts DEF Handling, ProducerPc
  <2>3. QED
    BY <2>1, <2>2, ProducerFacts
<1>2. CASE p \notin Hooks
  <2> DEFINE rec == [At("next") EXCEPT !.todo = producer[p].todo,
                                       !.rows = producer[p].rows]
  <2>1. Set(p, rec)
    BY <1>2 DEF Leave
  <2>2. producer[p] \in ProducerState
    BY DEF TypeInv, TypeOK
  <2>3. rec \in ProducerState /\ rec.pc = "next"
    BY <2>2 DEF At, ProducerState, ProducerPc, NoRows
  <2>4. rec.pc \notin Handling
    BY <2>3 DEF Handling
  <2>5. QED
    BY <2>1, <2>3, <2>4, ProducerFacts
<1>3. QED
  BY <1>1, <1>2

LEMMA GotoFacts ==
    ASSUME TypeInv, NEW p \in Producers, NEW pc \in ProducerPc, GotoPc(p, pc),
           producer[p].image \in Images
    PROVE  /\ producer' \in [Producers -> ProducerState]
           /\ HandlersNameImages'
           /\ producer'[p].pc = pc
           /\ producer'[p].image = producer[p].image
           /\ \A q \in Producers \ {p} : producer'[q] = producer[q]
<1> DEFINE rec == [producer[p] EXCEPT !.pc = pc]
<1>1. producer[p] \in ProducerState
  BY DEF TypeInv, TypeOK
<1>2. rec \in ProducerState /\ rec.pc = pc /\ rec.image = producer[p].image
  BY <1>1 DEF ProducerState
<1>3. Set(p, rec)
  BY DEF GotoPc
<1>4. QED
  BY <1>2, <1>3, ProducerFacts

(* What one step leaves alone of a type invariant that lists everything. *)
OtherTypes ==
    /\ content \in [Images -> Versions]
    /\ digest \in [Images -> Versions \cup {0}]
    /\ attempts \in [Scans -> 0..MaxAttempts]
    /\ run \in [Scans -> {"none", "started", "pulled", "failed", "over"}]
    /\ seen \in [Scans -> Versions \cup {0}]
    /\ revived \in Nat

BoundTypes ==
    /\ busyPushes \in Nat
    /\ faults \in 0..MaxUpsets /\ cancels \in 0..MaxUpsets

LEMMA TypeParts ==
    /\ TypeOK <=> /\ ScanTypes /\ OtherTypes /\ BoundTypes
                  /\ producer \in [Producers -> ProducerState]
    /\ TypeOK' <=> /\ ScanTypes' /\ OtherTypes' /\ BoundTypes'
                   /\ producer' \in [Producers -> ProducerState]
BY DEF TypeOK, ScanTypes, OtherTypes, BoundTypes, ProducerState, Versions

LEMMA BoundFacts ==
    ASSUME TypeInv, Fault \/ UNCHANGED boundVars
    PROVE  BoundTypes'
BY ConstantsOK DEF TypeInv, TypeOK, Fault, boundVars, BoundTypes

(* A step of the API or the worker that leaves the producers alone. *)
LEMMA KeepsProducers ==
    ASSUME TypeInv, ScanTypes', RowsNameImages', OtherTypes', BoundTypes',
           UNCHANGED producer
    PROVE  TypeInv'
<1>1. HandlersNameImages'
  BY DEF TypeInv, HandlersNameImages
<1>2. producer' \in [Producers -> ProducerState]
  BY DEF TypeInv, TypeOK
<1>3. QED
  BY <1>1, <1>2, TypeParts DEF TypeInv

(* A step of a producer that leaves the scans alone. *)
LEMMA KeepsScans ==
    ASSUME TypeInv, UNCHANGED scanVars, UNCHANGED content,
           digest' \in [Images -> Versions \cup {0}],
           producer' \in [Producers -> ProducerState], HandlersNameImages',
           Fault \/ UNCHANGED boundVars
    PROVE  TypeInv'
<1>1. ScanTypes' /\ OtherTypes'
  BY TypeParts DEF TypeInv, ScanTypes, OtherTypes, scanVars
<1>2. RowsNameImages'
  BY DEF TypeInv, RowsNameImages, scanVars
<1>3. QED
  BY <1>1, <1>2, BoundFacts, TypeParts DEF TypeInv

LEMMA ProducersKeepTypes ==
    ASSUME TypeInv, NEW p \in Producers, Produce(p)
    PROVE  TypeInv'
<1> USE DEF TypeInv
<1>0. producer[p] \in ProducerState /\ digest \in [Images -> Versions \cup {0}]
  BY DEF TypeOK
<1>1. CASE StartTask(p)
  <2>1. PICK rec \in ProducerState : Set(p, rec) /\ rec.pc = "next"
    <3>1. CASE p \in DetectionTasks
      <4> DEFINE rec == [At("next") EXCEPT !.todo = Images, !.rows = digest]
      <4>1. rec \in ProducerState /\ rec.pc = "next"
        BY <1>0 DEF At, ProducerState, ProducerPc
      <4>2. Set(p, rec)
        BY <1>1, <3>1 DEF StartTask
      <4>3. QED
        BY <4>1, <4>2
    <3>2. CASE p \notin DetectionTasks
      <4>1. PICK due \in SUBSET Images : Set(p, [At("next") EXCEPT !.todo = due])
        BY <1>1, <3>2 DEF StartTask
      <4>2. [At("next") EXCEPT !.todo = due] \in ProducerState
        BY <4>1 DEF At, ProducerState, ProducerPc, NoRows
      <4>3. [At("next") EXCEPT !.todo = due].pc = "next"
        BY DEF At
      <4>4. QED
        BY <4>1, <4>2, <4>3
    <3>3. QED
      BY <3>1, <3>2
  <2>2. producer' \in [Producers -> ProducerState] /\ HandlersNameImages'
    BY <2>1, ProducerFacts DEF Handling
  <2>3. QED
    BY <1>1, <2>2, <1>0, KeepsScans DEF StartTask
<1>2. CASE NextImage(p)
  <2>1. CASE Set(p, At("idle"))
    <3>1. At("idle") \in ProducerState /\ At("idle").pc \notin Handling
      BY AtFacts DEF ProducerPc, Handling
    <3>2. producer' \in [Producers -> ProducerState] /\ HandlersNameImages'
      BY <2>1, <3>1, ProducerFacts
    <3>3. QED
      BY <1>2, <3>2, <1>0, KeepsScans DEF NextImage
  <2>2. CASE ~Set(p, At("idle"))
    <3>1. PICK i \in producer[p].todo, pc \in {"getDigest", "precheck", "check"} :
            Set(p, [producer[p] EXCEPT !.pc = pc, !.image = i,
                                       !.todo = producer[p].todo \ {i}])
      BY <1>2, <2>2 DEF NextImage
    <3> DEFINE rec == [producer[p] EXCEPT !.pc = pc, !.image = i,
                                          !.todo = producer[p].todo \ {i}]
    <3>2. i \in Images /\ rec \in ProducerState /\ rec.image = i
      BY <1>0 DEF ProducerState, ProducerPc
    <3>3. producer' \in [Producers -> ProducerState] /\ HandlersNameImages'
      BY <3>1, <3>2, ProducerFacts
    <3>4. QED
      BY <1>2, <3>3, <1>0, KeepsScans DEF NextImage
  <2>3. QED
    BY <2>1, <2>2
<1>3. CASE GetDigest(p)
  <2>1. producer[p].image \in Images
    BY <1>3 DEF GetDigest, HandlersNameImages, Handling
  <2>2. CASE Leave(p, "dropped")
    <3>1. producer' \in [Producers -> ProducerState] /\ HandlersNameImages'
      BY <2>2, LeaveFacts
    <3>2. QED
      BY <1>3, <3>1, <1>0, KeepsScans DEF GetDigest, CallFails
  <2>3. CASE ~Leave(p, "dropped")
    <3> DEFINE rec == [producer[p] EXCEPT !.pc = "check",
                                          !.remote = content[producer[p].image]]
    <3>1. Set(p, rec)
      BY <1>3, <2>3 DEF GetDigest, CallFails
    <3>2. content[producer[p].image] \in Versions
      BY <2>1 DEF TypeOK
    <3>3. rec \in ProducerState /\ rec.image = producer[p].image
      BY <1>0, <3>2 DEF ProducerState, ProducerPc
    <3>4. producer' \in [Producers -> ProducerState] /\ HandlersNameImages'
      BY <3>1, <3>3, <2>1, ProducerFacts
    <3>5. QED
      BY <1>3, <2>3, <3>4, <1>0, KeepsScans DEF GetDigest, CallFails
  <2>4. QED
    BY <2>2, <2>3
<1>4. CASE CheckBusy(p)
  <2>1. producer[p].image \in Images
    BY <1>4 DEF CheckBusy, HandlersNameImages, Handling
  <2>2. \/ Leave(p, "dropped")
        \/ \E pc \in {"check", "insert", "record"} : GotoPc(p, pc)
    BY <1>4 DEF CheckBusy, CallFails
  <2>3. producer' \in [Producers -> ProducerState] /\ HandlersNameImages'
    BY <2>1, <2>2, LeaveFacts, GotoFacts DEF ProducerPc
  <2>4. QED
    BY <1>4, <2>3, <1>0, KeepsScans DEF CheckBusy, CallFails
<1>5. CASE Insert(p)
  <2>1. producer[p].image \in Images
    BY <1>5 DEF Insert, HandlersNameImages, Handling
  <2>2. CASE CallFails(p) /\ UNCHANGED scanVars
    <3>1. producer' \in [Producers -> ProducerState] /\ HandlersNameImages'
      BY <2>2, LeaveFacts DEF CallFails
    <3>2. QED
      BY <1>5, <2>2, <3>1, <1>0, KeepsScans DEF Insert, CallFails
  <2>3. CASE ~(CallFails(p) /\ UNCHANGED scanVars)
    <3>1. PICK s \in Scans \ ManualScans :
            /\ InsertScan(s, producer[p].image,
                          IF p \in Hooks THEN "webhook" ELSE "schedule")
            /\ Set(p, [producer[p] EXCEPT !.pc = "push", !.scan = s])
            /\ UNCHANGED boundVars
      BY <1>5, <2>3 DEF Insert
    <3> DEFINE rec == [producer[p] EXCEPT !.pc = "push", !.scan = s]
    <3>2. rec \in ProducerState /\ rec.image = producer[p].image
      BY <1>0 DEF ProducerState, ProducerPc
    <3>3. producer' \in [Producers -> ProducerState] /\ HandlersNameImages'
      BY <3>1, <3>2, <2>1, ProducerFacts
    <3>4. ScanTypes' /\ RowsNameImages'
      BY <3>1, <2>1, InsertFacts
    <3>5. OtherTypes'
      BY <1>5, <3>1, TypeParts DEF Insert, OtherTypes, InsertScan
    <3>6. QED
      BY <3>1, <3>3, <3>4, <3>5, BoundFacts, TypeParts
  <2>4. QED
    BY <2>2, <2>3
<1>6. CASE Push(p)
  <2>1. producer' \in [Producers -> ProducerState] /\ HandlersNameImages'
    <3>1. CASE Leave(p, "dropped")
      BY <3>1, LeaveFacts
    <3>2. CASE ~Leave(p, "dropped")
      <4> DEFINE rec == [producer[p] EXCEPT !.pc = "record", !.scan = NoScan]
      <4>1. Set(p, rec)
        BY <1>6, <3>2 DEF Push, Enqueued, CallFails
      <4>2. rec \in ProducerState /\ rec.image = producer[p].image
        BY <1>0 DEF ProducerState, ProducerPc
      <4>3. producer[p].image \in Images
        BY <1>6 DEF Push, HandlersNameImages, Handling
      <4>4. QED
        BY <4>1, <4>2, <4>3, ProducerFacts
    <3>3. QED
      BY <3>1, <3>2
  <2>2. ScanTypes' /\ RowsNameImages'
    <3>1. PICK s : s = producer[p].scan
      OBVIOUS
    <3>2. CASE s \in Scans
      BY <1>6, <3>1, <3>2, LifecycleFacts DEF Push, LifecycleStep
    <3>3. CASE s \notin Scans
      <4>1. UNCHANGED <<status, stage, imageOf, trigger>>
        BY <1>6, <3>1, <3>3 DEF Push, TypeOK, Lifecycle!Send, Lifecycle!Close,
           Lifecycle!SetStage
      <4>2. QED
        BY <4>1, TypeParts DEF ScanTypes, RowsNameImages
    <3>4. QED
      BY <3>2, <3>3
  <2>3. OtherTypes'
    BY <1>6, TypeParts DEF Push, OtherTypes
  <2>4. BoundTypes'
    BY <1>6, BoundFacts DEF Push, CallFails
  <2>5. QED
    BY <2>1, <2>2, <2>3, <2>4, TypeParts
<1>7. CASE Record(p)
  <2>1. producer[p].image \in Images /\ producer[p].remote \in Versions \cup {0}
    BY <1>7, <1>0 DEF Record, HandlersNameImages, Handling, ProducerState
  <2>2. digest' \in [Images -> Versions \cup {0}]
    BY <1>7, <1>0, <2>1 DEF Record
  <2>3. producer' \in [Producers -> ProducerState] /\ HandlersNameImages'
    <3>1. CASE Leave(p, "dropped")
      BY <3>1, LeaveFacts
    <3>2. CASE ~Leave(p, "dropped")
      <4> DEFINE rec == [At("processed") EXCEPT !.image = producer[p].image,
                                               !.remote = producer[p].remote]
      <4>1. Set(p, rec)
        BY <1>7, <3>2 DEF Record, CallFails
      <4>2. rec \in ProducerState /\ rec.image = producer[p].image
        BY <2>1 DEF At, ProducerState, ProducerPc, NoRows
      <4>3. QED
        BY <4>1, <4>2, <2>1, ProducerFacts
    <3>3. QED
      BY <3>1, <3>2
  <2>4. Fault \/ UNCHANGED boundVars
    BY <1>7 DEF Record, CallFails
  <2>5. QED
    BY <1>7, <2>2, <2>3, <2>4, KeepsScans DEF Record
<1>8. QED
  BY <1>1, <1>2, <1>3, <1>4, <1>5, <1>6, <1>7 DEF Produce

LEMMA ScansKeepTypes ==
    ASSUME TypeInv, NEW s \in Scans,
           Work(s) \/ CreateScan(s) \/ SendManual(s) \/ CancelScan(s) \/ LoseJob(s)
    PROVE  TypeInv'
<1> USE DEF TypeInv
<1>1. CASE CreateScan(s)
  <2>1. PICK i \in Images : InsertScan(s, i, "manual")
    BY <1>1 DEF CreateScan
  <2>2. ScanTypes' /\ RowsNameImages'
    BY <2>1, InsertFacts
  <2>3. OtherTypes'
    BY <1>1, <2>1, TypeParts DEF OtherTypes, CreateScan, InsertScan
  <2>4. QED
    BY <1>1, <2>2, <2>3, BoundFacts, KeepsProducers DEF CreateScan
<1>2. CASE ~CreateScan(s)
  <2>1. UNCHANGED <<content, digest, producer, imageOf, trigger>>
    BY <1>2 DEF Work, Claim, Start, ScanImage, Complete, Fail, Finish,
       SendManual, CancelScan, LoseJob, ScanStep
  <2>2. ScanTypes' /\ RowsNameImages'
    <3>1. CASE ScanImage(s)
      BY <2>1, <3>1, TypeParts DEF ScanImage, ScanTypes, RowsNameImages
    <3>2. CASE ~ScanImage(s)
      <4>1. LifecycleStep(s)
        BY <1>2, <3>2 DEF Work, Claim, Start, Complete, Fail, Finish,
           SendManual, CancelScan, LoseJob, LifecycleStep
      <4>2. QED
        BY <4>1, <2>1, LifecycleFacts
    <3>3. QED
      BY <3>1, <3>2
  <2>3. OtherTypes'
    <3>1. CASE Start(s)
      <4>1. attempts[s] + 1 \in 0..MaxAttempts
        BY <3>1, ConstantsOK DEF Start, AttemptLeft, TypeOK
      <4>2. QED
        BY <3>1, <2>1, <4>1, TypeParts DEF Start, OtherTypes
    <3>2. CASE ScanImage(s)
      <4>1. imageOf[s] \in Images
        BY <3>2 DEF ScanImage, RowsNameImages, TypeOK
      <4>2. content[imageOf[s]] \in Versions
        BY <4>1 DEF TypeOK
      <4>3. QED
        BY <3>2, <2>1, <4>2, TypeParts DEF ScanImage, OtherTypes
    <3>3. CASE Complete(s) \/ Fail(s)
      BY <3>3, <2>1, TypeParts DEF Complete, Fail, OtherTypes
    <3>4. CASE UNCHANGED <<attempts, run, seen, revived>>
      BY <3>4, <2>1, TypeParts DEF OtherTypes
    <3>5. QED
      BY <1>2, <3>1, <3>2, <3>3, <3>4 DEF Work, Claim, Finish, SendManual,
         CancelScan, LoseJob
  <2>4. BoundTypes'
    <3>1. CASE CancelScan(s)
      BY <3>1, ConstantsOK DEF CancelScan, TypeOK, BoundTypes
    <3>2. CASE ~CancelScan(s)
      <4>1. Fault \/ UNCHANGED boundVars
        BY <1>2, <3>2 DEF Work, Claim, Start, ScanImage, Complete, Fail, Finish,
           SendManual, LoseJob
      <4>2. QED
        BY <4>1, BoundFacts
    <3>3. QED
      BY <3>1, <3>2
  <2>5. QED
    BY <2>1, <2>2, <2>3, <2>4, KeepsProducers
<1>3. QED
  BY <1>1, <1>2

LEMMA CrashKeepsTypes ==
    ASSUME TypeInv, Crash
    PROVE  TypeInv'
<1> USE DEF TypeInv
<1>1. producer' \in [Producers -> ProducerState] /\ HandlersNameImages'
  <2>1. ASSUME NEW p \in Producers
        PROVE  producer'[p] \in ProducerState /\ producer'[p].pc \notin Handling
    <3>1. \/ producer'[p] \in {At("idle"), At("dropped")}
          \/ producer'[p] = producer[p] /\ producer[p].pc = "processed"
      BY DEF Crash
    <3>2. QED
      BY <3>1, AtFacts DEF TypeOK, ProducerPc, Handling
  <2>2. DOMAIN producer' = Producers /\ producer' = [p \in Producers |-> producer'[p]]
    BY DEF Crash
  <2>3. QED
    BY <2>1, <2>2 DEF HandlersNameImages
<1>2. ScanTypes'
  BY DEF Crash, ScanTypes, TypeOK
<1>3. RowsNameImages'
  BY DEF Crash, RowsNameImages, TypeOK
<1>4. OtherTypes'
  BY TypeParts DEF Crash, OtherTypes
<1>5. BoundTypes'
  BY BoundFacts DEF Crash
<1>6. QED
  BY <1>1, <1>2, <1>3, <1>4, <1>5, TypeParts

LEMMA TypeInvStep ==
    ASSUME TypeInv, [Next]_vars
    PROVE  TypeInv'
<1>1. ASSUME NEW h \in Hooks, NEW i \in Images, ReceiveWebhook(h, i)
      PROVE  TypeInv'
  <2> USE DEF TypeInv
  <2>1. h \in Producers /\ digest \in [Images -> Versions \cup {0}]
    BY DEF TypeOK, Producers
  <2>2. CASE CallFails(h)
    <3>1. producer' \in [Producers -> ProducerState] /\ HandlersNameImages'
      BY <2>1, <2>2, LeaveFacts DEF CallFails
    <3>2. QED
      BY <1>1, <2>1, <2>2, <3>1, KeepsScans DEF ReceiveWebhook, CallFails
  <2>3. CASE ~CallFails(h)
    <3> DEFINE rec == [At("check") EXCEPT !.image = i, !.remote = content[i]]
    <3>1. Set(h, rec) /\ UNCHANGED boundVars
      BY <1>1, <2>3 DEF ReceiveWebhook
    <3>2. rec \in ProducerState /\ rec.image = i
      BY DEF TypeOK, At, ProducerState, ProducerPc, NoRows
    <3>3. producer' \in [Producers -> ProducerState] /\ HandlersNameImages'
      BY <2>1, <3>1, <3>2, ProducerFacts
    <3>4. QED
      BY <1>1, <2>1, <3>1, <3>3, KeepsScans DEF ReceiveWebhook
  <2>4. QED
    BY <2>2, <2>3
<1>2. ASSUME NEW i \in Images, PushImage(i)
      PROVE  TypeInv'
  <2> USE DEF TypeInv
  <2>1. content' \in [Images -> Versions]
    BY <1>2, ConstantsOK DEF PushImage, TypeOK, Versions
  <2>2. OtherTypes'
    BY <1>2, <2>1, TypeParts DEF PushImage, OtherTypes, scanVars
  <2>3. ScanTypes' /\ RowsNameImages'
    BY <1>2, TypeParts DEF PushImage, ScanTypes, RowsNameImages, scanVars
  <2>4. BoundTypes'
    BY <1>2, TypeParts DEF PushImage, BoundTypes
  <2>5. QED
    BY <1>2, <2>2, <2>3, <2>4, KeepsProducers DEF PushImage
<1>3. CASE UNCHANGED vars
  BY <1>3 DEF TypeInv, TypeOK, RowsNameImages, HandlersNameImages, vars,
     scanVars, boundVars, ProducerState, Versions
<1>4. QED
  BY <1>1, <1>2, <1>3, ProducersKeepTypes, ScansKeepTypes, CrashKeepsTypes DEF Next

LEMMA InitTypeInv ==
    ASSUME Init
    PROVE  TypeInv
<1>1. NoRows \in [Images -> Versions \cup {0}]
  BY DEF NoRows
<1>2. At("idle") \in ProducerState /\ At("idle").pc \notin Handling
  BY AtFacts DEF ProducerPc, Handling
<1>3. producer \in [Producers -> ProducerState] /\ HandlersNameImages
  BY <1>2 DEF Init, HandlersNameImages
<1>4. content \in [Images -> Versions]
  BY ConstantsOK DEF Init, Versions
<1>5. QED
  BY <1>1, <1>3, <1>4, ConstantsOK DEF TypeInv, TypeOK, Init, Lifecycle!Init,
     RowsNameImages

(* The type invariant of ScanDispatch: in particular an attempt beyond the  *)
(* retries of its job is never started (workerLoop, processJobWithRetry).   *)
THEOREM DispatchTypeCorrect == Spec => []TypeOK
<1>1. Init => TypeInv
  BY InitTypeInv
<1>2. TypeInv => TypeOK
  BY DEF TypeInv
<1>3. TypeInv /\ [Next]_vars => TypeInv'
  BY TypeInvStep
<1>4. QED
  BY <1>1, <1>2, <1>3, PTL DEF Spec

-----------------------------------------------------------------------------
(* How many scans of an image the busy check counts.                        *)

CountBound(i) ==
    Cardinality(Active(i)) + Cardinality(Inserting(i))
        <= Cardinality(Producers) + revived

LEMMA Smaller ==
    ASSUME NEW S, IsFiniteSet(S), NEW T, T \subseteq S
    PROVE  /\ IsFiniteSet(T) /\ Cardinality(T) <= Cardinality(S)
           /\ Cardinality(T) \in Nat /\ Cardinality(S) \in Nat
BY FS_Subset, FS_CardinalityType

LEMMA Finite ==
    ASSUME NEW i \in Images
    PROVE  /\ IsFiniteSet(Active(i)) /\ IsFiniteSet(Active(i)')
           /\ IsFiniteSet(Inserting(i)) /\ IsFiniteSet(Inserting(i)')
           /\ Cardinality(Producers) \in Nat
           /\ Cardinality(Active(i)) \in Nat /\ Cardinality(Active(i)') \in Nat
           /\ Cardinality(Inserting(i)) \in Nat /\ Cardinality(Inserting(i)') \in Nat
<1>1. /\ Active(i) \subseteq Scans /\ Active(i)' \subseteq Scans
      /\ Inserting(i) \subseteq Producers /\ Inserting(i)' \subseteq Producers
  BY DEF Active, Inserting
<1>2. IsFiniteSet(Scans) /\ IsFiniteSet(Producers)
  BY ConstantsOK
<1>3. QED
  BY <1>1, <1>2, Smaller

(* Only three kinds of step add to either set: a producer that passes the   *)
(* busy check, one that inserts its row, a scan that is tried again.        *)
LEMMA NoneAdded ==
    ASSUME TypeInv, NEW i \in Images, CountBound(i),
           Active(i)' \subseteq Active(i), Inserting(i)' \subseteq Inserting(i),
           revived' \in Nat, revived' >= revived
    PROVE  CountBound(i)'
<1>1. /\ Cardinality(Active(i)') <= Cardinality(Active(i))
      /\ Cardinality(Inserting(i)') <= Cardinality(Inserting(i))
  BY Finite, Smaller
<1>2. QED
  BY <1>1, Finite DEF CountBound, TypeInv, TypeOK

LEMMA KeepsInserting ==
    ASSUME TypeInv, NEW i \in Images, NEW p \in Producers,
           producer'[p].pc # "insert",
           \A q \in Producers \ {p} : producer'[q] = producer[q]
    PROVE  Inserting(i)' \subseteq Inserting(i)
BY DEF Inserting

LEMMA SetFacts ==
    ASSUME TypeInv, NEW p \in Producers, NEW rec, Set(p, rec)
    PROVE  /\ producer'[p] = rec
           /\ \A q \in Producers \ {p} : producer'[q] = producer[q]
BY DEF TypeInv, TypeOK, Set

LEMMA SameScans ==
    ASSUME NEW i \in Images, UNCHANGED scanVars
    PROVE  Active(i)' = Active(i) /\ revived' = revived
BY DEF Active, scanVars

LEMMA SameProducers ==
    ASSUME NEW i \in Images, UNCHANGED producer
    PROVE  Inserting(i)' = Inserting(i)
BY DEF Inserting

LEMMA ProducersKeepBound ==
    ASSUME TypeInv, TypeInv', NEW i \in Images, CountBound(i),
           NEW p \in Producers, Produce(p)
    PROVE  CountBound(i)'
<1>0. producer[p] \in ProducerState /\ revived \in Nat
  BY DEF TypeInv, TypeOK
<1>1. ASSUME producer'[p].pc # "insert",
             \A q \in Producers \ {p} : producer'[q] = producer[q],
             UNCHANGED <<status, imageOf, trigger, revived>>
      PROVE  CountBound(i)'
  <2>1. Active(i)' = Active(i)
    BY <1>1 DEF Active
  <2>2. QED
    BY <1>0, <1>1, <2>1, KeepsInserting, NoneAdded
<1>2. CASE Leave(p, "dropped") /\ UNCHANGED scanVars
  BY <1>1, <1>2, LeaveFacts DEF Handling, scanVars
<1>3. CASE StartTask(p) \/ NextImage(p) \/ GetDigest(p) \/ Record(p)
  <2>1. UNCHANGED scanVars
    BY <1>3 DEF StartTask, NextImage, GetDigest, Record
  <2>2. CASE Leave(p, "dropped")
    BY <2>1, <2>2, <1>2
  <2>3. CASE ~Leave(p, "dropped")
    <3>1. ASSUME NEW rec, Set(p, rec), rec.pc # "insert"
          PROVE  CountBound(i)'
      BY <1>1, <2>1, <3>1, SetFacts DEF scanVars
    <3>2. CASE StartTask(p)
      <4>1. CASE p \in DetectionTasks
        <5> DEFINE rec == [At("next") EXCEPT !.todo = Images, !.rows = digest]
        <5>1. Set(p, rec) /\ rec.pc # "insert"
          BY <3>2, <4>1 DEF StartTask, At
        <5>2. QED
          BY <5>1, <3>1
      <4>2. CASE p \notin DetectionTasks
        <5>1. PICK due : Set(p, [At("next") EXCEPT !.todo = due])
          BY <3>2, <4>2 DEF StartTask
        <5>2. [At("next") EXCEPT !.todo = due].pc # "insert"
          BY DEF At
        <5>3. QED
          BY <5>1, <5>2, <3>1
      <4>3. QED
        BY <4>1, <4>2
    <3>3. CASE NextImage(p)
      <4>1. CASE Set(p, At("idle"))
        BY <4>1, <3>1, AtFacts DEF ProducerPc
      <4>2. CASE ~Set(p, At("idle"))
        <5>1. PICK j \in Images, pc \in {"getDigest", "precheck", "check"} :
                Set(p, [producer[p] EXCEPT !.pc = pc, !.image = j,
                                           !.todo = producer[p].todo \ {j}])
          BY <3>3, <4>2, <1>0 DEF NextImage, ProducerState
        <5> DEFINE rec == [producer[p] EXCEPT !.pc = pc, !.image = j,
                                              !.todo = producer[p].todo \ {j}]
        <5>2. rec.pc # "insert"
          BY <1>0 DEF ProducerState
        <5>3. QED
          BY <5>1, <5>2, <3>1
      <4>3. QED
        BY <4>1, <4>2
    <3>4. CASE GetDigest(p)
      <4> DEFINE rec == [producer[p] EXCEPT !.pc = "check",
                                            !.remote = content[producer[p].image]]
      <4>1. Set(p, rec) /\ rec.pc # "insert"
        BY <3>4, <2>3, <1>0 DEF GetDigest, CallFails, ProducerState
      <4>2. QED
        BY <4>1, <3>1
    <3>5. CASE Record(p)
      <4> DEFINE rec == [At("processed") EXCEPT !.image = producer[p].image,
                                               !.remote = producer[p].remote]
      <4>1. Set(p, rec) /\ rec.pc # "insert"
        BY <3>5, <2>3 DEF Record, CallFails, At
      <4>2. QED
        BY <4>1, <3>1
    <3>6. QED
      BY <1>3, <3>2, <3>3, <3>4, <3>5
  <2>4. QED
    BY <2>2, <2>3
<1>4. CASE CheckBusy(p)
  <2>1. UNCHANGED scanVars /\ producer[p].image \in Images
    BY <1>4 DEF CheckBusy, TypeInv, HandlersNameImages, Handling
  <2>2. CASE Leave(p, "dropped")
    BY <2>1, <2>2, <1>2
  <2>3. ASSUME NEW pc \in {"check", "record"}, GotoPc(p, pc)
        PROVE  CountBound(i)'
    BY <2>1, <2>3, <1>1, GotoFacts DEF ProducerPc, scanVars
  <2>4. CASE GotoPc(p, "insert") /\ MayEnqueue(producer[p].image)
    <3>1. /\ producer'[p].image = producer[p].image
          /\ \A q \in Producers \ {p} : producer'[q] = producer[q]
      BY <2>1, <2>4, GotoFacts DEF ProducerPc
    <3>2. CASE producer[p].image = i
      <4>1. Active(i)' = {}
        BY <2>1, <2>4, <3>2, SameScans DEF MayEnqueue, Busy, Active
      <4>2. Inserting(i)' \subseteq Producers
        BY DEF Inserting
      <4>3. Cardinality(Inserting(i)') <= Cardinality(Producers)
        BY <4>2, Smaller, ConstantsOK
      <4>4. Cardinality(Active(i)') = 0 /\ revived' = revived
        BY <4>1, <2>1, FS_EmptySet, SameScans
      <4>5. QED
        BY <4>3, <4>4, <1>0, Finite DEF CountBound
    <3>3. CASE producer[p].image # i
      <4>1. Inserting(i)' \subseteq Inserting(i)
        BY <3>1, <3>3 DEF Inserting
      <4>2. QED
        BY <4>1, <2>1, <1>0, SameScans, NoneAdded
    <3>4. QED
      BY <3>2, <3>3
  <2>5. QED
    BY <1>4, <2>2, <2>3, <2>4 DEF CheckBusy, CallFails
<1>5. CASE Insert(p)
  <2>1. CASE CallFails(p) /\ UNCHANGED scanVars
    BY <2>1, <1>2 DEF CallFails
  <2>2. CASE ~(CallFails(p) /\ UNCHANGED scanVars)
    <3>1. PICK s \in Scans \ ManualScans :
            /\ InsertScan(s, producer[p].image,
                          IF p \in Hooks THEN "webhook" ELSE "schedule")
            /\ Set(p, [producer[p] EXCEPT !.pc = "push", !.scan = s])
      BY <1>5, <2>2 DEF Insert
    <3>2. /\ producer'[p].pc = "push"
          /\ \A q \in Producers \ {p} : producer'[q] = producer[q]
      BY <3>1, <1>0 DEF Set, TypeInv, TypeOK, ProducerState
    <3>3. /\ imageOf' = [imageOf EXCEPT ![s] = producer[p].image]
          /\ \A t \in Scans \ {s} : /\ status'[t] = status[t]
                                    /\ imageOf'[t] = imageOf[t]
                                    /\ trigger'[t] = trigger[t]
          /\ revived' = revived
      BY <3>1 DEF InsertScan, Lifecycle!Create, Lifecycle!SetStatus, TypeInv, TypeOK
    <3>4. CASE producer[p].image = i
      <4>1. Active(i)' \subseteq Active(i) \cup {s}
        BY <3>3 DEF Active
      <4>2. /\ IsFiniteSet(Active(i) \cup {s})
            /\ Cardinality(Active(i) \cup {s}) <= Cardinality(Active(i)) + 1
        <5>1. IsFiniteSet(Active(i)) /\ Cardinality(Active(i)) \in Nat
          BY Finite
        <5>2. \/ Cardinality(Active(i) \cup {s}) = Cardinality(Active(i))
              \/ Cardinality(Active(i) \cup {s}) = Cardinality(Active(i)) + 1
          BY <5>1, FS_AddElement, Zenon
        <5>3. QED
          BY <5>1, <5>2, FS_AddElement
      <4>3. Cardinality(Active(i)') <= Cardinality(Active(i)) + 1
        BY <4>1, <4>2, Finite, Smaller
      <4>4. p \in Inserting(i) /\ Inserting(i)' \subseteq Inserting(i) \ {p}
        BY <1>5, <3>2, <3>4 DEF Inserting, Insert
      <4>5. /\ IsFiniteSet(Inserting(i) \ {p})
            /\ Cardinality(Inserting(i) \ {p}) = Cardinality(Inserting(i)) - 1
        BY <4>4, Finite, FS_RemoveElement
      <4>6. Cardinality(Inserting(i)') <= Cardinality(Inserting(i)) - 1
        BY <4>4, <4>5, Smaller
      <4>7. QED
        BY <4>3, <4>6, <3>3, <1>0, Finite DEF CountBound
    <3>5. CASE producer[p].image # i
      <4>1. imageOf'[s] # i
        BY <3>3, <3>5 DEF TypeInv, TypeOK
      <4>2. Active(i)' \subseteq Active(i)
        BY <3>3, <4>1 DEF Active
      <4>3. Inserting(i)' \subseteq Inserting(i)
        BY <3>2, KeepsInserting
      <4>4. QED
        BY <4>2, <4>3, <3>3, <1>0, NoneAdded
    <3>6. QED
      BY <3>4, <3>5
  <2>3. QED
    BY <2>1, <2>2
<1>6. CASE Push(p)
  <2>1. UNCHANGED <<status, imageOf, trigger, revived>>
    BY <1>6 DEF Push, Lifecycle!Send, Lifecycle!Close, Lifecycle!SetStage
  <2>2. CASE Leave(p, "dropped")
    BY <2>1, <2>2, <1>1, LeaveFacts DEF Handling
  <2>3. CASE ~Leave(p, "dropped")
    <3>1. Set(p, [producer[p] EXCEPT !.pc = "record", !.scan = NoScan])
      BY <1>6, <2>3 DEF Push, Enqueued, CallFails
    <3>2. /\ producer'[p].pc # "insert"
          /\ \A q \in Producers \ {p} : producer'[q] = producer[q]
      BY <3>1, <1>0 DEF Set, TypeInv, TypeOK, ProducerState
    <3>3. QED
      BY <1>1, <2>1, <3>2
  <2>4. QED
    BY <2>2, <2>3
<1>7. QED
  BY <1>3, <1>4, <1>5, <1>6 DEF Produce

LEMMA ScansKeepBound ==
    ASSUME TypeInv, TypeInv', NEW i \in Images, CountBound(i), NEW s \in Scans,
           Work(s) \/ CreateScan(s) \/ SendManual(s) \/ CancelScan(s) \/ LoseJob(s)
    PROVE  CountBound(i)'
<1>1. Inserting(i)' = Inserting(i) /\ revived \in Nat /\ revived' \in Nat
  BY SameProducers DEF Work, Claim, Start, ScanImage, Complete, Fail, Finish,
     CreateScan, SendManual, CancelScan, LoseJob, ScanStep, TypeInv, TypeOK
<1>2. ASSUME Active(i)' \subseteq Active(i), revived' = revived
      PROVE  CountBound(i)'
  BY <1>1, <1>2, NoneAdded
<1>3. CASE Start(s)
  <2>1. UNCHANGED <<imageOf, trigger>>
    BY <1>3 DEF Start, ScanStep
  <2>2. /\ status[s] # "completed" /\ status[s] # "absent"
        /\ \A t \in Scans \ {s} : status'[t] = status[t]
    BY <1>3 DEF Start, Lifecycle!Start, Lifecycle!SetStatus, TypeInv, TypeOK,
       RowsNameImages
  <2>3. CASE status[s] \in {"failed", "cancelled"}
    <3>1. revived' = revived + 1
      BY <1>3, <2>3 DEF Start
    <3>2. Active(i)' \subseteq Active(i) \cup {s}
      BY <2>1, <2>2 DEF Active
    <3>3. IsFiniteSet(Active(i)) /\ Cardinality(Active(i)) \in Nat
      BY Finite
    <3>4. \/ Cardinality(Active(i) \cup {s}) = Cardinality(Active(i))
          \/ Cardinality(Active(i) \cup {s}) = Cardinality(Active(i)) + 1
      BY <3>3, FS_AddElement, Zenon
    <3>5. /\ Cardinality(Active(i)') <= Cardinality(Active(i) \cup {s})
          /\ Cardinality(Active(i)') \in Nat
      BY <3>2, <3>3, FS_AddElement, Smaller
    <3>6. Cardinality(Active(i)') <= Cardinality(Active(i)) + 1
      BY <3>3, <3>4, <3>5
    <3>7. QED
      BY <1>1, <3>1, <3>3, <3>5, <3>6, Finite DEF CountBound
  <2>4. CASE status[s] \in {"pending", "running"}
    <3>1. Active(i)' \subseteq Active(i)
      BY <2>1, <2>2, <2>4 DEF Active
    <3>2. revived' = revived
      BY <1>3, <2>4 DEF Start
    <3>3. QED
      BY <3>1, <3>2, <1>2
  <2>5. QED
    BY <2>2, <2>3, <2>4 DEF TypeInv, TypeOK
<1>4. CASE CreateScan(s)
  <2>1. PICK j \in Images : InsertScan(s, j, "manual")
    BY <1>4 DEF CreateScan
  <2>2. /\ trigger'[s] = "manual"
        /\ \A t \in Scans \ {s} : /\ status'[t] = status[t]
                                  /\ imageOf'[t] = imageOf[t]
                                  /\ trigger'[t] = trigger[t]
        /\ revived' = revived
    BY <2>1 DEF InsertScan, Lifecycle!Create, Lifecycle!SetStatus, TypeInv, TypeOK
  <2>3. Active(i)' \subseteq Active(i)
    BY <2>2 DEF Active
  <2>4. QED
    BY <2>2, <2>3, <1>2
<1>5. CASE ~Start(s) /\ ~CreateScan(s)
  <2>1. UNCHANGED <<imageOf, trigger, revived>>
    BY <1>5 DEF Work, Claim, ScanImage, Complete, Fail, Finish, SendManual,
       CancelScan, LoseJob, ScanStep
  <2>2. \A t \in Scans : status'[t] \in {status[t], "completed", "failed", "cancelled"}
    BY <1>5 DEF Work, Claim, ScanImage, Complete, Fail, Finish, SendManual,
       CancelScan, LoseJob, TypeInv, TypeOK, Lifecycle!Send, Lifecycle!Claim,
       Lifecycle!Close, Lifecycle!Complete, Lifecycle!Fail, Lifecycle!Cancel,
       Lifecycle!SetStatus, Lifecycle!SetStage
  <2>3. Active(i)' \subseteq Active(i)
    BY <2>1, <2>2 DEF Active
  <2>4. QED
    BY <2>1, <2>3, <1>2
<1>6. QED
  BY <1>3, <1>4, <1>5

LEMMA BoundStep ==
    ASSUME TypeInv, TypeInv', NEW i \in Images, CountBound(i), [Next]_vars
    PROVE  CountBound(i)'
<1>0. revived \in Nat
  BY DEF TypeInv, TypeOK
<1>1. ASSUME NEW h \in Hooks, NEW j \in Images, ReceiveWebhook(h, j)
      PROVE  CountBound(i)'
  <2>1. h \in Producers /\ UNCHANGED scanVars
    BY <1>1 DEF ReceiveWebhook, Producers
  <2>2. Inserting(i)' \subseteq Inserting(i)
    <3>1. CASE CallFails(h)
      BY <2>1, <3>1, LeaveFacts, KeepsInserting DEF CallFails, Handling
    <3>2. CASE ~CallFails(h)
      <4> DEFINE rec == [At("check") EXCEPT !.image = j, !.remote = content[j]]
      <4>1. Set(h, rec) /\ rec.pc # "insert"
        BY <1>1, <3>2 DEF ReceiveWebhook, At
      <4>2. QED
        BY <2>1, <4>1, SetFacts, KeepsInserting
    <3>3. QED
      BY <3>1, <3>2
  <2>3. QED
    BY <1>0, <2>1, <2>2, SameScans, NoneAdded
<1>2. CASE (\E j \in Images : PushImage(j)) \/ UNCHANGED vars
  <2>1. UNCHANGED scanVars /\ UNCHANGED producer
    BY <1>2 DEF PushImage, vars
  <2>2. QED
    BY <1>0, <2>1, SameScans, SameProducers, NoneAdded
<1>3. CASE Crash
  <2>1. Active(i)' = Active(i) /\ revived' = revived
    BY <1>3 DEF Crash, Active
  <2>2. \A p \in Producers : producer'[p].pc # "insert"
    BY <1>3, AtFacts DEF Crash, ProducerPc
  <2>3. Inserting(i)' \subseteq Inserting(i)
    BY <2>2 DEF Inserting
  <2>4. QED
    BY <1>0, <2>1, <2>3, NoneAdded
<1>4. QED
  BY <1>1, <1>2, <1>3, ProducersKeepBound, ScansKeepBound DEF Next

(* However the check and the insert of concurrent tasks and webhooks        *)
(* interleave, an image never has more automatic scans pending or running   *)
(* than there are producers, plus the scans that were tried again after     *)
(* they looked finished (enqueueScheduledScan, processAsync).               *)
THEOREM DuplicatesAreBounded == Spec => []DuplicatesBounded
<1> DEFINE Inv == TypeInv /\ \A i \in Images : CountBound(i)
<1>1. Init => Inv
  <2> SUFFICES ASSUME Init PROVE Inv
    OBVIOUS
  <2>1. TypeInv
    BY InitTypeInv
  <2>2. ASSUME NEW i \in Images
        PROVE  CountBound(i)
    <3>1. Active(i) = {} /\ Inserting(i) = {}
      BY ConstantsOK, AtFacts DEF Init, Active, Inserting, Lifecycle!Init, ProducerPc
    <3>2. QED
      BY <3>1, FS_EmptySet, Finite DEF CountBound, Init
  <2>3. QED
    BY <2>1, <2>2
<1>2. Inv /\ [Next]_vars => Inv'
  BY TypeInvStep, BoundStep
<1>3. Inv => DuplicatesBounded
  BY DEF CountBound, DuplicatesBounded
<1>4. QED
  BY <1>1, <1>2, <1>3, PTL DEF Spec

-----------------------------------------------------------------------------
(* Changes of an image that a stored digest tells of.                       *)

(* A scan that will still pull what the registry serves then.               *)
OnItsWay(s) == stage[s] # "closed" /\ run[s] \in {"none", "started"}

Covers(s, i) == imageOf[s] = i /\ (seen[s] = content[i] \/ OnItsWay(s))

Covered(i) == \E s \in Scans : Covers(s, i)

(* Versions only grow, so what was read of an image, or stored of it, is at *)
(* most its present version.                                                *)
VersionsPast ==
    /\ \A i \in Images : digest[i] <= content[i]
    /\ \A p \in Producers :
          /\ producer[p].pc = "next" => producer[p].remote = 0
          /\ producer[p].image \in Images =>
                producer[p].remote <= content[producer[p].image]

PushesOwnScan ==
    \A p \in Producers : producer[p].pc = "push" =>
        /\ producer[p].scan \in Scans
        /\ imageOf[producer[p].scan] = producer[p].image

(* No attempt starts before the job is claimed; a scan that the busy check  *)
(* counts has pulled the present content, or will: that is what a producer  *)
(* relies on when it enqueues none.                                         *)
BusyScanReads(s) ==
    /\ stage[s] \in {"unsent", "waiting"} => run[s] = "none"
    /\ status[s] = "pending" => OnItsWay(s) /\ run[s] = "none"
    /\ status[s] = "running" =>
          \/ OnItsWay(s) /\ run[s] = "started"
          \/ run[s] = "pulled" /\ stage[s] # "closed" /\ seen[s] = content[imageOf[s]]

StoredAreCovered == \A i \in Images : digest[i] = content[i] => Covered(i)

RecordedAreCovered ==
    \A p \in Producers :
        producer[p].pc = "record" /\ producer[p].remote = content[producer[p].image]
            => Covered(producer[p].image)

Undisturbed == faults = 0 /\ busyPushes = 0

ChangesInv ==
    /\ VersionsPast /\ PushesOwnScan
    /\ Undisturbed => /\ \A s \in Scans : BusyScanReads(s)
                      /\ StoredAreCovered /\ RecordedAreCovered

LEMMA LeftRemote ==
    ASSUME TypeInv, NEW p \in Producers, NEW pc \in {"processed", "dropped"},
           Leave(p, pc)
    PROVE  producer'[p].pc \notin Handling /\ producer'[p].remote = 0
<1>1. producer'[p].pc \notin Handling
  BY LeaveFacts
<1>2. CASE p \in Hooks
  BY <1>1, <1>2 DEF Leave, Set, At, TypeInv, TypeOK
<1>3. CASE p \notin Hooks
  BY <1>1, <1>3 DEF Leave, Set, At, TypeInv, TypeOK
<1>4. QED
  BY <1>2, <1>3

(* What a producer's record becomes, of what matters for the versions.      *)
Rests(new) == new.pc \notin Handling /\ new.remote = 0

SameTarget(old, new) == new.image = old.image /\ new.remote = old.remote

Announces(old, new) ==
    SameTarget(old, new) /\ new.pc = "processed" /\ old.pc = "record"

Lists(old, new) ==
    /\ old.pc = "next" /\ new.pc \in {"getDigest", "precheck", "check"}
    /\ new.image \in Images /\ new.remote = old.remote

Compares(old, new) ==
    /\ old.pc = "getDigest" /\ new.pc = "check"
    /\ new.image = old.image /\ new.remote = content[old.image]

Decides(old, new) ==
    /\ old.pc \in {"precheck", "check"} /\ SameTarget(old, new)
    /\ new.pc \in {"check", "insert"} \/ (new.pc = "record" /\ Busy(old.image))

Asks(old, new) ==
    /\ old.pc = "insert" /\ new.pc = "push" /\ SameTarget(old, new)
    /\ new.scan \in Scans /\ imageOf[new.scan] = NoImage
    /\ imageOf' = [imageOf EXCEPT ![new.scan] = old.image]

Hands(old, new) ==
    /\ old.pc = "push" /\ new.pc = "record" /\ SameTarget(old, new)
    /\ Lifecycle!Send(old.scan)

LEMMA ProducerMoves ==
    ASSUME TypeInv, NEW p \in Producers, Produce(p)
    PROVE  /\ \A q \in Producers \ {p} : producer'[q] = producer[q]
           /\ \/ Rests(producer'[p])
              \/ Announces(producer[p], producer'[p])
              \/ Lists(producer[p], producer'[p])
              \/ Compares(producer[p], producer'[p])
              \/ Decides(producer[p], producer'[p])
              \/ Asks(producer[p], producer'[p])
              \/ Hands(producer[p], producer'[p])
<1> DEFINE Moved(new) ==
             \/ Rests(new)
             \/ Announces(producer[p], new)
             \/ Lists(producer[p], new)
             \/ Compares(producer[p], new)
             \/ Decides(producer[p], new)
             \/ Asks(producer[p], new)
             \/ Hands(producer[p], new)
           Goal == /\ \A q \in Producers \ {p} : producer'[q] = producer[q]
                   /\ Moved(producer'[p])
<1>0. producer[p] \in ProducerState
  BY DEF TypeInv, TypeOK
<1>1. ASSUME NEW rec, Set(p, rec), Moved(rec) PROVE Goal
  <2> HIDE DEF Moved
  <2>1. QED
    BY <1>1, SetFacts
<1>2. CASE Leave(p, "dropped")
  BY <1>2, LeaveFacts, LeftRemote DEF Rests
<1>3. ASSUME NEW rec, Set(p, rec), rec.pc \in {"idle", "next"}, rec.remote = 0
      PROVE  Goal
  <2>1. Rests(rec)
    BY <1>3 DEF Rests, Handling
  <2>2. QED
    BY <1>1, <1>3, <2>1
<1>4. CASE StartTask(p)
  <2>1. CASE p \in DetectionTasks
    <3> DEFINE rec == [At("next") EXCEPT !.todo = Images, !.rows = digest]
    <3>1. Set(p, rec) /\ rec.pc = "next" /\ rec.remote = 0
      BY <1>4, <2>1 DEF StartTask, At
    <3>2. QED
      BY <1>3, <3>1
  <2>2. CASE p \notin DetectionTasks
    <3>1. PICK due : Set(p, [At("next") EXCEPT !.todo = due])
      BY <1>4, <2>2 DEF StartTask
    <3> DEFINE rec == [At("next") EXCEPT !.todo = due]
    <3>2. rec.pc = "next" /\ rec.remote = 0
      BY DEF At
    <3>3. QED
      BY <1>3, <3>1, <3>2
  <2>3. QED
    BY <2>1, <2>2
<1>5. CASE NextImage(p)
  <2>1. CASE Set(p, At("idle"))
    <3>1. At("idle").pc = "idle" /\ At("idle").remote = 0
      BY DEF At
    <3>2. QED
      BY <1>3, <2>1, <3>1
  <2>2. CASE ~Set(p, At("idle"))
    <3>1. PICK j \in Images, pc \in {"getDigest", "precheck", "check"} :
            Set(p, [producer[p] EXCEPT !.pc = pc, !.image = j,
                                       !.todo = producer[p].todo \ {j}])
      BY <1>5, <2>2, <1>0 DEF NextImage, ProducerState
    <3> DEFINE rec == [producer[p] EXCEPT !.pc = pc, !.image = j,
                                          !.todo = producer[p].todo \ {j}]
    <3>2. rec.pc = pc /\ rec.image = j /\ rec.remote = producer[p].remote
      BY <1>0 DEF ProducerState
    <3>3. Lists(producer[p], rec)
      BY <1>5, <3>2 DEF Lists, NextImage
    <3>4. QED
      BY <1>1, <3>1, <3>3
  <2>3. QED
    BY <2>1, <2>2
<1>6. CASE GetDigest(p) /\ ~Leave(p, "dropped")
  <2> DEFINE rec == [producer[p] EXCEPT !.pc = "check",
                                        !.remote = content[producer[p].image]]
  <2>1. Set(p, rec) /\ producer[p].pc = "getDigest"
    BY <1>6 DEF GetDigest, CallFails
  <2>2. Compares(producer[p], rec)
    BY <1>0, <2>1 DEF Compares, ProducerState
  <2>3. QED
    BY <1>1, <2>1, <2>2
<1>7. CASE CheckBusy(p) /\ ~Leave(p, "dropped")
  <2>1. PICK pc \in {"check", "insert", "record"} :
          /\ GotoPc(p, pc) /\ producer[p].pc \in {"precheck", "check"}
          /\ pc = "record" => Busy(producer[p].image)
    BY <1>7 DEF CheckBusy, CallFails, MayEnqueue
  <2> DEFINE rec == [producer[p] EXCEPT !.pc = pc]
  <2>2. rec.pc = pc /\ rec.image = producer[p].image /\ rec.remote = producer[p].remote
    BY <1>0 DEF ProducerState
  <2>3. Decides(producer[p], rec)
    BY <2>1, <2>2 DEF Decides, SameTarget
  <2>4. QED
    BY <1>1, <2>1, <2>3 DEF GotoPc
<1>8. CASE Insert(p) /\ ~Leave(p, "dropped")
  <2>1. PICK s \in Scans \ ManualScans :
          /\ InsertScan(s, producer[p].image,
                        IF p \in Hooks THEN "webhook" ELSE "schedule")
          /\ Set(p, [producer[p] EXCEPT !.pc = "push", !.scan = s])
    BY <1>8 DEF Insert, CallFails
  <2> DEFINE rec == [producer[p] EXCEPT !.pc = "push", !.scan = s]
  <2>2. /\ rec.pc = "push" /\ rec.image = producer[p].image
        /\ rec.remote = producer[p].remote /\ rec.scan = s
    BY <1>0 DEF ProducerState
  <2>3. imageOf[s] = NoImage
    BY <2>1 DEF InsertScan, Lifecycle!Create, TypeInv, RowsNameImages
  <2>4. Asks(producer[p], rec)
    BY <1>8, <2>1, <2>2, <2>3 DEF Asks, SameTarget, InsertScan, Insert
  <2>5. QED
    BY <1>1, <2>1, <2>4
<1>9. CASE Push(p) /\ ~Leave(p, "dropped")
  <2> DEFINE rec == [producer[p] EXCEPT !.pc = "record", !.scan = NoScan]
  <2>1. Set(p, rec) /\ Lifecycle!Send(producer[p].scan) /\ producer[p].pc = "push"
    BY <1>9 DEF Push, Enqueued, CallFails
  <2>2. /\ rec.pc = "record" /\ rec.image = producer[p].image
        /\ rec.remote = producer[p].remote
    BY <1>0 DEF ProducerState
  <2>3. Hands(producer[p], rec)
    BY <2>1, <2>2 DEF Hands, SameTarget
  <2>4. QED
    BY <1>1, <2>1, <2>3
<1>10. CASE Record(p) /\ ~Leave(p, "dropped")
  <2> DEFINE rec == [At("processed") EXCEPT !.image = producer[p].image,
                                           !.remote = producer[p].remote]
  <2>1. Set(p, rec) /\ producer[p].pc = "record"
    BY <1>10 DEF Record, CallFails
  <2>2. Announces(producer[p], rec)
    BY <2>1 DEF Announces, SameTarget, At
  <2>3. QED
    BY <1>1, <2>1, <2>2
<1>11. QED
  BY <1>2, <1>4, <1>5, <1>6, <1>7, <1>8, <1>9, <1>10 DEF Produce

LEMMA VersionsStep ==
    ASSUME TypeInv, VersionsPast, [Next]_vars PROVE VersionsPast'
<1>0. /\ content \in [Images -> Nat] /\ \A i \in Images : content[i] >= 1
      /\ NoImage \notin Images
  BY ConstantsOK DEF TypeInv, TypeOK, Versions
<1>1. ASSUME NEW p \in Producers, UNCHANGED content,
             \A i \in Images : digest'[i] <= content[i],
             \A q \in Producers \ {p} : producer'[q] = producer[q],
             producer'[p].pc = "next" => producer'[p].remote = 0,
             producer'[p].image \in Images =>
                producer'[p].remote <= content[producer'[p].image]
      PROVE  VersionsPast'
  BY <1>1 DEF VersionsPast
<1>2. ASSUME NEW p \in Producers, Produce(p) PROVE VersionsPast'
  <2>1. UNCHANGED content /\ \A i \in Images : digest'[i] <= content[i]
    <3>1. CASE UNCHANGED digest
      BY <1>2, <3>1 DEF VersionsPast, Produce, StartTask, NextImage, GetDigest,
         CheckBusy, Insert, Push, Record
    <3>2. CASE ~UNCHANGED digest
      <4>1. /\ producer[p].pc = "record" /\ UNCHANGED content
            /\ digest' = [digest EXCEPT ![producer[p].image] = producer[p].remote]
        BY <1>2, <3>2 DEF Produce, StartTask, NextImage, GetDigest, CheckBusy,
           Insert, Push, Record
      <4>2. /\ producer[p].image \in Images
            /\ producer[p].remote <= content[producer[p].image]
        BY <4>1 DEF VersionsPast, TypeInv, HandlersNameImages, Handling
      <4>3. QED
        BY <4>1, <4>2 DEF VersionsPast, TypeInv, TypeOK
    <3>3. QED
      BY <3>1, <3>2
  <2>2. \A q \in Producers \ {p} : producer'[q] = producer[q]
    BY <1>2, ProducerMoves
  <2> DEFINE old == producer[p]
             new == producer'[p]
  <2>3. /\ old.pc = "next" => old.remote = 0
        /\ old.image \in Images => old.remote <= content[old.image]
        /\ old.pc \in Handling => old.image \in Images
    BY DEF VersionsPast, TypeInv, HandlersNameImages
  <2>4. \/ Rests(new) \/ Announces(old, new) \/ Lists(old, new)
        \/ Compares(old, new) \/ Decides(old, new) \/ Asks(old, new) \/ Hands(old, new)
    BY <1>2, ProducerMoves
  <2> HIDE DEF old, new
  <2>5. /\ new.pc = "next" => new.remote = 0
        /\ new.image \in Images => new.remote <= content[new.image]
    <3>1. CASE Rests(new)
      BY <1>0, <3>1 DEF Rests
    <3>2. CASE Lists(old, new)
      BY <1>0, <2>3, <3>2 DEF Lists
    <3>3. CASE Compares(old, new)
      BY <1>0, <3>3 DEF Compares
    <3>4. CASE Announces(old, new) \/ Decides(old, new) \/ Asks(old, new) \/ Hands(old, new)
      BY <2>3, <3>4 DEF Announces, Decides, Asks, Hands, SameTarget
    <3>5. QED
      BY <2>4, <3>1, <3>2, <3>3, <3>4
  <2>6. QED
    BY <1>1, <2>1, <2>2, <2>5 DEF new
<1>3. ASSUME NEW h \in Hooks, NEW i \in Images, ReceiveWebhook(h, i)
      PROVE  VersionsPast'
  <2>1. /\ h \in Producers /\ UNCHANGED <<content, digest>>
        /\ \A j \in Images : digest[j] <= content[j]
    BY <1>3 DEF ReceiveWebhook, Producers, VersionsPast
  <2>2. CASE CallFails(h)
    BY <1>0, <1>1, <2>1, <2>2, LeaveFacts, LeftRemote
       DEF CallFails, Handling
  <2>3. CASE ~CallFails(h)
    <3> DEFINE rec == [At("check") EXCEPT !.image = i, !.remote = content[i]]
    <3>1. Set(h, rec)
      BY <1>3, <2>3 DEF ReceiveWebhook
    <3>2. rec.pc = "check" /\ rec.image = i /\ rec.remote = content[i]
      BY DEF At
    <3> HIDE DEF rec
    <3>3. /\ producer'[h] = rec
          /\ \A q \in Producers \ {h} : producer'[q] = producer[q]
      BY <2>1, <3>1, SetFacts
    <3>4. QED
      BY <1>0, <1>1, <2>1, <3>2, <3>3
  <2>4. QED
    BY <2>2, <2>3
<1>4. ASSUME NEW i \in Images, PushImage(i) PROVE VersionsPast'
  <2>1. /\ UNCHANGED <<digest, producer>>
        /\ \A j \in Images : content'[j] \in Nat /\ content[j] <= content'[j]
    BY <1>0, <1>4 DEF PushImage
  <2>2. digest \in [Images -> Nat]
    BY ConstantsOK DEF TypeInv, TypeOK, Versions
  <2>3. \A p \in Producers : producer[p].remote \in Nat
    BY ConstantsOK DEF TypeInv, TypeOK, ProducerState, Versions
  <2>4. QED
    BY <1>0, <2>1, <2>2, <2>3 DEF VersionsPast
<1>5. ASSUME NEW s \in Scans,
             Work(s) \/ CreateScan(s) \/ SendManual(s) \/ CancelScan(s) \/ LoseJob(s)
      PROVE  UNCHANGED <<content, digest, producer>>
  BY <1>5 DEF Work, Claim, Start, ScanImage, Complete, Fail, Finish, CreateScan,
     SendManual, CancelScan, LoseJob, ScanStep
<1>6. CASE Crash
  <2>1. UNCHANGED <<content, digest>>
    BY <1>6 DEF Crash
  <2>2. \A p \in Producers :
           \/ producer'[p] = producer[p]
           \/ producer'[p] = At("dropped") \/ producer'[p] = At("idle")
    BY <1>6 DEF Crash
  <2>3. /\ At("dropped").pc = "dropped" /\ At("dropped").image = NoImage
        /\ At("idle").pc = "idle" /\ At("idle").image = NoImage
    BY AtFacts DEF ProducerPc
  <2>4. QED
    BY <1>0, <2>1, <2>2, <2>3 DEF VersionsPast
<1>7. ASSUME UNCHANGED <<content, digest, producer>> PROVE VersionsPast'
  BY <1>7 DEF VersionsPast
<1>8. QED
  BY <1>2, <1>3, <1>4, <1>5, <1>6, <1>7 DEF Next, vars

LEMMA RowsKeepImages ==
    ASSUME TypeInv, [Next]_vars, NEW s \in Scans, imageOf[s] # NoImage
    PROVE  imageOf'[s] = imageOf[s]
<1>1. ASSUME NEW t \in Scans, NEW i, NEW by, InsertScan(t, i, by)
      PROVE  imageOf'[s] = imageOf[s]
  <2>1. t # s
    BY <1>1 DEF InsertScan, Lifecycle!Create, TypeInv, RowsNameImages
  <2>2. QED
    BY <1>1, <2>1 DEF InsertScan, TypeInv, TypeOK
<1>2. ASSUME NEW p \in Producers, Produce(p) PROVE imageOf'[s] = imageOf[s]
  BY <1>1, <1>2 DEF Produce, StartTask, NextImage, GetDigest, CheckBusy, Insert,
     Push, Record, scanVars
<1>3. ASSUME NEW t \in Scans,
             Work(t) \/ CreateScan(t) \/ SendManual(t) \/ CancelScan(t) \/ LoseJob(t)
      PROVE  imageOf'[s] = imageOf[s]
  BY <1>1, <1>3 DEF Work, Claim, Start, ScanImage, Complete, Fail, Finish,
     CreateScan, SendManual, CancelScan, LoseJob, ScanStep
<1>4. QED
  BY <1>2, <1>3 DEF Next, ReceiveWebhook, PushImage, Crash, vars, scanVars

LEMMA PushesStep ==
    ASSUME TypeInv, PushesOwnScan, [Next]_vars PROVE PushesOwnScan'
<1>0. NoImage \notin Images
  BY ConstantsOK
<1>1. ASSUME NEW q \in Producers, producer'[q] = producer[q],
             producer[q].pc = "push"
      PROVE  /\ producer'[q].scan \in Scans
             /\ imageOf'[producer'[q].scan] = producer'[q].image
  <2>1. /\ producer[q].scan \in Scans /\ producer[q].image \in Images
        /\ imageOf[producer[q].scan] = producer[q].image
    BY <1>1 DEF PushesOwnScan, TypeInv, HandlersNameImages, Handling
  <2>2. QED
    BY <1>0, <1>1, <2>1, RowsKeepImages
<1>2. ASSUME \A q \in Producers :
                producer'[q] = producer[q] \/ producer'[q].pc # "push"
      PROVE  PushesOwnScan'
  BY <1>1, <1>2 DEF PushesOwnScan
<1>3. ASSUME NEW p \in Producers, Produce(p) PROVE PushesOwnScan'
  <2>1. /\ \A q \in Producers \ {p} : producer'[q] = producer[q]
        /\ producer'[p].pc # "push" \/ Asks(producer[p], producer'[p])
    BY <1>3, ProducerMoves DEF Rests, Announces, Lists, Compares, Decides, Hands,
       Handling
  <2>2. CASE producer'[p].pc # "push"
    BY <1>2, <2>1, <2>2
  <2>3. CASE Asks(producer[p], producer'[p])
    <3>1. /\ producer'[p].scan \in Scans
          /\ imageOf'[producer'[p].scan] = producer'[p].image
      BY <2>3 DEF Asks, SameTarget, TypeInv, TypeOK
    <3>2. QED
      BY <1>1, <2>1, <3>1 DEF PushesOwnScan
  <2>4. QED
    BY <2>1, <2>2, <2>3
<1>4. ASSUME NEW h \in Hooks, NEW i \in Images, ReceiveWebhook(h, i)
      PROVE  PushesOwnScan'
  <2>1. h \in Producers
    BY DEF Producers
  <2>2. CASE CallFails(h)
    BY <1>2, <2>1, <2>2, LeaveFacts DEF CallFails, Handling
  <2>3. CASE ~CallFails(h)
    <3> DEFINE rec == [At("check") EXCEPT !.image = i, !.remote = content[i]]
    <3>1. Set(h, rec) /\ rec.pc = "check"
      BY <1>4, <2>3 DEF ReceiveWebhook, At
    <3> HIDE DEF rec
    <3>2. QED
      BY <1>2, <2>1, <3>1, SetFacts
  <2>4. QED
    BY <2>2, <2>3
<1>5. ASSUME NEW s \in Scans,
             Work(s) \/ CreateScan(s) \/ SendManual(s) \/ CancelScan(s) \/ LoseJob(s)
      PROVE  UNCHANGED producer
  BY <1>5 DEF Work, Claim, Start, ScanImage, Complete, Fail, Finish, CreateScan,
     SendManual, CancelScan, LoseJob, ScanStep
<1>6. CASE Crash
  <2>1. \A p \in Producers :
           \/ producer'[p] = producer[p]
           \/ producer'[p] = At("dropped") \/ producer'[p] = At("idle")
    BY <1>6 DEF Crash
  <2>2. At("dropped").pc # "push" /\ At("idle").pc # "push"
    BY AtFacts DEF ProducerPc
  <2>3. QED
    BY <1>2, <2>1, <2>2
<1>7. QED
  BY <1>2, <1>3, <1>4, <1>5, <1>6 DEF Next, PushImage, vars

(* A step of one scan: the images that were covered stay so, and what is    *)
(* said of busy scans is kept.                                              *)
LEMMA ScanMoves ==
    ASSUME TypeInv, UNCHANGED content, NEW s \in Scans,
           \A t \in Scans : BusyScanReads(t),
           \A t \in Scans \ {s} :
              /\ imageOf'[t] = imageOf[t] /\ status'[t] = status[t]
              /\ stage'[t] = stage[t] /\ run'[t] = run[t] /\ seen'[t] = seen[t],
           imageOf'[s] = imageOf[s] \/ imageOf[s] = NoImage,
           imageOf[s] \in Images =>
              /\ seen'[s] \in {seen[s], content[imageOf[s]]}
              /\ OnItsWay(s) => OnItsWay(s)' \/ seen'[s] = content[imageOf[s]],
           BusyScanReads(s)'
    PROVE  /\ \A i \in Images : Covered(i) => Covered(i)'
           /\ \A t \in Scans : BusyScanReads(t)'
<1>1. ASSUME NEW t \in Scans, NEW i \in Images, Covers(t, i) PROVE Covers(t, i)'
  <2>1. NoImage \notin Images
    BY ConstantsOK
  <2>2. CASE t = s
    BY <1>1, <2>1, <2>2 DEF Covers
  <2>3. CASE t # s
    BY <1>1, <2>3 DEF Covers, OnItsWay
  <2>4. QED
    BY <2>2, <2>3
<1>2. ASSUME NEW t \in Scans PROVE BusyScanReads(t)'
  <2>1. CASE t = s
    BY <2>1
  <2>2. CASE t # s
    <3>1. BusyScanReads(t)
      OBVIOUS
    <3>2. QED
      BY <2>2, <3>1 DEF BusyScanReads, OnItsWay
  <2>3. QED
    BY <2>1, <2>2
<1>3. \A i \in Images : Covered(i) => Covered(i)'
  BY <1>1 DEF Covered
<1>4. QED
  BY <1>2, <1>3

LEMMA Created ==
    ASSUME TypeInv, UNCHANGED content, \A t \in Scans : BusyScanReads(t),
           NEW s \in Scans, NEW i, NEW by, InsertScan(s, i, by)
    PROVE  /\ \A j \in Images : Covered(j) => Covered(j)'
           /\ \A t \in Scans : BusyScanReads(t)'
<1>1. /\ status[s] = "absent" /\ imageOf[s] = NoImage /\ stage[s] = "unsent"
      /\ run[s] = "none" /\ NoImage \notin Images
  BY ConstantsOK DEF InsertScan, Lifecycle!Create, TypeInv, RowsNameImages,
     BusyScanReads
<1>2. /\ status'[s] = "pending" /\ UNCHANGED <<stage, run, seen>>
      /\ \A t \in Scans \ {s} : imageOf'[t] = imageOf[t] /\ status'[t] = status[t]
  BY DEF InsertScan, Lifecycle!Create, Lifecycle!SetStatus, TypeInv, TypeOK
<1>3. BusyScanReads(s)'
  BY <1>1, <1>2 DEF BusyScanReads, OnItsWay
<1>4. QED
  BY <1>1, <1>2, <1>3, ScanMoves

LEMMA ScansStayCovered ==
    ASSUME TypeInv, \A t \in Scans : BusyScanReads(t), NEW s \in Scans,
           Undisturbed, Undisturbed',
           Work(s) \/ CreateScan(s) \/ SendManual(s) \/ CancelScan(s) \/ LoseJob(s)
    PROVE  /\ \A i \in Images : Covered(i) => Covered(i)'
           /\ \A t \in Scans : BusyScanReads(t)'
<1>0. ~Fault /\ BusyScanReads(s)
  BY DEF Fault, Undisturbed
<1>1. CASE CreateScan(s)
  BY <1>1, Created DEF CreateScan
<1>2. CASE ~CreateScan(s)
  <2>1. /\ UNCHANGED <<content, imageOf>>
        /\ \A t \in Scans \ {s} :
              /\ status'[t] = status[t] /\ stage'[t] = stage[t]
              /\ run'[t] = run[t] /\ seen'[t] = seen[t]
    <3>1. UNCHANGED <<content, imageOf>>
      BY <1>0, <1>2 DEF Work, Claim, Start, ScanImage, Complete, Fail, Finish,
         SendManual, CancelScan, LoseJob, ScanStep
    <3>2. /\ \A t \in Scans \ {s} : status'[t] = status[t] /\ stage'[t] = stage[t]
      BY <1>2 DEF Work, Claim, Start, ScanImage, Complete, Fail, Finish,
         SendManual, CancelScan, LoseJob, Lifecycle!Send, Lifecycle!Claim,
         Lifecycle!Close, Lifecycle!Start, Lifecycle!Complete, Lifecycle!Fail,
         Lifecycle!Cancel, Lifecycle!SetStatus, Lifecycle!SetStage, TypeInv, TypeOK
    <3>3. /\ \A t \in Scans \ {s} : run'[t] = run[t] /\ seen'[t] = seen[t]
      BY <1>2 DEF Work, Claim, Start, ScanImage, Complete, Fail, Finish,
         SendManual, CancelScan, LoseJob, TypeInv, TypeOK
    <3>4. QED
      BY <3>1, <3>2, <3>3
  <2>2. /\ seen'[s] \in {seen[s], content[imageOf[s]]}
        /\ OnItsWay(s) => OnItsWay(s)' \/ seen'[s] = content[imageOf[s]]
        /\ BusyScanReads(s)'
    <3>0. /\ status \in [Scans -> {"absent", "pending", "running", "completed",
                                  "failed", "cancelled"}]
          /\ stage \in [Scans -> {"unsent", "waiting", "working", "closed"}]
          /\ run \in [Scans -> {"none", "started", "pulled", "failed", "over"}]
          /\ seen \in [Scans -> Versions \cup {0}]
          /\ status[s] = "absent" => stage[s] = "unsent"
      BY DEF TypeInv, TypeOK, RowsNameImages
    <3>1. CASE Claim(s) \/ SendManual(s) \/ CancelScan(s)
      BY <1>0, <2>1, <3>0, <3>1 DEF Claim, SendManual, CancelScan, Lifecycle!Send,
         Lifecycle!Claim, Lifecycle!Cancel, Lifecycle!SetStatus,
         Lifecycle!SetStage, BusyScanReads, OnItsWay
    <3>2. CASE Start(s)
      BY <1>0, <2>1, <3>0, <3>2 DEF Start, Lifecycle!Start, Lifecycle!SetStatus,
         BusyScanReads, OnItsWay
    <3>3. CASE ScanImage(s)
      BY <1>0, <2>1, <3>0, <3>3 DEF ScanImage, BusyScanReads, OnItsWay
    <3>4. CASE Complete(s) \/ Fail(s)
      BY <1>0, <2>1, <3>0, <3>4 DEF Complete, Fail, Lifecycle!Complete,
         Lifecycle!Fail, Lifecycle!SetStatus, BusyScanReads, OnItsWay
    <3>5. CASE Finish(s)
      BY <1>0, <2>1, <3>0, <3>5 DEF Finish, Lifecycle!Close, Lifecycle!SetStage,
         BusyScanReads, OnItsWay
    <3>6. QED
      BY <1>0, <1>2, <3>1, <3>2, <3>3, <3>4, <3>5 DEF Work, LoseJob
  <2>3. QED
    BY <2>1, <2>2, ScanMoves
<1>3. QED
  BY <1>1, <1>2

(* What holds of the scans holds after every step but a push, in which the  *)
(* images that were not pushed stay covered.                                *)
LEMMA StaysCovered ==
    ASSUME TypeInv, \A t \in Scans : BusyScanReads(t), [Next]_vars,
           Undisturbed, Undisturbed'
    PROVE  /\ \A i \in Images :
                 content'[i] = content[i] => (Covered(i) => Covered(i)')
           /\ \A t \in Scans : BusyScanReads(t)'
<1>0. ~Fault
  BY DEF Fault, Undisturbed
<1>1. ASSUME UNCHANGED <<content, scanVars>>
      PROVE  /\ \A i \in Images : Covered(i) => Covered(i)'
             /\ \A t \in Scans : BusyScanReads(t)'
  <2>1. UNCHANGED <<content, imageOf, status, stage, run, seen>>
    BY <1>1 DEF scanVars
  <2>2. \A t \in Scans : BusyScanReads(t)'
    BY <2>1 DEF BusyScanReads, OnItsWay
  <2>3. \A i \in Images : Covered(i) => Covered(i)'
    BY <2>1 DEF Covered, Covers, OnItsWay
  <2>4. QED
    BY <2>2, <2>3
<1>2. ASSUME NEW p \in Producers, Produce(p)
      PROVE  /\ \A i \in Images : Covered(i) => Covered(i)'
             /\ \A t \in Scans : BusyScanReads(t)'
  <2>1. CASE Insert(p)
    <3>1. PICK s, i, by : s \in Scans /\ InsertScan(s, i, by)
      BY <1>0, <2>1 DEF Insert, CallFails
    <3>2. UNCHANGED content
      BY <2>1 DEF Insert
    <3>3. QED
      BY <3>1, <3>2, Created
  <2>2. CASE Push(p)
    <3>0. PICK s : s = producer[p].scan
      OBVIOUS
    <3>1. /\ Lifecycle!Send(s) /\ UNCHANGED <<content, imageOf, run, seen>>
      BY <1>0, <2>2, <3>0 DEF Push, CallFails
    <3>2. CASE s \in Scans
      <4>1. /\ stage[s] = "unsent" /\ stage'[s] = "waiting" /\ UNCHANGED status
            /\ \A t \in Scans \ {s} : stage'[t] = stage[t]
        BY <3>1, <3>2 DEF Lifecycle!Send, Lifecycle!SetStage, TypeInv, TypeOK
      <4>2. BusyScanReads(s)' /\ (OnItsWay(s) => OnItsWay(s)')
        <5>1. BusyScanReads(s)
          BY <3>2
        <5>2. QED
          BY <3>1, <4>1, <5>1 DEF BusyScanReads, OnItsWay
      <4>3. QED
        BY <3>1, <3>2, <4>1, <4>2, ScanMoves
    <3>3. CASE s \notin Scans
      <4>1. UNCHANGED <<stage, status>>
        BY <3>1, <3>3 DEF Lifecycle!Send, Lifecycle!SetStage, TypeInv, TypeOK
      <4>2. \A t \in Scans : BusyScanReads(t)'
        BY <3>1, <4>1 DEF BusyScanReads, OnItsWay
      <4>3. \A i \in Images : Covered(i) => Covered(i)'
        BY <3>1, <4>1 DEF Covered, Covers, OnItsWay
      <4>4. QED
        BY <4>2, <4>3
    <3>4. QED
      BY <3>2, <3>3
  <2>3. CASE ~Insert(p) /\ ~Push(p)
    <3>1. UNCHANGED <<content, scanVars>>
      BY <1>2, <2>3 DEF Produce, StartTask, NextImage, GetDigest, CheckBusy, Record
    <3>2. QED
      BY <1>1, <3>1
  <2>4. QED
    BY <2>1, <2>2, <2>3
<1>3. ASSUME NEW h \in Hooks, NEW i \in Images, ReceiveWebhook(h, i)
      PROVE  UNCHANGED <<content, scanVars>>
  BY <1>3 DEF ReceiveWebhook
<1>4. ASSUME NEW i \in Images, PushImage(i)
      PROVE  /\ \A j \in Images :
                   content'[j] = content[j] => (Covered(j) => Covered(j)')
             /\ \A t \in Scans : BusyScanReads(t)'
  <2>1. /\ UNCHANGED <<imageOf, status, stage, run, seen>> /\ ~Busy(i)
        /\ \A j \in Images \ {i} : content'[j] = content[j]
    BY <1>4 DEF PushImage, scanVars, Undisturbed, TypeInv, TypeOK
  <2>2. \A j \in Images : content'[j] = content[j] => (Covered(j) => Covered(j)')
    BY <2>1 DEF Covered, Covers, OnItsWay
  <2>3. ASSUME NEW t \in Scans PROVE BusyScanReads(t)'
    <3>1. BusyScanReads(t)
      OBVIOUS
    <3>2. CASE status[t] \in {"pending", "running"}
      <4>1. imageOf[t] \in Images \ {i}
        BY <2>1, <3>2 DEF Busy, TypeInv, RowsNameImages
      <4>2. QED
        BY <2>1, <3>1, <4>1 DEF BusyScanReads, OnItsWay
    <3>3. CASE status[t] \notin {"pending", "running"}
      BY <2>1, <3>1, <3>3 DEF BusyScanReads
    <3>4. QED
      BY <3>2, <3>3
  <2>4. QED
    BY <2>2, <2>3
<1>5. ~Crash
  BY <1>0 DEF Crash
<1>6. QED
  BY <1>1, <1>2, <1>3, <1>4, <1>5, ScansStayCovered DEF Next, vars

LEMMA StoredStep ==
    ASSUME TypeInv, VersionsPast, StoredAreCovered, RecordedAreCovered,
           \A i \in Images : content'[i] = content[i] => (Covered(i) => Covered(i)'),
           [Next]_vars
    PROVE  StoredAreCovered'
<1>0. content \in [Images -> Nat]
  BY ConstantsOK DEF TypeInv, TypeOK, Versions
<1>1. ASSUME NEW i \in Images, UNCHANGED <<content, digest>>,
             digest'[i] = content'[i]
      PROVE  Covered(i)'
  BY <1>1 DEF StoredAreCovered
<1>2. ASSUME NEW p \in Producers, Produce(p), ~UNCHANGED digest, NEW i \in Images,
             digest'[i] = content'[i]
      PROVE  Covered(i)'
  <2>1. /\ producer[p].pc = "record" /\ UNCHANGED content
        /\ digest' = [digest EXCEPT ![producer[p].image] = producer[p].remote]
    BY <1>2 DEF Produce, StartTask, NextImage, GetDigest, CheckBusy, Insert, Push,
       Record
  <2>2. CASE i = producer[p].image
    <3>1. producer[p].remote = content[i]
      BY <1>2, <2>1, <2>2 DEF TypeInv, TypeOK
    <3>2. QED
      BY <2>1, <2>2, <3>1 DEF RecordedAreCovered
  <2>3. CASE i # producer[p].image
    BY <1>2, <2>1, <2>3 DEF StoredAreCovered, TypeInv, TypeOK
  <2>4. QED
    BY <2>2, <2>3
<1>3. ASSUME NEW p \in Producers, Produce(p) PROVE UNCHANGED content
  BY <1>3 DEF Produce, StartTask, NextImage, GetDigest, CheckBusy, Insert, Push,
     Record
<1>4. ASSUME NEW j \in Images, PushImage(j), NEW i \in Images,
             digest'[i] = content'[i]
      PROVE  Covered(i)'
  <2>1. UNCHANGED digest /\ content' = [content EXCEPT ![j] = content[j] + 1]
    BY <1>4 DEF PushImage
  <2>2. i # j
    BY <1>0, <1>4, <2>1 DEF VersionsPast
  <2>3. QED
    BY <1>0, <1>4, <2>1, <2>2 DEF StoredAreCovered
<1>5. ASSUME NEW s \in Scans,
             Work(s) \/ CreateScan(s) \/ SendManual(s) \/ CancelScan(s) \/ LoseJob(s)
      PROVE  UNCHANGED <<content, digest>>
  BY <1>5 DEF Work, Claim, Start, ScanImage, Complete, Fail, Finish, CreateScan,
     SendManual, CancelScan, LoseJob, ScanStep
<1>6. QED
  BY <1>1, <1>2, <1>3, <1>4, <1>5
     DEF StoredAreCovered, Next, ReceiveWebhook, Crash, vars

LEMMA RecordedStep ==
    ASSUME TypeInv, VersionsPast, PushesOwnScan, RecordedAreCovered, Undisturbed,
           Undisturbed', \A t \in Scans : BusyScanReads(t),
           \A i \in Images : content'[i] = content[i] => (Covered(i) => Covered(i)'),
           [Next]_vars
    PROVE  RecordedAreCovered'
<1>0. content \in [Images -> Nat] /\ ~Fault
  BY ConstantsOK DEF TypeInv, TypeOK, Versions, Fault, Undisturbed
<1> DEFINE Ok(p) == producer[p].pc = "record"
                       /\ producer[p].remote = content[producer[p].image]
                         => Covered(producer[p].image)
<1>1. ASSUME NEW q \in Producers, producer'[q] = producer[q], UNCHANGED content
      PROVE  Ok(q)'
  <2>1. Ok(q) /\ (producer[q].pc = "record" => producer[q].image \in Images)
    BY DEF RecordedAreCovered, TypeInv, HandlersNameImages, Handling
  <2>2. PICK i : i = producer[q].image
    OBVIOUS
  <2>3. QED
    BY <1>1, <2>1, <2>2
<1>2. ASSUME NEW p \in Producers, Produce(p) PROVE Ok(p)'
  <2>0. UNCHANGED content
    BY <1>2 DEF Produce, StartTask, NextImage, GetDigest, CheckBusy, Insert, Push,
       Record
  <2>1. \/ producer'[p].pc # "record"
        \/ Decides(producer[p], producer'[p]) /\ Busy(producer[p].image)
        \/ Hands(producer[p], producer'[p])
    BY <1>2, ProducerMoves DEF Rests, Announces, Lists, Compares, Decides, Asks,
       Handling
  <2>2. PICK i : i = producer[p].image
    OBVIOUS
  <2>3. CASE Decides(producer[p], producer'[p]) /\ Busy(producer[p].image)
    <3>1. i \in Images /\ producer'[p].image = i
      BY <2>2, <2>3 DEF Decides, SameTarget, TypeInv, HandlersNameImages, Handling
    <3>2. PICK s \in Scans : imageOf[s] = i /\ status[s] \in {"pending", "running"}
      BY <2>2, <2>3 DEF Busy
    <3>3. Covers(s, i)
      BY <3>2 DEF BusyScanReads, Covers
    <3>4. Covered(i)'
      BY <2>0, <3>1, <3>3 DEF Covered
    <3>5. QED
      BY <3>1, <3>4
  <2>4. CASE Hands(producer[p], producer'[p])
    <3>1. /\ i \in Images /\ producer'[p].image = i
          /\ producer[p].scan \in Scans /\ imageOf[producer[p].scan] = i
      BY <2>2, <2>4 DEF Hands, SameTarget, TypeInv, HandlersNameImages, Handling,
         PushesOwnScan
    <3>2. PICK s \in Scans : s = producer[p].scan
      BY <3>1
    <3>3. Covers(s, i)
      <4>1. stage[s] = "unsent"
        BY <2>4, <3>2 DEF Hands, Lifecycle!Send
      <4>2. QED
        BY <3>1, <3>2, <4>1 DEF BusyScanReads, OnItsWay, Covers
    <3>4. Covered(i)'
      BY <2>0, <3>1, <3>3 DEF Covered
    <3>5. QED
      BY <3>1, <3>4
  <2>5. QED
    BY <2>1, <2>3, <2>4
<1>3. ASSUME NEW h \in Hooks, NEW i \in Images, ReceiveWebhook(h, i)
      PROVE  RecordedAreCovered'
  <2>1. h \in Producers /\ UNCHANGED content /\ ~CallFails(h)
    BY <1>0, <1>3 DEF ReceiveWebhook, Producers, CallFails
  <2> DEFINE rec == [At("check") EXCEPT !.image = i, !.remote = content[i]]
  <2>2. Set(h, rec) /\ rec.pc = "check"
    BY <1>3, <2>1 DEF ReceiveWebhook, At
  <2> HIDE DEF rec
  <2>3. /\ producer'[h].pc = "check"
        /\ \A q \in Producers \ {h} : producer'[q] = producer[q]
    BY <2>1, <2>2, SetFacts
  <2>4. Ok(h)'
    BY <2>3
  <2>5. \A q \in Producers \ {h} : Ok(q)'
    BY <1>1, <2>1, <2>3
  <2>6. QED
    BY <2>4, <2>5 DEF RecordedAreCovered
<1>4. ASSUME NEW p \in Producers, Produce(p) PROVE RecordedAreCovered'
  <2>1. UNCHANGED content
    BY <1>4 DEF Produce, StartTask, NextImage, GetDigest, CheckBusy, Insert, Push,
       Record
  <2>2. \A q \in Producers \ {p} : producer'[q] = producer[q]
    BY <1>4, ProducerMoves
  <2>3. \A q \in Producers : Ok(q)'
    BY <1>1, <1>2, <1>4, <2>1, <2>2
  <2>4. QED
    BY <2>3 DEF RecordedAreCovered
<1>5. ASSUME UNCHANGED <<content, producer>> PROVE RecordedAreCovered'
  <2>1. \A q \in Producers : Ok(q)'
    BY <1>1, <1>5
  <2>2. QED
    BY <2>1 DEF RecordedAreCovered
<1>6. ASSUME NEW i \in Images, PushImage(i) PROVE RecordedAreCovered'
  <2>1. UNCHANGED producer /\ content' = [content EXCEPT ![i] = content[i] + 1]
    BY <1>6 DEF PushImage
  <2>2. ASSUME NEW q \in Producers, producer[q].pc = "record",
               producer[q].remote = content'[producer[q].image]
        PROVE  Covered(producer[q].image)'
    <3>1. PICK j : j = producer[q].image
      OBVIOUS
    <3>2. j \in Images /\ producer[q].remote <= content[j]
      BY <2>2, <3>1 DEF VersionsPast, TypeInv, HandlersNameImages, Handling
    <3>3. j # i /\ content'[j] = content[j]
      BY <1>0, <2>1, <2>2, <3>1, <3>2
    <3>4. Covered(j)'
      BY <2>2, <3>1, <3>2, <3>3 DEF RecordedAreCovered
    <3>5. QED
      BY <2>1, <3>1, <3>4
  <2>3. QED
    BY <2>1, <2>2 DEF RecordedAreCovered
<1>7. ASSUME NEW s \in Scans,
             Work(s) \/ CreateScan(s) \/ SendManual(s) \/ CancelScan(s) \/ LoseJob(s)
      PROVE  UNCHANGED <<content, producer>>
  BY <1>7 DEF Work, Claim, Start, ScanImage, Complete, Fail, Finish, CreateScan,
     SendManual, CancelScan, LoseJob, ScanStep
<1>8. ~Crash
  BY <1>0 DEF Crash
<1>9. QED
  BY <1>3, <1>4, <1>5, <1>6, <1>7, <1>8 DEF Next, vars

LEMMA UndisturbedBefore ==
    ASSUME TypeInv, [Next]_vars, Undisturbed' PROVE Undisturbed
<1>1. faults \in Nat /\ busyPushes \in Nat
  BY ConstantsOK DEF TypeInv, TypeOK
<1>2. CASE Fault \/ UNCHANGED boundVars
  BY <1>1, <1>2 DEF Fault, boundVars, Undisturbed
<1>3. ASSUME NEW i \in Images, PushImage(i) PROVE Undisturbed
  BY <1>1, <1>3 DEF PushImage, Undisturbed
<1>4. ASSUME NEW p \in Producers, Produce(p) PROVE Fault \/ UNCHANGED boundVars
  BY <1>4 DEF Produce, StartTask, NextImage, GetDigest, CheckBusy, Insert, Push,
     Record, CallFails
<1>5. ASSUME NEW s \in Scans,
             Work(s) \/ CreateScan(s) \/ SendManual(s) \/ LoseJob(s)
      PROVE  Fault \/ UNCHANGED boundVars
  BY <1>5 DEF Work, Claim, Start, ScanImage, Complete, Fail, Finish, CreateScan,
     SendManual, LoseJob
<1>6. ASSUME NEW s \in Scans, CancelScan(s) PROVE Undisturbed
  BY <1>6 DEF CancelScan, Undisturbed
<1>7. ASSUME NEW h \in Hooks, NEW i \in Images, ReceiveWebhook(h, i)
      PROVE  Fault \/ UNCHANGED boundVars
  BY <1>7 DEF ReceiveWebhook, CallFails
<1>8. QED
  BY <1>2, <1>3, <1>4, <1>5, <1>6, <1>7 DEF Next, Crash, vars

(* If no call failed and no push came while the image was busy, a stored    *)
(* digest of the present content is never a lie: some scan pulled that      *)
(* content, or will, however change detection, webhooks, manual scans,      *)
(* cancellations and retries interleave (runChangeDetection).               *)
THEOREM StoredDigestsAreScanned == Spec => []ChangesAreScanned
<1>1. Init => TypeInv /\ ChangesInv
  <2> SUFFICES ASSUME Init PROVE ChangesInv
    BY InitTypeInv
  <2>1. VersionsPast /\ PushesOwnScan
    BY ConstantsOK DEF Init, VersionsPast, PushesOwnScan, At, NoRows
  <2>2. \A s \in Scans : BusyScanReads(s)
    BY DEF Init, Lifecycle!Init, BusyScanReads
  <2>3. StoredAreCovered /\ RecordedAreCovered
    BY DEF Init, StoredAreCovered, RecordedAreCovered, NoRows, At
  <2>4. QED
    BY <2>1, <2>2, <2>3 DEF ChangesInv
<1>2. TypeInv /\ ChangesInv /\ [Next]_vars => TypeInv' /\ ChangesInv'
  <2> SUFFICES ASSUME TypeInv, ChangesInv, [Next]_vars PROVE ChangesInv'
    BY TypeInvStep
  <2>1. VersionsPast' /\ PushesOwnScan'
    BY VersionsStep, PushesStep DEF ChangesInv
  <2>2. ASSUME Undisturbed'
        PROVE  /\ (\A s \in Scans : BusyScanReads(s))'
               /\ StoredAreCovered' /\ RecordedAreCovered'
    <3>1. Undisturbed
      BY <2>2, UndisturbedBefore
    <3>2. /\ VersionsPast /\ PushesOwnScan /\ StoredAreCovered /\ RecordedAreCovered
          /\ \A s \in Scans : BusyScanReads(s)
      BY <3>1 DEF ChangesInv
    <3>3. /\ \A i \in Images :
                 content'[i] = content[i] => (Covered(i) => Covered(i)')
          /\ \A s \in Scans : BusyScanReads(s)'
      BY <2>2, <3>1, <3>2, StaysCovered
    <3>4. QED
      BY <2>2, <3>1, <3>2, <3>3, StoredStep, RecordedStep
  <2>3. QED
    BY <2>1, <2>2 DEF ChangesInv
<1>3. ChangesInv => ChangesAreScanned
  BY DEF ChangesInv, Undisturbed, StoredAreCovered, Covered, Covers, OnItsWay,
     ChangesAreScanned
<1>4. QED
  BY <1>1, <1>2, <1>3, PTL DEF Spec
=============================================================================
