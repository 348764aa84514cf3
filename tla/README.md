# Verification of the Vullify backend

TLA+ models of the Vullify backend, TLC configurations that check them on small
instances, and theorems about them that the TLAPS proof system checks. Paths are
relative to the repository (`internal/...` is `src/internal/...`).

To check a run, from this directory: `tlc -workers 2 -config PipelinePool.cfg MCScanPipeline`;
to check proofs: `tlapm ScanDispatchProofs.tla`. `PROJECT.json` lists the runs, the mutated
forms of definitions that show that each property can fail, the source lines of each definition,
the hazards, the findings and the theorems.

## 1. The system

Three long-running processes share a PostgreSQL database and a Redis server: `cmd/api` (REST API,
webhooks and the scheduler's tasks), `cmd/worker` (a pool of goroutines that run Trivy) and
`cmd/enricher` (adds EPSS scores and KEV membership). `cmd/cli` is a client of the API. Nothing
else coordinates them: every statement, Redis command and scanner call is atomic by itself, and
almost nothing larger is (the exceptions are the transactions of `PersistScanResults`,
`EnrichScan` and `SoftDeleteRegistry`).

| Component | State | Operations | What makes it correct |
|---|---|---|---|
| scan API `api/handlers_scans.go`, `handlers_adhoc.go`, `handlers_targets.go` | rows of `scans` | create, rerun, cancel, progress | an accepted scan is scanned and ends; what is read is consistent |
| scan queue `scanqueue/` | a Redis list | LPUSH, BRPOP | a job is delivered once |
| scan worker `worker/` | goroutines, attempt counts; phase key and events in Redis | pop, pipeline, retry, stop | bounded attempts, final outcomes, row/phase/event agree, no scan stranded |
| scan rows `db/scans.go`, `persist_scan.go`, `scans_api_store.go` | `scans`, `findings`, `sboms` | conditional and unconditional UPDATEs, one transaction | columns agree with the status |
| scheduler `scheduler/`, `db/scheduler_store.go` | tickers, a lock per task in Redis, `images.digest` | registry sync, periodic rescan, target rescan, change detection | images get scanned, changes are noticed, no pile-up of scans, one task run at a time |
| webhooks `webhook/`, `db/webhook_store.go` | `webhook_events`, a goroutine per delivery | record, upsert the image, dispatch, mark processed | a push leads to a scan of what was pushed |
| image inventory `db/registries_store.go`, `images_store.go`, `api/server.go` | `registries`, `images` (soft-deleted, no unique index) | create, update, delete, sync, upsert | few active rows per tag, no image deleted that the registry has, only tested credentials stored |
| targets `db/targets_store.go` | `targets` | create, update, delete, latest scan | few targets per image |
| enricher `enrichment/`, `db/repository.go` | pub/sub subscription, EPSS and KEV caches | enrich a scan's findings | every completed scan is enriched; a cached body is usable |
| Trivy scanner `scanner/trivy.go` | `ExtraEnv`, shared by all workers | run, classify failures | a job runs with its own credentials |
| registry connectors `registry/` | bearer tokens | list, digest, test | lists are complete, digests are served ones, a passed test means that the token service or API it asks accepted the credentials |
| findings, suppressions, dashboard `db/suppressions_store.go`, `findings_api_store.go`, `dashboard_store.go` | suppressions, read queries | rules, lists, details, reports | a finding that no rule hides is seen, one that a rule hides is not |
| CLI `cli/` | none | poll, gates | it ends, and its exit code says what happened |
| object storage, database updater, plumbing | none of their own | | not modelled |

Interactions: requests, tasks and webhooks insert a row and push its job in separate calls; workers
take jobs and write rows, phase keys and events; the enricher listens to the events; change detection
and webhooks compare what the registry serves with what the database remembers; a busy check on
`scans` is all that keeps tasks and webhooks from asking twice.

Hard behaviours, with their lines, are the `hazards` of `PROJECT.json`. They are of five kinds: check
and act in separate statements (busy check, upsert, target creation), unconditional UPDATEs that
overwrite what another actor wrote, partial failure between two stores, processes that stop between
two calls, and decisions on a state read earlier (lists, digests, tokens, caches).

## 2. Modules

| Module | What it is |
|---|---|
| `ScanPipeline` | API, queue, worker pool, rows, phase keys and events of scans |
| `ScanLifecycle` | what the pipeline promises of each scan: abstract specification |
| `ScanDispatch` | scheduler tasks, webhooks and API asking for scans; the worker is `ScanLifecycle`; the registry's content |
| `RegistryListing` | one registry connector and the registry it reads, for each of the seven types |
| `ImageInventory` | rows of images, the registry row and targets under syncs, webhooks and requests |
| `SchedulerLock` | the durations of a task: its lock and its longest run |
| `TrivyScanner` | the goroutines of a worker, which share one scanner, and Trivy |
| `FindingGate` | from a scan's findings through suppressions and enrichment to the exit code of the client |
| `MC...` | model values, scenes and symmetry for TLC |
| `ScanPipelineProofs`, `ScanPipelineOwnership`, `ScanPipelineRefinement` | theorems about `ScanPipeline` |
| `ScanDispatchProofs` | theorems about `ScanDispatch` |
| `TrivyScannerProofs` | theorems about `TrivyScanner` |
| `ImageInventoryProofs` | theorems about `ImageInventory` and `SchedulerLock` |
| `FindingGateProofs` | theorems about `FindingGate` |
| `RegistryListingProofs` | theorems about `RegistryListing` |

How they fit: `ScanPipeline` implements `ScanLifecycle`, and `ScanDispatch` takes the worker from
`ScanLifecycle`. `RegistryListing` establishes what a list or a digest is worth when a connector
returns it; `ImageInventory` assumes exactly that of its lists (`must` and `may` of a run), and
`ScanDispatch` of its digests. `ImageInventory` takes from `SchedulerLock` whether two replicas
may run the task at once. `TrivyScanner` opens up the one call that `ScanPipeline` has for a scan.
`FindingGate` follows the event that `ScanPipeline` publishes; its worker is a shorter one that
keeps what the enricher and the client can see: the status, versions of the results, the event.

### ScanPipeline

Each call to Redis, Postgres or Trivy is one step. `scans` is the table (a row says its status,
whether it started and completed, its error, and whether results are stored), `request` the HTTP
request behind each row, `queue` the list, `phase` the per-scan key, `events` what was published,
`worker` the goroutines (next call, scan held, attempt, failure), `ctxDone` the cancelled context
of the worker process.

| Action | Code |
|---|---|
| `CreateScan`, `RerunScan`, `Enqueue`, `AbandonRequest` | `createScan`, `rerunScan`: insert, then LPUSH; a failure between them leaves the row |
| `CancelScan` | the only UPDATE with a condition on the status |
| `Pop`, `PopAfterStop` | BRPOP; the job is off the list before anything is done with it |
| `SetScanPhase`, `UpdateScanRunning`, `ScanImage`, `PersistScanResults`, `PublishCompleted`, `UpdateScanFailed`, `PublishFailed` | the calls of `runPipeline`, in its order, whose errors are ignored where it ignores them |
| `ReturnError`, `Retry` | `processJobWithRetry` |
| `SigTerm`, `Unwind`, `Kill`, `Restart` | the end of the worker process, ordered or not |
| `ExpirePhase` | the key's time to live, 30 minutes |

A call may fail without effect (`CallFails`), or take effect and lose its reply (`ReplyLost`: the
Redis client repeats a push; a COMMIT reports an error). A job's payload is its scan; findings,
SBOMs and counts are the field `results`.

### ScanLifecycle

Two functions: the status of each scan, and the stage of its job (unsent, waiting, working, closed).
`ScanPipeline` implements it under the mapping of `StageOf`. Its `FailLast`, where the row becomes
failed and the job ends in one step, exists because a failing `UpdateScanRunning` publishes before
it marks the row, so that marking the row is the last call of the last attempt. TLC's pool run does
not get there (it takes two failing calls, and the run has one); the proof of the refinement did.

### ScanDispatch

| Action | Code |
|---|---|
| `StartTask`, `NextImage` | the list a task reads when it starts, and its loop, which goes on after a failure and ends when its context does |
| `GetDigest`, `SameDigest` | change detection: the registry's digest against the one read with the list |
| `CheckBusy` | `ImageHasPendingOrRunningScan`, twice in `runTargetRescan` |
| `Insert`, `Push`, `Record` | the rest of `enqueueScheduledScan` and `processAsync`; then the digest is stored, or the event marked |
| `ReceiveWebhook` | the goroutine up to the busy check |
| `CreateScan`, `SendManual`, `CancelScan` | `triggerTargetScan`, `createScan`, `cancelScan`, which do not look whether the image is busy |
| `Claim`, `Start`, `ScanImage`, `Complete`, `Fail`, `Finish`, `LoseJob` | the worker, through the actions of `ScanLifecycle`; `ScanImage` pulls the present content |
| `PushImage` | the outside world pushes a new version |
| `Crash` | the API process stops: tasks start again, webhook goroutines are gone, unsent rows stay |

Age is not modelled: any image may be due when a rescan starts, and one that never completed a scan
always is. Every image is taken to be a target with a valid frequency. Images exist from the start and are not deleted
(`ImageInventory` does both).
`busyPushes`, `faults`, `cancels` and `revived` count what happened; only properties and the
bound on upsets read them.

### RegistryListing

A connector answers one call after another; a call authenticates once (`Authenticate`) and then
sends one request per step, so that names, contents, credentials and tokens can change between
two. A name is its place in the server's order.

| Action | Code |
|---|---|
| `V2AuthHeaders`, `ACRToken` | `authHeaders` of `v2.go` with its token cache and its fallback to Basic, and the exchanges of `acr.go` |
| `TokenAuth`, `StaticAuth` | a token asked anew in each call (GCR, digests of Docker Hub, which also get one without credentials), and the connectors that send what they were configured with |
| `V2List`, `ACRList`, `GCRList`, `ECRList` | pages by Link or NextToken, which name the last entry of the page before |
| `DockerHubList`, `GitLabListRepositories`, `GitLabListTags`, `GitLabResolve` | pages by number |
| `GHCRListTags`, `GHCRListRepositories` | one page and no Link followed; no catalog at all |
| `*GetDigest` | HEAD of the manifest; GitLab looks through its tags |
| `*Test` | what each `TestConnection` takes for success: GCR's and GHCR's pass on a refusal by the registry, those of ACR, ECR and GCR are about the token only |
| `RequestFails` | an answer that is not 200 or cannot be decoded ends the call with an error |
| `Push`, `Remove`, `TurnCredentials`, `TokenDies`, `TokenLeavesCache` | the registry (external) and the clock |

Credentials are shown at one or two doors: a service that grants tokens (`"token"`) and the API itself
(`"api"`). A bearer v2 registry and ACR have the first, a v2 registry with Basic, GHCR and GitLab the second,
GCR, ECR and Docker Hub both; `accepts` is the set of doors that accept now (`TurnCredentials` changes one).
`stable`, `ever`, `removed` and `vouched` (the doors that accepted during a test) are what happened during
the call; only properties read them.

### ImageInventory

`rows` counts the live rows of each reference, since rows are not unique and differ in nothing
that matters here; one row, `watched`, is followed by itself for the targets. `run` is what each
replica or request is doing, `reg` the registry row with its type, credentials and URL, `lock` whether the
task's key exists. A run carries the row it read, or is about to write, in `conf`. `Working` are the pairs of a
type and credentials with which `TestConnection` passes.

| Action | Code |
|---|---|
| `RunJob`, `LockExpires` | `runTicker` and `tryLock`: nothing releases the lock |
| `ListRepositories`, `NoCatalog`, `NextRepository`, `ListTags`, `SelectImage`, `InsertImage`, `SoftDeleteImageTagsNotIn`, `SoftDeleteImagesForRepositoriesNotIn` | `runRegistrySync`, call by call; `UpsertImage` is two statements; GHCR has no catalog, and its sync ends there |
| `SyncRegistry`, `KeepTags` | the sync on request, which deletes nothing |
| `ProcessAsync`, `CreateAdhocScan`, `UpsertedOne` | webhook and ad-hoc scan up to the image |
| `DeleteImage`, `DeleteRegistry` | soft deletion; the registry's takes its images along in one transaction |
| `TestNew`, `CreateRegistry` | the request of a new registry: test, insert |
| `TestMerged`, `UpdateRegistry` | an update: read the row, put what the request names in its place and test the whole; then write every field, whatever the row has become |
| `ImageIsActive`, `TargetExists`, `CreateTarget`, `SoftDeleteTarget` | `createTarget` in its three statements, and `deleteTarget` |
| `CallFails` | a failing call, a run out of time, a stopped process |
| `Push`, `Remove` | the registry (external) |

Scenes with edits of the registry have no scheduler: all types of registry share `served`, so that a registry
that becomes another one is not the model's question.

`kept` of a run is the set of references that the registry has served since the run began, less
what page numbers may skip: no list may lack them, and so none of their rows may be deleted.

### TrivyScanner

`ScanImage` assigns `s.ExtraEnv` and `execFn` reads it, without a lock, in goroutines that share `s`:
a data race. A slice is an array and a length (its capacity is not read), each stored and
loaded in a step of its own and in any order (`StoreWord`, `execFn`). `Trivy`, `TrivyRefused` and
`TrivyFails` are the three runs of Trivy and the classification of their failures (it goes by the text of the
error, so that a refusal may be a failure to pull or one of the scan, which is tried again), `Panic` is the
copy from no array that a torn slice leads to, and `Failed` is `processJobWithRetry`. `Type` and
`Private` say which registry a job's image is of and whether it needs credentials;
`CredentialsFromRegistryJSON` gives them only to three type names, one of which (`generic_v2`) no
registry row can have.

### FindingGate

| Action | Code |
|---|---|
| `Start`, `PersistScanResults`, `publishScanEvent`, `Fail`, `LoseJob`, `Redeliver` | the worker, as far as others see it; a scan that is stored again gets findings with new ids |
| `EnrichScan`, `fetchEPSSBatched`, `loadKEVCatalog`, `Upsert`, `Enriched`, `EnricherStops`, `EnricherStarts` | `Enricher.EnrichScan` and its subscription, which nothing repeats |
| `FeedChanges`, `CacheExpires` | CISA's catalogue (external) and the day its body is cached, parsed or not |
| `CreateSuppression`, `UpdateSuppression`, `DeleteSuppression`, `DeleteImage` | users |
| `pollUntilDone`, `CountFindings`, `ListPage`, `ReadDetail`, `EvaluatePolicy`, `GateFails` | `vullify-cli scan` |

`ListFindingsForScan` and `GetFindingDetail` are the queries of the client, with the suppressions' condition. All findings
of a scan have one `created_at`, by which
pages are ordered, so that `Page` is any set of the right size.

## 3. Runs

| Run | Instance | What it shows |
|---|---|---|
| `pool` | 2 scans, 2 workers, 2 attempts, 1 failing call, 1 stop | one owner per job, finality of completed scans and of pull failures, agreement of row, phase key and event, no scan stranded by a single error, refinement of `ScanLifecycle` |
| `duplicates` | 1 scan, 2 workers, 1 failing call, 1 lost reply, 1 stop, fairness | with a job pushed twice: types, consistent rows, truthful events; every job ends and, without faults, every accepted scan settles |
| `picked_up` | 1 scan, 1 stop | violated: a stopped worker loses the job it popped, the row stays pending |
| `dispatch_duplicates` | 3 scans, target rescan and webhook, 2 attempts, 1 push, 1 upset | types; bound on concurrent automatic scans of an image |
| `dispatch_changes` | 3 scans (1 by a user), change detection, 2 attempts, 1 push, 1 upset | a stored digest means its content was or will be pulled |
| `dispatch_liveness` | change detection on 2 replicas, 2 ids of scans used again and again, 1 push, 1 upset, fairness | stored digests settle on the content; without a fault every image is scanned |
| `dispatch_push` | 3 scans (1 by a user), 1 webhook, 2 pushes, no upset, fairness | violated: a push that meets a busy image is marked processed, and what was pushed is not scanned |
| `dispatch_stale` | 2 scans, periodic rescan, 1 upset, fairness | violated: a row whose job could not be pushed blocks the image's rescans for ever |
| `listing_calls` | every connector type, 3 names on pages of 1, 2 changes, fairness | a returned list lacks no name that was there throughout and has none that never was; digests were served; a test that passes was granted by the door it asks; calls end |
| `inventory` | 2 references, 2 replicas, 2 clients, interval of 300 s, 10 scenes, fairness | bounds on duplicate rows and targets; what is stored was tested; no present image deleted; rows converge to the registry |
| `findings` | 2 scans of 2 images, 3 findings on pages of 2, 9 scenes, fairness | what the gate may miss; nothing suppressed is reported; enrichments that know the catalogue; scans get enriched, the client ends |
| `scanner` | 2 goroutines, 4 jobs of 3 registry types, 2 attempts, 1 failing run | whose credentials Trivy gets; every refusal and crash has its reason |

A scene says what comes together in one behaviour: which references, processes and kinds of
requests there are and how many changes, requests and faults. The initial state chooses one, so
that a run is the union of small instances, each made for one interaction (syncs that overlap, lists
that fail, inserts during a sync, rules during the gate, a scan that is enriched twice) instead of one
instance with everything, which would take TLC hours.

Upsets are failing calls, lost jobs, crashes and cancellations together.

Properties worth a word:

* `QuiescentTruth` says, among other things, that without faults a cancellation never lasts: the
  worker's UPDATE comes after it and does not look. The code does this; the model records it.
* `SingleErrorNeverStrands` holds for one failing call, wherever it is. A start
  and the marking of its failure, both failing in every attempt, strand a scan, and so does one stop.
* `ChangesAreScanned` has two premises, both needed. A failing call after the digest is stored loses
  the scan of the change (the digest already matches). A push while the image is busy may be stored
  as the digest although the running scan has already pulled the older content.
* `DuplicatesBounded` does not say that an image has one scan at a time: the busy check and the
  insert are separate statements, and it has as many as there are producers. A failed row of a
  job that will be tried again counts as idle, which adds one for each scan that was revived.
* `ListingComplete` names the two places where a list is not complete: numbered pages (Docker Hub and
  GitLab) when a name before the page is removed, and GHCR, which reads its first page only.
  `PresentImageKept` has the first of these in `kept`.
* `DuplicateRowsBounded` and `TargetsBounded` do not say that a tag has one row or an image one target:
  select and insert are separate statements and no index makes rows unique. What holds is that duplicates
  stay as few as the processes that insert at the same time; they do not add up over time.
* `OutlivesLock`: the lock lasts nine tenths of the interval and a run at least half an hour, at most
  two hours; so with the interval of one hour that `.env.example` sets, a run may outlive its lock. It
  cannot from 8000 s on. The `inventory` run uses an interval where it does, which allows every overlap.
* `StoredWasTested`: an update merges the fields it is given with a row that another update may replace before
  it writes. It writes all fields, and with them the pair of type and credentials it has tested; if it wrote
  only what the request names (the mutant `OnlyGiven`), two updates could leave a pair that nobody tested. The
  price is that the later one undoes the earlier one's change. The URL is stored untested, since `TestConnection` does not use it; the property is not about it.
* `TestedCredentialsAccepted` is about the door that a test asks. GCR's test passes on a 401 of the registry
  once Google has granted a token, Docker Hub's asks the Hub API and not `auth.docker.io`, and GHCR's is left
  out, since it passes on 401 and 403.
* `InventoryConverges` leaves out GHCR, whose catalog cannot be listed: its images are only those of webhooks
  and ad-hoc scans.
* `DigestConverges`: a replica may store a digest that it read before a push, over a newer one. The next run
  of the task repairs it, also after a failure: a failed LPUSH leaves a pending row, which the next run takes for a
  busy image, and stores the digest.
* `CredentialsStay` allows a job the variables of another that was scanned at the same time. That is what the
  race does; what does not happen is that credentials stay from an earlier job, because every scan
  assigns the field, with nothing too.
* `GateMissesNothing` is about findings that fit in one page, since pages are ordered by a value that
  all findings share. Its premise that an enrichment was known all along is needed: an event that is handled
  twice can overwrite "listed" with "not listed", when the catalogue cannot be had the second time.
* `GateEnds`: the client waits for completed or failed. A scan that is cancelled ends the wait too, because
  the worker overwrites the cancellation; "failed" between two attempts ends it with an error
  although the next attempt may succeed.

Bounds. Two workers and two scans give every pairwise race of the pipeline; a third adds no new
kind of step, and the theorems hold for any number. Two attempts make a first and a last attempt.
One fault of a kind at a time is what the properties' premises distinguish; the theorems hold for any
number. One image is enough in `ScanDispatch` because no action relates two images except a task's
list, and the theorem holds for any number. Two producers and three scans let the bound of
`DuplicatesBounded` be exceeded if the check did not work. `dispatch_liveness` uses the id of a scan that is over
again (`Forget` of `MCScanDispatch`), so that inserts never run out of ids: the busy check and the tasks
look at pending and running scans only. A periodic rescan is a target rescan without the first check; it fires in
`dispatch_stale`. In `listing_calls` a page of one name with three names gives a
first, a middle and a last page, and two changes hit one page before and one behind the reader. The theorems hold
for any number of names, any page size and any number of changes. Two
replicas and two clients give every pair of writers, and two references are two repositories or
two tags of one. A second scan of another image is enough to fill the subscription's buffer of one. Two
goroutines tear a slice; the theorems hold for any number of them, and of replicas, clients and scenes. Symmetry is used in runs without liveness only.
Deadlock is not checked because the models do stop when their scans and faults are used up.

Fairness. Weak fairness of each worker's calls: goroutines are scheduled and their calls return
(`ScanImage` has a timeout of ten minutes; a call on a lost connection fails). Weak fairness of
`Stopping`: a worker that saw SIGTERM unwinds, or, blocked in BRPOP, takes one more job or is killed
by the supervisor. Weak fairness of `Restart`: the supervisor. In `ScanDispatch`, weak fairness of each
producer's steps once it has begun, and of the start of each task on some replica: tickers start the tasks
again and again, and nothing is claimed of which of two replicas gets the lock. Weak fairness of the worker on
each scan in the list, and of the push that follows a user's insert. Clients, pushes, webhook deliveries, cancellations and faults
are never required. In `RegistryListing` the steps of a call in progress are fair: every request is
answered or fails, since the caller's context has a deadline. In `ImageInventory` the steps of each sync and request,
the expiry of the lock and the tickers (some replica runs the task, never a particular one). In
`FindingGate` the worker of each scan, the enricher with its restart, and the client. With weak fairness a fault step cannot be forced while the call can also succeed.

## 4. Proofs

The assumptions are those of the modules (`ConstantsOK`, `GateAssumption`, `InventoryAssumption`,
`ScannerAssumption`): sets of any size (finite where they are counted: producers, scans, clients, findings),
`NoScan` and `NoImage` outside them, attempts and pages positive, bounds natural.

* `TypeCorrect` needs `JobShape`: a worker holds a scan exactly while a job is processed, and an
  error exactly in the tail of a failed attempt. Without it a step could write the error "none" or
  attempt past `MaxRetries`.
* `RowsConsistent`, `EventsTruthful` (any number of faults): `RowInv` adds that the row follows the
  call its worker is about to make, and that jobs belong to requests. It must hold of every worker on
  a scan, since a repeated push gives two.
* `SingleOwnership`, `PhaseTruthful`, `CompletedFinal`, `PullFailureFinal` (unless a reply was lost):
  `ReliableInv` says that a scan has one job (`OneJob`), that row and phase fit the call
  its holder makes (`Fits`), and how it looks when the job is gone (`Outcome`). The UPDATEs have no
  condition, so that completed scans are final only because no second holder exists.
* `OneErrorNeverStrands` and `QuiescentAgreement` rest on `CalmInv`, a third layer over `RowInv` and `ReliableInv`
  that holds the history of faults against the state. With at most one failing call, no stop and no lost
  reply (`SparedInv`): a job whose start failed has used up that error, and any other failed attempt has a
  row that left "pending"; so the one attempt that fails at its start can still mark its failure. A second
  failing call would take that away, which is why the property has the premise it has. Without faults
  (`ToldInv`): before a worker tells of an outcome, row and phase key have it, so that they agree
  when the job is gone (`Settled`). That a job is gone only by the last step of its holder (`GoneByHolder`)
  and that faults never become fewer (`FaultsGrow`) do the rest.
* `PipelineImplementsLifecycle` (`MaxLostReplies = 0`): each step is a step of `ScanLifecycle` or
  changes neither status nor stage. With lost replies it does not hold: a job is delivered twice.
* `DispatchTypeCorrect` needs that a scan that exists names an image, that its job is sent after its
  row exists, and that a producer that handles an image knows which.
* `DuplicatesAreBounded` is inductive with these: passing the check empties the set of active scans of
  the image, an insert moves a producer from one counted set to the other, a revival adds one to both
  sides, and no other step adds to either set.
* `StoredDigestsAreScanned` rests on `ChangesInv`: versions only grow (`VersionsPast`), so that a stored digest
  that is not the present one never becomes it again; a producer that is about to push has a scan of its
  own image (`PushesOwnScan`); without faults or a push that met a busy image, a scan that the busy check
  counts has pulled the present content or still will (`BusyScanReads`); and what change detection is about to store is already
  covered by a scan (`RecordedAreCovered`), so that storing it keeps `StoredAreCovered`, which is
  the property. A scan that covers a content does so until the next push (`StaysCovered`).
* `ListsAreComplete` rests on the rank of a name: how many names of the list come before it. Ranks
  have no gaps (`RankIsTaken`), so that behind an empty page there is nothing (`EmptyPageIsLast`) nor behind one that is not
  full (`ShortPageIsLast`: the names between ranks k and k + `PageSize` would fill it). With these each step
  of each connector is reduced to `Reads`: the page has every name from where it begins to where the next one does. The
  invariant (`CallInv`) is then that of the names that stayed none was missed before that place: by name
  (`LinksSkipNothing`), where nothing that happens behind the reader matters, or by rank
  (`NumbersSkipNothing`), where it does, because a removal makes ranks smaller; a push makes them greater (`RankGrows`).
* `DigestsAreServed` needs that the ghosts see every change of the list in question (`Watching`), `TestsAreTrue` that the
  cache of a connector that is tested was empty, so that the token it shows was granted during the test, and by whom (`Granted`).
  `ListingTypes` needs that no search goes past the last page (`PageBeginsEarly`, `CallShape`).

* `CredentialsStayCorrect` rests on `EnvInv`: what a goroutine has stored is still in the field, word by word, as
  its own or as that of a job it met (`WordsMixed`), until it has loaded it; loads come after stores
  (`StoredFirst`). Meeting is symmetric (`MetBothWays`), which `FailureExplainedCorrect` needs for a panic: the length is of
  a job with credentials and the array of one without, and one of the two is the goroutine's own.
* `PresentImageKeptCorrect` rests on `Keeps`: what a run may not lack has been served since it began, its repository is
  among those listed, and its tag among those of the repository in hand. A failed list leaves the repository
  alone; without that (the mutant `EmptyTags`) `Keeps` is not preserved.
* `DuplicateRowsCorrect` and `TargetsCorrect`: whoever passes the check found no row, so that the number of
  those between check and insert is bounded by that of all; an insert moves one from the one summand to the
  other; deletions only help. `Stays` says that nobody else comes to insert.
* `LockOutlived` is arithmetic over all intervals.
* `GateMissesNothingCorrect` and `GateIgnoresSuppressedCorrect` rest on `GateInv`: what was shown all along is
  what the query answers now, at least (`ListFindingsForScan`), what was hidden is suppressed now, and what
  was known to be listed still is. If all fits in one page, the count of the first read is at most the size
  of a page and the page is the whole answer (`PageIsAll`: a subset of a finite set that has as many elements
  is that set), so that the client goes on to the details with everything that was shown; of these, each that
  is known to be listed is in `todo` or already in `read`. Storing again empties what was shown and keeps the
  other scans' enrichments (`OtherFindings`), an upsert that knows less takes from what was known.
* `ListedIsFlaggedCorrect` rests on `KevInv` and `EnrInv`: feed and cache are malformed only if `tainted` says
  so, and a run that is still sound when it has loaded the catalogue has exactly `Exploited`.
* `StoredWasTestedCorrect`: a run that is about to write the registry holds a pair that passed its test (`RegInv`);
  what others write between its read and its write does not touch it.

Every safety invariant and action property of the passing runs is a theorem. Only model-checked are the
liveness properties (`JobsEnd` of `ScanPipeline`, `AcceptedScansSettle`, `DigestConverges`, `EveryImageIsScanned`, `CallsEnd`,
`InventoryConverges`, `EnrichedInTheEnd`, `GateEnds`): fairness and ENABLED are out of the prover's reach. The models use no recursive
operators. Statements about what a recursive definition computes for all inputs, which later modules
may need, cannot be proved with the installed provers either (induction over data).

## 5. Plan

Done, in this order: `ScanPipeline` with `ScanLifecycle`, `ScanDispatch`, `RegistryListing`, `ImageInventory`
with `SchedulerLock`, `FindingGate` (enricher, suppressions, client) and `TrivyScanner`, with the
runs and theorems above. What is left, in order of importance:

1. A refinement: the worker of `FindingGate` as an implementation of `ScanLifecycle` with versions, so that the two
   abstractions of the worker are one; and `ScanDispatch` against `ScanLifecycle` step by step.
2. What the modules assume of each other, as theorems: `must` and `may` of `ImageInventory` from `ListsAreComplete`.
3. Pure algorithms against reference definitions: the risk score, pagination of the API, `RegistryTokens`,
   target frequencies.

## 6. Not modelled, and why

Parsing of requests, payloads, image references and reports, signatures, SARIF and printing are formatting or
cryptography. Read-only queries other than those of the findings of a scan (dashboard, report,
CVE lists and details, packages, misconfigurations, secrets, counts, filters, sort orders) change no state and are read by nothing that does. The risk score is a
formula of what `FindingGate` stores. The EPSS and unfixed gates of the client are comparisons like the severity and KEV gates.
`targets.frequency` is written by one statement and compared in one. `storage/` is not wired
into any process. `UpdateScanCompleted` has no caller. `cmd/dbupdater` runs a download on a
timer. The Redis list is assumed to survive; the loss of Redis's data would look like the loss of every
waiting job, which `LoseJob` allows one at a time.
