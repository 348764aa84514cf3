--------------------------- MODULE ImageInventory ---------------------------
(***************************************************************************)
(* The images of one registry as the database has them.  The scheduled     *)
(* sync of each API replica, syncs on request, webhooks and ad-hoc scans   *)
(* insert rows; syncs and users delete them; and all of them read a        *)
(* registry and a registry row that change meanwhile.  Rows are soft       *)
(* deleted and no index makes them unique, so that of each reference only  *)
(* the number of its live rows is kept, and one row, watched, by itself:   *)
(* the image of which clients create targets.                              *)
(*                                                                         *)
(* Sources: internal/scheduler/tasks.go and run.go, internal/db/           *)
(* registries_store.go, scheduler_store.go and targets_store.go, internal/ *)
(* api/server.go, handlers_adhoc.go and handlers_targets.go, internal/     *)
(* webhook/handler.go.  What a list may hold is taken from RegistryListing.*)
(***************************************************************************)
EXTENDS SchedulerLock, FiniteSets

CONSTANTS
    Repos, Tags,
    Replicas,     \* API processes, each with the ticker of registry_sync
    Clients,      \* requests and webhooks served at a time
    Interval,     \* SCHEDULER_REGISTRY_SYNC_INTERVAL in seconds
    Types, Credentials, URLs,    \* values of the fields of a registry row
    Working,      \* the types and credentials that pass TestConnection
    Scenes        \* bounds: what comes together in a behaviour

Refs == Repos \X Tags
Procs == Replicas \cup Clients

Fields == {"type", "credentials", "url"}
Row == [type : Types, credentials : Credentials, url : URLs]

\* The references there are, the registry rows that there may be at first and
\* that requests draw from, the replicas whose scheduler runs, the kinds of
\* requests that come, and the number of pushes and deletions, of requests and
\* webhooks, and of calls that fail, runs cut off and crashes.
Scene == [refs : SUBSET Refs, confs : SUBSET Row, replicas : SUBSET Replicas,
          kinds : SUBSET {"sync", "upsert", "image", "registry", "edit", "target"},
          changes : Nat, requests : Nat, faults : Nat]

ASSUME InventoryAssumption ==
    /\ IsFiniteSet(Replicas) /\ IsFiniteSet(Clients)
    /\ Replicas \cap Clients = {}
    /\ Interval \in Nat \ {0} /\ Working \subseteq Types \X Credentials
    /\ Scenes \subseteq Scene

VARIABLES
    served,    \* the registry: its references
    reg,       \* the registry row: absent, live or deleted, and its fields
    rows,      \* live rows of images, by reference
    watched,   \* a row: its reference, whether it is live, its live targets
    lock,      \* whether the Redis key of the task's lock exists
    run,       \* what each process is doing
    scene,
    changes, requests, faults

vars == <<served, reg, rows, watched, lock, run, scene,
          changes, requests, faults>>

RepoOf(ref) == ref[1]
Of(repo) == {ref \in Refs : RepoOf(ref) = repo}
None == <<>>

\* listed, left: repositories listed, and those still to do; tags, todo: the
\* references of one, and those still to upsert; ref: the one in hand; conf:
\* the registry row that a sync has read or that a request is to write; given:
\* the fields that the request names.  What the registry did since: kept, the
\* references that no list of the run may lack; must and may, those that the
\* list in progress has to hold and those that it can hold.
Idle == [pc |-> "idle", job |-> "none", listed |-> {}, left |-> {}, repo |-> None,
         tags |-> {}, todo |-> {}, ref |-> None, conf |-> None, given |-> {},
         kept |-> {}, must |-> {}, may |-> {}]

\* TestConnection goes by the type and the credentials; no connector is given
\* the URL of the row.
Tested(conf) == <<conf.type, conf.credentials>> \in Working

Init ==
    /\ scene \in Scenes
    /\ served \in SUBSET scene.refs
    /\ \/ reg = [state |-> "absent", conf |-> None]
       \/ \E conf \in scene.confs :
              Tested(conf) /\ reg = [state |-> "live", conf |-> conf]
    /\ rows = [ref \in Refs |-> 0]
    /\ watched = [ref |-> None, live |-> FALSE, targets |-> 0]
    /\ lock = FALSE
    /\ run = [p \in Procs |-> Idle]
    /\ changes = 0 /\ requests = 0 /\ faults = 0

At(p, pc) == run[p].pc = pc
Go(p, r) == run' = [run EXCEPT ![p] = r]
Done(p) == Go(p, Idle)
RegistryLive == reg.state = "live"

\* UPDATE images SET deleted_at = now() for all rows of some references.
DeleteRows(refs) ==
    /\ rows' = [ref \in Refs |-> IF ref \in refs THEN 0 ELSE rows[ref]]
    /\ watched' = [watched EXCEPT !.live = @ /\ watched.ref \notin refs]

KeepRows == UNCHANGED <<rows, watched>>
ProcStep == UNCHANGED <<served, reg, lock, scene, changes, requests, faults>>

-----------------------------------------------------------------------------
(* The registry: what it does is what the lists in progress may show. *)

Listing(p) == run[p].pc \in {"repos", "tags"}

Push(ref) ==
    /\ changes < scene.changes /\ ref \in scene.refs \ served
    /\ served' = served \cup {ref} /\ changes' = changes + 1
    /\ run' = [p \in Procs |-> IF Listing(p)
                               THEN [run[p] EXCEPT !.may = @ \cup {ref}] ELSE run[p]]
    /\ UNCHANGED <<reg, rows, watched, lock, scene, requests, faults>>

\* Docker Hub and GitLab number their pages, and may then skip anything.
Numbered(conf) == conf # None /\ conf.type \in {"dockerhub", "gitlab"}

Without(refs, ref, conf) == IF Numbered(conf) THEN {} ELSE refs \ {ref}

Remove(ref) ==
    /\ changes < scene.changes /\ ref \in served
    /\ served' = served \ {ref} /\ changes' = changes + 1
    /\ run' = [p \in Procs |-> [run[p] EXCEPT !.kept = Without(@, ref, run[p].conf),
                                              !.must = Without(@, ref, run[p].conf)]]
    /\ UNCHANGED <<reg, rows, watched, lock, scene, requests, faults>>

-----------------------------------------------------------------------------
(* Sync *)

StartSync(p, job) ==
    Go(p, [Idle EXCEPT !.pc = "repos", !.job = job, !.conf = reg.conf,
                       !.kept = served, !.must = served, !.may = served])

\* runTicker: whoever finds no lock sets it and runs the task.  Without a live
\* registry the run has nothing to do.
RunJob(p) ==
    /\ p \in scene.replicas /\ At(p, "idle") /\ ~ lock
    /\ lock' = TRUE
    /\ IF RegistryLive THEN StartSync(p, "task") ELSE UNCHANGED run
    /\ KeepRows /\ UNCHANGED <<served, reg, scene, changes, requests, faults>>

\* The lock is never released.  It expires after the run, unless the
\* interval lets runs outlive it.
LockExpires ==
    /\ lock /\ (OutlivesLock(Interval) \/ \A p \in Replicas : At(p, "idle"))
    /\ lock' = FALSE
    /\ KeepRows /\ UNCHANGED <<served, reg, run, scene, changes, requests, faults>>

\* GHCR's ListRepositories returns an error, always: the task goes on to the
\* next registry and a request is refused.
NoCatalog(p) ==
    /\ At(p, "repos") /\ run[p].conf.type = "ghcr"
    /\ Done(p) /\ KeepRows /\ ProcStep

ListRepositories(p) ==
    /\ At(p, "repos") /\ run[p].conf.type # "ghcr"
    /\ \E repos \in SUBSET {RepoOf(ref) : ref \in run[p].may} :
           /\ {RepoOf(ref) : ref \in run[p].must} \subseteq repos
           /\ Go(p, [run[p] EXCEPT !.pc = "loop", !.listed = repos, !.left = repos,
                                   !.must = {}, !.may = {}])
    /\ KeepRows /\ ProcStep

NextRepository(p) ==
    /\ At(p, "loop")
    /\ \E repo \in run[p].left :
           Go(p, [run[p] EXCEPT !.pc = "tags", !.left = @ \ {repo}, !.repo = repo,
                                !.must = served \cap Of(repo), !.may = served])
    /\ KeepRows /\ ProcStep

ListTags(p) ==
    /\ At(p, "tags")
    /\ \E refs \in SUBSET (run[p].may \cap Of(run[p].repo)) :
           /\ run[p].must \subseteq refs
           /\ Go(p, [run[p] EXCEPT !.pc = "upsert", !.tags = refs, !.todo = refs,
                                   !.must = {}, !.may = {}])
    /\ KeepRows /\ ProcStep

\* Mutated form of NoLiveRow: a row is inserted whatever there is.
AlwaysInserts(ref) == ref \in Refs

NoLiveRow(ref) == rows[ref] = 0

\* The first statement of UpsertImage; an existing row only gets a new
\* last_seen_at.
SelectImage(p) ==
    /\ At(p, "upsert")
    /\ \E ref \in run[p].todo :
           Go(p, IF NoLiveRow(ref)
                 THEN [run[p] EXCEPT !.pc = "insert", !.todo = @ \ {ref}, !.ref = ref]
                 ELSE [run[p] EXCEPT !.todo = @ \ {ref}])
    /\ KeepRows /\ ProcStep

InsertImage(p) ==
    /\ At(p, "insert")
    /\ rows' = [rows EXCEPT ![run[p].ref] = @ + 1]
    /\ Go(p, [run[p] EXCEPT !.pc = "upsert", !.ref = None])
    /\ UNCHANGED watched /\ ProcStep

Upserted(p) == At(p, "upsert") /\ run[p].todo = {}

NextLoop(p) == [run[p] EXCEPT !.pc = "loop", !.repo = None, !.tags = {}]

StaleTags(p) == Of(run[p].repo) \ run[p].tags

SoftDeleteImageTagsNotIn(p) ==
    /\ Upserted(p) /\ run[p].job = "task"
    /\ DeleteRows(StaleTags(p))
    /\ Go(p, NextLoop(p)) /\ ProcStep

\* A sync on request deletes nothing.
KeepTags(p) ==
    /\ Upserted(p) /\ run[p].job = "request"
    /\ Go(p, NextLoop(p)) /\ KeepRows /\ ProcStep

\* Mutated form of Trusted: nor does a list of one.
TrustedIfSeveral(p) == Cardinality(run[p].listed) > 1

\* An empty list of repositories deletes nothing.
Trusted(p) == run[p].listed # {}

SoftDeleteImagesForRepositoriesNotIn(p) ==
    /\ At(p, "loop") /\ run[p].left = {}
    /\ IF run[p].job = "task" /\ Trusted(p)
       THEN DeleteRows({ref \in Refs : RepoOf(ref) \notin run[p].listed})
       ELSE KeepRows
    /\ Done(p) /\ ProcStep

-----------------------------------------------------------------------------
(* Requests *)

Request(p, kind) ==
    /\ kind \in scene.kinds /\ p \in Clients /\ At(p, "idle")
    /\ requests < scene.requests /\ requests' = requests + 1
    /\ UNCHANGED <<served, lock, scene, changes, faults>>

SyncRegistry(p) ==
    /\ Request(p, "sync") /\ RegistryLive
    /\ StartSync(p, "request")
    /\ KeepRows /\ UNCHANGED reg

\* A webhook, however late, or an ad-hoc scan of a reference that has no image
\* has read the registry row and upserts.
UpsertOne(p, ref) ==
    /\ Request(p, "upsert") /\ RegistryLive
    /\ Go(p, [Idle EXCEPT !.pc = "upsert", !.job = "one", !.todo = {ref}])
    /\ KeepRows /\ UNCHANGED reg

ProcessAsync(p) == \E ref \in scene.refs : UpsertOne(p, ref)
CreateAdhocScan(p) == \E ref \in scene.refs : rows[ref] = 0 /\ UpsertOne(p, ref)

\* The image is there; what remains is the scan.
UpsertedOne(p) ==
    /\ Upserted(p) /\ run[p].job = "one"
    /\ Done(p) /\ KeepRows /\ ProcStep

\* Mutated form of HasRow: a deleted row is deleted again.
HadRow(ref) == ref \in Refs

HasRow(ref) == rows[ref] > 0

\* One of the rows of a reference, the watched one or another.
DeleteImage(p) ==
    /\ Request(p, "image")
    /\ \E ref \in Refs :
           /\ HasRow(ref) /\ rows' = [rows EXCEPT ![ref] = @ - 1]
           /\ \/ watched' = [watched EXCEPT !.live = @ /\ watched.ref # ref]
              \/ rows[ref] > 1 /\ UNCHANGED watched
    /\ UNCHANGED <<reg, run>>

DeleteRegistry(p) ==
    /\ Request(p, "registry") /\ RegistryLive
    /\ reg' = [reg EXCEPT !.state = "deleted"]
    /\ DeleteRows(Refs)
    /\ UNCHANGED run

\* A request to create a registry that passes the test.
TestNew(p) ==
    /\ Request(p, "edit") /\ reg.state = "absent"
    /\ \E conf \in scene.confs :
           /\ Tested(conf)
           /\ Go(p, [Idle EXCEPT !.pc = "create", !.conf = conf])
    /\ KeepRows /\ UNCHANGED reg

\* If a row exists by now, another registry is created.
CreateRegistry(p) ==
    /\ At(p, "create")
    /\ reg' = IF reg.state = "absent" THEN [state |-> "live", conf |-> run[p].conf]
                                      ELSE reg
    /\ Done(p) /\ KeepRows
    /\ UNCHANGED <<served, lock, scene, changes, requests, faults>>

\* The fields of conf that a request names are its own, the others those of
\* the row that it has read.
Merges(conf, given) == \A f \in Fields \ given : conf[f] = reg.conf[f]

\* A request to update the registry reads the row, merges and tests.
TestMerged(p) ==
    /\ Request(p, "edit") /\ RegistryLive
    /\ \E conf \in scene.confs, given \in SUBSET Fields :
           /\ Merges(conf, given) /\ Tested(conf)
           /\ Go(p, [Idle EXCEPT !.pc = "update", !.conf = conf, !.given = given])
    /\ KeepRows /\ UNCHANGED reg

\* Mutated form of Written: only the fields that the request names.
OnlyGiven(p) ==
    [f \in Fields |-> IF f \in run[p].given THEN run[p].conf[f] ELSE reg.conf[f]]

\* All fields, those of another update since the row was read included.
Written(p) == run[p].conf

UpdateRegistry(p) ==
    /\ At(p, "update")
    /\ reg' = IF RegistryLive THEN [reg EXCEPT !.conf = Written(p)] ELSE reg
    /\ Done(p) /\ KeepRows
    /\ UNCHANGED <<served, lock, scene, changes, requests, faults>>

-----------------------------------------------------------------------------
(* Targets of the watched image *)

ImageIsActive(p) ==
    /\ Request(p, "target") /\ RegistryLive
    /\ \/ watched.live /\ UNCHANGED watched
       \/ \E ref \in Refs :
              /\ rows[ref] > 0 /\ watched.ref = None
              /\ watched' = [ref |-> ref, live |-> TRUE, targets |-> 0]
    /\ Go(p, [Idle EXCEPT !.pc = "exists"])
    /\ UNCHANGED <<reg, rows>>

\* Mutated form of Monitored: 409 from the second target on only.
MonitoredTwice == watched.targets > 1

Monitored == watched.targets > 0

TargetExists(p) ==
    /\ At(p, "exists")
    /\ Go(p, IF Monitored THEN Idle ELSE [run[p] EXCEPT !.pc = "target"])
    /\ KeepRows /\ ProcStep

CreateTarget(p) ==
    /\ At(p, "target")
    /\ watched' = [watched EXCEPT !.targets = @ + 1]
    /\ Done(p) /\ UNCHANGED rows /\ ProcStep

SoftDeleteTarget(p) ==
    /\ Request(p, "target") /\ watched.targets > 0
    /\ watched' = [watched EXCEPT !.targets = @ - 1]
    /\ UNCHANGED <<reg, rows, run>>

-----------------------------------------------------------------------------
(* Failures *)

\* Mutated form of NoTags: the repository is taken to have no tags.
EmptyTags(p) == [run[p] EXCEPT !.pc = "upsert", !.must = {}, !.may = {}]

\* The repository is left as it is.
NoTags(p) == [NextLoop(p) EXCEPT !.must = {}, !.may = {}]

\* A call of a run fails.  A sync goes on to the next tag or repository; all
\* else ends, and so does a run whose time is up or whose process stops.
CallFails(p) ==
    /\ faults < scene.faults /\ faults' = faults + 1
    /\ ~ At(p, "idle")
    /\ \/ Done(p)
       \/ At(p, "tags") /\ Go(p, NoTags(p))
       \/ /\ run[p].job # "one"
          /\ \/ At(p, "insert") /\ Go(p, [run[p] EXCEPT !.pc = "upsert", !.ref = None])
             \/ At(p, "upsert") /\ \E ref \in run[p].todo :
                                       Go(p, [run[p] EXCEPT !.todo = @ \ {ref}])
             \/ Upserted(p) /\ Go(p, NextLoop(p))
    /\ KeepRows /\ UNCHANGED <<served, reg, lock, scene, changes, requests>>

-----------------------------------------------------------------------------

SyncStep(p) ==
    \/ NoCatalog(p) \/ ListRepositories(p) \/ NextRepository(p) \/ ListTags(p)
    \/ SelectImage(p) \/ InsertImage(p) \/ SoftDeleteImageTagsNotIn(p)
    \/ KeepTags(p) \/ SoftDeleteImagesForRepositoriesNotIn(p)

RequestStep(p) ==
    \/ UpsertedOne(p) \/ CreateRegistry(p) \/ UpdateRegistry(p)
    \/ TargetExists(p) \/ CreateTarget(p)

NewRequest(p) ==
    \/ SyncRegistry(p) \/ ProcessAsync(p) \/ CreateAdhocScan(p) \/ DeleteImage(p)
    \/ DeleteRegistry(p) \/ TestNew(p) \/ TestMerged(p) \/ ImageIsActive(p)
    \/ SoftDeleteTarget(p)

Next ==
    \/ \E ref \in Refs : Push(ref) \/ Remove(ref)
    \/ \E p \in Procs : RunJob(p) \/ SyncStep(p) \/ RequestStep(p) \/ NewRequest(p)
                          \/ CallFails(p)
    \/ LockExpires

\* Calls end, tickers tick and keys of Redis expire.
Spec ==
    /\ Init /\ [][Next]_vars
    /\ \A p \in Procs : WF_vars(SyncStep(p) \/ RequestStep(p))
    /\ WF_vars(LockExpires) /\ WF_vars(\E p \in Replicas : RunJob(p))

-----------------------------------------------------------------------------
(* Properties *)

Pcs == {"idle", "repos", "loop", "tags", "upsert", "insert", "create", "update",
        "exists", "target"}

Run == [pc : Pcs, job : {"none", "task", "request", "one"},
        listed : SUBSET Repos, left : SUBSET Repos, repo : Repos \cup {None},
        tags : SUBSET Refs, todo : SUBSET Refs, ref : Refs \cup {None},
        conf : Row \cup {None}, given : SUBSET Fields,
        kept : SUBSET Refs, must : SUBSET Refs, may : SUBSET Refs]

\* The state is well formed: a run that is to insert or write knows what, and
\* one that is to list knows the type.
TypeOK ==
    /\ served \subseteq Refs /\ lock \in BOOLEAN
    /\ reg.state \in {"absent", "live", "deleted"}
    /\ rows \in [Refs -> Nat]
    /\ watched \in [ref : Refs \cup {None}, live : BOOLEAN, targets : Nat]
    /\ run \in [Procs -> Run] /\ scene \in Scenes
    /\ \A p \in Procs : /\ At(p, "insert") => run[p].ref \in Refs
                        /\ run[p].pc \in {"repos", "create", "update"} => run[p].conf \in Row
    /\ changes \in 0..scene.changes /\ requests \in 0..scene.requests
    /\ faults \in 0..scene.faults

Workers == scene.replicas \cup Clients
Inserters(ref) == {p \in Procs : At(p, "insert") /\ run[p].ref = ref}

\* UpsertImage selects and inserts in two statements and nothing makes rows
\* unique; yet however often syncs, webhooks, ad-hoc scans and deletions
\* interleave, no reference has more live rows than processes that insert.
DuplicateRowsBounded ==
    \A ref \in Refs : rows[ref] + Cardinality(Inserters(ref)) <= Cardinality(Workers)

Creators == {p \in Clients : At(p, "target")}

\* createTarget checks and inserts in two statements: an image has no more
\* live targets than there are requests at a time, also if it is deleted between.
TargetsBounded == watched.targets + Cardinality(Creators) <= Cardinality(Clients)

\* The type and the credentials of the stored row have passed the connection
\* test together, though a request names only some fields, takes the others from
\* a row that may be another one when it writes, and overlaps other updates.
\* It costs an update: one that overlaps another takes back what it did.
StoredWasTested == RegistryLive => Tested(reg.conf)

\* The scheduled sync deletes no image whose tag the registry has served since
\* the sync began, whatever lists fail, whoever else inserts the image and
\* however many syncs overlap.  Numbered pages may skip a tag, and its image is
\* then deleted, if another was removed.
PresentImageKept ==
    [][\A ref \in Refs :
           rows'[ref] < rows[ref] /\ requests' = requests =>
               \E p \in Replicas : run'[p] # run[p] /\ ref \notin run[p].kept]_vars

\* Where a scheduler runs, the images come to be those of the registry, except
\* if it has no repository left, which is taken for a mistake, and with GHCR,
\* whose repositories cannot be listed.
InventoryConverges ==
    scene.replicas # {} =>
        <>[](RegistryLive /\ reg.conf.type # "ghcr" /\ served # {} =>
                 \A ref \in Refs : rows[ref] > 0 <=> ref \in served)

=============================================================================
