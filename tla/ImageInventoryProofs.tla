------------------------ MODULE ImageInventoryProofs ------------------------
(* Theorems about ImageInventory, for any number of repositories, tags,     *)
(* replicas and clients, any interval and any scenes.                       *)
EXTENDS ImageInventory, FiniteSetTheorems, TLAPS

-----------------------------------------------------------------------------
(* What holds of what the process p does, its record r: the record is well  *)
(* formed, and no list it read lacks what it must not lack.                 *)

WellFormed(p, r) ==
    /\ r \in Run
    /\ r.pc = "insert" => r.ref \in Refs
    /\ r.pc \in {"repos", "create", "update"} => r.conf \in Row
    /\ r.pc \in {"create", "update"} => Tested(r.conf)
    /\ r.pc # "idle" => p \in Workers
    /\ r.pc \in {"create", "update", "exists", "target"} => p \in Clients
    /\ r.job = "task" => p \in Replicas

Keeps(r) ==
    /\ r.kept \subseteq served
    /\ r.pc = "repos" => r.kept \subseteq r.must
    /\ r.pc \in {"loop", "tags", "upsert", "insert"} =>
           \A ref \in r.kept : RepoOf(ref) \in r.listed
    /\ r.pc = "tags" => r.kept \cap Of(r.repo) \subseteq r.must
    /\ r.pc \in {"upsert", "insert"} => r.kept \cap Of(r.repo) \subseteq r.tags

RunInv ==
    /\ run \in [Procs -> Run]
    /\ \A p \in Procs : WellFormed(p, run[p]) /\ Keeps(run[p])

Rows == [state : {"absent", "live", "deleted"}, conf : Row \cup {None}]

RegInv ==
    /\ served \subseteq Refs /\ lock \in BOOLEAN
    /\ reg \in Rows /\ (RegistryLive => reg.conf \in Row)
    /\ StoredWasTested

RowsInv ==
    /\ rows \in [Refs -> Nat]
    /\ watched \in [ref : Refs \cup {None}, live : BOOLEAN, targets : Nat]

CountInv ==
    /\ scene \in Scenes
    /\ changes \in 0..scene.changes /\ requests \in 0..scene.requests
    /\ faults \in 0..scene.faults

RestInv == RegInv /\ RowsInv /\ CountInv

Inv == RunInv /\ RestInv

LEMMA SceneFacts ==
    ASSUME NEW s \in Scenes
    PROVE  /\ s.refs \subseteq Refs /\ s.replicas \subseteq Replicas /\ s.confs \subseteq Row
           /\ s.changes \in Nat /\ s.requests \in Nat /\ s.faults \in Nat
BY InventoryAssumption DEF Scene

LEMMA IdleFacts ==
    /\ Idle \in Run /\ Idle.pc = "idle" /\ Idle.job = "none" /\ Idle.kept = {}
    /\ \A p : WellFormed(p, Idle)
    /\ Keeps(Idle)
<1>1. Idle \in Run /\ Idle.pc = "idle" /\ Idle.job = "none" /\ Idle.kept = {}
  BY DEF Idle, Run, Pcs
<1>2. QED
  BY <1>1 DEF WellFormed, Keeps

LEMMA InvTypeOK == Inv => TypeOK
BY DEF Inv, RunInv, RestInv, RegInv, RowsInv, CountInv, TypeOK, WellFormed, At, Rows

(* One process goes on with another record; the registry is as it was.      *)
LEMMA GoInv ==
    ASSUME RunInv, NEW p \in Procs, NEW r, Go(p, r), WellFormed(p, r), Keeps(r),
           UNCHANGED served, UNCHANGED scene
    PROVE  RunInv'
<1>1. r \in Run
  BY DEF WellFormed
<1>2. /\ run' \in [Procs -> Run]
      /\ run'[p] = r
      /\ \A q \in Procs \ {p} : run'[q] = run[q]
  BY <1>1 DEF RunInv, Go
<1>3. ASSUME NEW q \in Procs PROVE (WellFormed(q, run[q]) /\ Keeps(run[q]))'
  <2>1. WellFormed(q, run'[q]) /\ Keeps(run'[q])
    <3>1. CASE q = p
      BY <1>2, <3>1
    <3>2. CASE q # p
      BY <1>2, <3>2 DEF RunInv
    <3>3. QED
      BY <3>1, <3>2
  <2>2. QED
    BY <2>1 DEF WellFormed, Keeps, Workers
<1>4. QED
  BY <1>2, <1>3 DEF RunInv

LEMMA InitInv == Init => Inv
<1> SUFFICES ASSUME Init PROVE Inv
  OBVIOUS
<1>1. \A p \in Procs : run[p] = Idle
  BY DEF Init
<1>2. RunInv
  BY <1>1, IdleFacts DEF Init, RunInv
<1>3. reg \in Rows /\ (RegistryLive => reg.conf \in Row) /\ StoredWasTested
  <2>1. CASE reg = [state |-> "absent", conf |-> None]
    BY <2>1 DEF Rows, StoredWasTested, RegistryLive
  <2>2. CASE \E conf \in scene.confs :
                 Tested(conf) /\ reg = [state |-> "live", conf |-> conf]
    <3>1. scene.confs \subseteq Row
      BY SceneFacts DEF Init
    <3>2. PICK conf \in Row : Tested(conf) /\ reg = [state |-> "live", conf |-> conf]
      BY <2>2, <3>1
    <3>3. QED
      BY <3>2 DEF Rows, StoredWasTested, RegistryLive
  <2>3. QED
    BY <2>1, <2>2 DEF Init
<1>4. scene \in Scenes /\ served \subseteq Refs
  BY SceneFacts DEF Init
<1>5. rows \in [Refs -> Nat]
  BY DEF Init
<1>6. watched \in [ref : Refs \cup {None}, live : BOOLEAN, targets : Nat]
  BY DEF Init
<1>7. /\ changes \in 0..scene.changes /\ requests \in 0..scene.requests
      /\ faults \in 0..scene.faults
  BY <1>4, SceneFacts DEF Init
<1>8. lock \in BOOLEAN
  BY DEF Init
<1>9. QED
  BY <1>2, <1>3, <1>4, <1>5, <1>6, <1>7, <1>8 DEF Inv, RestInv, RegInv, RowsInv, CountInv

(* What is known of the record of a process that does something. *)
LEMMA RecordFacts ==
    ASSUME RunInv, NEW p \in Procs
    PROVE  run[p] \in Run /\ WellFormed(p, run[p]) /\ Keeps(run[p])
BY DEF RunInv

-----------------------------------------------------------------------------
(* The registry changes: what a run may not lack is still what it has seen. *)

LEMMA PushRun ==
    ASSUME RunInv, RestInv, NEW ref \in Refs, Push(ref) PROVE RunInv'
<1>1. served' = served \cup {ref} /\ scene' = scene
  BY DEF Push
<1>2. ASSUME NEW p \in Procs
      PROVE  run'[p] \in Run /\ WellFormed(p, run[p])' /\ Keeps(run[p])'
  <2>1. run[p] \in Run /\ WellFormed(p, run[p]) /\ Keeps(run[p])
    BY RecordFacts
  <2>2. \/ run'[p] = run[p]
        \/ run'[p] = [run[p] EXCEPT !.may = @ \cup {ref}]
    BY DEF Push
  <2>3. CASE run'[p] = run[p]
    BY <1>1, <2>1, <2>3 DEF WellFormed, Keeps, Workers
  <2>4. CASE run'[p] = [run[p] EXCEPT !.may = @ \cup {ref}]
    <3>1. /\ run'[p] \in Run /\ run'[p].pc = run[p].pc /\ run'[p].job = run[p].job
          /\ run'[p].ref = run[p].ref /\ run'[p].conf = run[p].conf
          /\ run'[p].kept = run[p].kept /\ run'[p].must = run[p].must
          /\ run'[p].listed = run[p].listed /\ run'[p].repo = run[p].repo
          /\ run'[p].tags = run[p].tags
      BY <2>1, <2>4 DEF Run
    <3>2. WellFormed(p, run[p])'
      BY <1>1, <2>1, <3>1 DEF WellFormed, Workers
    <3>3. Keeps(run[p])'
      BY <1>1, <2>1, <3>1 DEF Keeps
    <3>4. QED
      BY <3>1, <3>2, <3>3
  <2>5. QED
    BY <2>2, <2>3, <2>4
<1>3. run' \in [Procs -> Run]
  BY <1>2 DEF Push
<1>4. QED
  BY <1>2, <1>3 DEF RunInv

LEMMA RemoveRun ==
    ASSUME RunInv, RestInv, NEW ref \in Refs, Remove(ref) PROVE RunInv'
<1>1. served' = served \ {ref} /\ scene' = scene
  BY DEF Remove
<1>2. ASSUME NEW p \in Procs
      PROVE  run'[p] \in Run /\ WellFormed(p, run[p])' /\ Keeps(run[p])'
  <2>1. run[p] \in Run /\ WellFormed(p, run[p]) /\ Keeps(run[p])
    BY RecordFacts
  <2>2. run'[p] = [run[p] EXCEPT !.kept = Without(@, ref, run[p].conf),
                                   !.must = Without(@, ref, run[p].conf)]
    BY DEF Remove
  <2>3. \A refs \in SUBSET Refs : Without(refs, ref, run[p].conf) \in {{}, refs \ {ref}}
    BY DEF Without
  <2>4. \A kept, must \in SUBSET Refs :
            kept \subseteq must => Without(kept, ref, run[p].conf)
                                        \subseteq Without(must, ref, run[p].conf)
    BY DEF Without
  <2>5. /\ run'[p] \in Run /\ run'[p].pc = run[p].pc /\ run'[p].job = run[p].job
        /\ run'[p].ref = run[p].ref /\ run'[p].conf = run[p].conf
        /\ run'[p].kept = Without(run[p].kept, ref, run[p].conf)
        /\ run'[p].must = Without(run[p].must, ref, run[p].conf)
        /\ run'[p].listed = run[p].listed /\ run'[p].repo = run[p].repo
        /\ run'[p].tags = run[p].tags
    <3> DEFINE k == Without(run[p].kept, ref, run[p].conf)
               m == Without(run[p].must, ref, run[p].conf)
    <3>1. run[p].kept \in SUBSET Refs /\ run[p].must \in SUBSET Refs
      BY <2>1 DEF Run
    <3>2. k \in SUBSET Refs /\ m \in SUBSET Refs
      BY <2>3, <3>1
    <3>3. run'[p] = [run[p] EXCEPT !.kept = k, !.must = m]
      BY <2>1, <2>2 DEF Run
    <3> HIDE DEF k, m
    <3>4. QED
      BY <2>1, <3>2, <3>3 DEF Run, k, m
  <2>6. WellFormed(p, run[p])'
    BY <1>1, <2>1, <2>5 DEF WellFormed, Workers
  <2>7. run[p].kept \in SUBSET Refs /\ run[p].must \in SUBSET Refs
    BY <2>1 DEF Run
  <2>8. run'[p].kept \subseteq run[p].kept /\ run'[p].kept \subseteq served'
    BY <1>1, <2>1, <2>3, <2>5, <2>7 DEF Keeps
  <2>9. /\ run[p].kept \subseteq run[p].must => run'[p].kept \subseteq run'[p].must
        /\ run[p].kept \cap Of(run[p].repo) \subseteq run[p].must =>
               run'[p].kept \cap Of(run'[p].repo) \subseteq run'[p].must
    BY <2>5, <2>7 DEF Without
  <2>10. Keeps(run[p])'
    BY <2>1, <2>5, <2>8, <2>9 DEF Keeps
  <2>11. QED
    BY <2>5, <2>6, <2>10
<1>3. run' \in [Procs -> Run]
  BY <1>2 DEF Remove
<1>4. QED
  BY <1>2, <1>3 DEF RunInv

-----------------------------------------------------------------------------
(* Sync *)

LEMMA StartSyncRun ==
    ASSUME RunInv, RestInv, NEW p \in Procs, NEW job \in {"task", "request"},
           p \in Workers, job = "task" => p \in Replicas, RegistryLive,
           StartSync(p, job), UNCHANGED served, UNCHANGED scene
    PROVE  RunInv'
<1> DEFINE r == [Idle EXCEPT !.pc = "repos", !.job = job, !.conf = reg.conf,
                             !.kept = served, !.must = served, !.may = served]
<1>1. /\ r \in Run /\ r.pc = "repos" /\ r.job = job /\ r.conf \in Row
      /\ r.kept = served /\ r.must = served
  BY IdleFacts DEF RestInv, RegInv, Run, Pcs, Idle
<1>2. WellFormed(p, r) /\ Keeps(r)
  BY <1>1 DEF WellFormed, Keeps
<1>3. QED
  BY <1>2, GoInv DEF StartSync

LEMMA RunJobRun ==
    ASSUME RunInv, RestInv, NEW p \in Procs, RunJob(p) PROVE RunInv'
<1>1. p \in Workers /\ p \in Replicas
  BY SceneFacts DEF RunJob, RestInv, CountInv, Workers
<1>2. CASE RegistryLive
  BY <1>1, <1>2, StartSyncRun DEF RunJob
<1>3. CASE ~ RegistryLive
  BY <1>3 DEF RunJob, RunInv, WellFormed, Keeps, Workers
<1>4. QED
  BY <1>2, <1>3

LEMMA ListRepositoriesRun ==
    ASSUME RunInv, RestInv, NEW p \in Procs, ListRepositories(p) PROVE RunInv'
<1>1. run[p] \in Run /\ WellFormed(p, run[p]) /\ Keeps(run[p]) /\ run[p].pc = "repos"
  BY RecordFacts DEF ListRepositories, At
<1>2. PICK repos \in SUBSET {RepoOf(ref) : ref \in run[p].may} :
          /\ {RepoOf(ref) : ref \in run[p].must} \subseteq repos
          /\ Go(p, [run[p] EXCEPT !.pc = "loop", !.listed = repos, !.left = repos,
                                  !.must = {}, !.may = {}])
  BY DEF ListRepositories
<1> DEFINE r == [run[p] EXCEPT !.pc = "loop", !.listed = repos, !.left = repos,
                               !.must = {}, !.may = {}]
<1>3. repos \subseteq Repos
  <2>1. run[p].may \subseteq Refs
    BY <1>1 DEF Run
  <2>2. \A ref \in Refs : RepoOf(ref) \in Repos
    BY DEF Refs, RepoOf
  <2>3. QED
    BY <2>1, <2>2
<1>4. /\ r \in Run /\ r.pc = "loop" /\ r.job = run[p].job /\ r.kept = run[p].kept
      /\ r.listed = repos
  BY <1>1, <1>3 DEF Run, Pcs
<1>5. \A ref \in run[p].kept : RepoOf(ref) \in repos
  BY <1>1, <1>2 DEF Keeps
<1>6. WellFormed(p, r) /\ Keeps(r)
  BY <1>1, <1>4, <1>5 DEF WellFormed, Keeps
<1>7. QED
  BY <1>2, <1>6, GoInv DEF ListRepositories, ProcStep

LEMMA NextRepositoryRun ==
    ASSUME RunInv, RestInv, NEW p \in Procs, NextRepository(p) PROVE RunInv'
<1>1. run[p] \in Run /\ WellFormed(p, run[p]) /\ Keeps(run[p]) /\ run[p].pc = "loop"
  BY RecordFacts DEF NextRepository, At
<1>2. PICK repo \in run[p].left :
          Go(p, [run[p] EXCEPT !.pc = "tags", !.left = @ \ {repo}, !.repo = repo,
                               !.must = served \cap Of(repo), !.may = served])
  BY DEF NextRepository
<1> DEFINE r == [run[p] EXCEPT !.pc = "tags", !.left = @ \ {repo}, !.repo = repo,
                               !.must = served \cap Of(repo), !.may = served]
<1>3. repo \in Repos /\ served \subseteq Refs
  BY <1>1 DEF Run, RestInv, RegInv
<1>4. /\ r \in Run /\ r.pc = "tags" /\ r.job = run[p].job /\ r.kept = run[p].kept
      /\ r.listed = run[p].listed /\ r.repo = repo /\ r.must = served \cap Of(repo)
  BY <1>1, <1>3 DEF Run, Pcs
<1>5. WellFormed(p, r) /\ Keeps(r)
  BY <1>1, <1>4 DEF WellFormed, Keeps
<1>6. QED
  BY <1>2, <1>5, GoInv DEF NextRepository, ProcStep

LEMMA ListTagsRun ==
    ASSUME RunInv, RestInv, NEW p \in Procs, ListTags(p) PROVE RunInv'
<1>1. run[p] \in Run /\ WellFormed(p, run[p]) /\ Keeps(run[p]) /\ run[p].pc = "tags"
  BY RecordFacts DEF ListTags, At
<1>2. PICK refs \in SUBSET (run[p].may \cap Of(run[p].repo)) :
          /\ run[p].must \subseteq refs
          /\ Go(p, [run[p] EXCEPT !.pc = "upsert", !.tags = refs, !.todo = refs,
                                  !.must = {}, !.may = {}])
  BY DEF ListTags
<1> DEFINE r == [run[p] EXCEPT !.pc = "upsert", !.tags = refs, !.todo = refs,
                               !.must = {}, !.may = {}]
<1>3. refs \subseteq Refs
  BY <1>1 DEF Run
<1>4. /\ r \in Run /\ r.pc = "upsert" /\ r.job = run[p].job /\ r.kept = run[p].kept
      /\ r.listed = run[p].listed /\ r.repo = run[p].repo /\ r.tags = refs
  BY <1>1, <1>3 DEF Run, Pcs
<1>5. WellFormed(p, r) /\ Keeps(r)
  BY <1>1, <1>2, <1>4 DEF WellFormed, Keeps
<1>6. QED
  BY <1>2, <1>5, GoInv DEF ListTags, ProcStep

(* The record of a process that goes on with its list. *)
LEMMA SameList ==
    ASSUME RunInv, NEW p \in Procs, run[p].pc \in {"upsert", "insert"},
           NEW r \in Run, r.pc \in {"upsert", "insert"},
           r.pc = "insert" => r.ref \in Refs,
           r.job = run[p].job, r.kept = run[p].kept, r.listed = run[p].listed,
           r.repo = run[p].repo, r.tags = run[p].tags
    PROVE  WellFormed(p, r) /\ Keeps(r)
<1>1. WellFormed(p, run[p]) /\ Keeps(run[p])
  BY RecordFacts
<1>2. QED
  BY <1>1 DEF WellFormed, Keeps

LEMMA SelectImageRun ==
    ASSUME RunInv, RestInv, NEW p \in Procs, SelectImage(p) PROVE RunInv'
<1>1. run[p] \in Run /\ run[p].pc = "upsert"
  BY RecordFacts DEF SelectImage, At
<1>2. PICK ref \in run[p].todo :
          Go(p, IF NoLiveRow(ref)
                THEN [run[p] EXCEPT !.pc = "insert", !.todo = @ \ {ref}, !.ref = ref]
                ELSE [run[p] EXCEPT !.todo = @ \ {ref}])
  BY DEF SelectImage
<1>3. ref \in Refs
  BY <1>1 DEF Run
<1>4. CASE NoLiveRow(ref)
  <2> DEFINE r == [run[p] EXCEPT !.pc = "insert", !.todo = @ \ {ref}, !.ref = ref]
  <2>1. /\ r \in Run /\ r.pc = "insert" /\ r.ref = ref
        /\ r.job = run[p].job /\ r.kept = run[p].kept
        /\ r.listed = run[p].listed /\ r.repo = run[p].repo /\ r.tags = run[p].tags
    BY <1>1, <1>3 DEF Run, Pcs
  <2>2. WellFormed(p, r) /\ Keeps(r)
    BY <1>1, <1>3, <2>1, SameList
  <2>3. Go(p, r)
    BY <1>2, <1>4
  <2>4. QED
    BY <2>2, <2>3, GoInv DEF SelectImage, ProcStep
<1>5. CASE ~ NoLiveRow(ref)
  <2> DEFINE r == [run[p] EXCEPT !.todo = @ \ {ref}]
  <2>1. /\ r \in Run /\ r.pc = "upsert" /\ r.job = run[p].job /\ r.kept = run[p].kept
        /\ r.listed = run[p].listed /\ r.repo = run[p].repo /\ r.tags = run[p].tags
    BY <1>1, <1>3 DEF Run, Pcs
  <2>2. WellFormed(p, r) /\ Keeps(r)
    BY <1>1, <2>1, SameList
  <2>3. Go(p, r)
    BY <1>2, <1>5
  <2>4. QED
    BY <2>2, <2>3, GoInv DEF SelectImage, ProcStep
<1>6. QED
  BY <1>4, <1>5

(* The reference is in the database, or could not be written. *)
LEMMA InsertedRecord ==
    ASSUME RunInv, NEW p \in Procs, run[p].pc = "insert"
    PROVE  LET r == [run[p] EXCEPT !.pc = "upsert", !.ref = None]
           IN  WellFormed(p, r) /\ Keeps(r)
<1> DEFINE r == [run[p] EXCEPT !.pc = "upsert", !.ref = None]
<1>1. run[p] \in Run
  BY RecordFacts
<1>2. /\ r \in Run /\ r.pc = "upsert" /\ r.job = run[p].job /\ r.kept = run[p].kept
      /\ r.listed = run[p].listed /\ r.repo = run[p].repo /\ r.tags = run[p].tags
  BY <1>1 DEF Run, Pcs
<1>3. QED
  BY <1>2, SameList

(* The repository is done, or given up. *)
LEMMA NextLoopRecord ==
    ASSUME RunInv, NEW p \in Procs, run[p].pc \in {"tags", "upsert"}
    PROVE  /\ WellFormed(p, NextLoop(p)) /\ Keeps(NextLoop(p))
           /\ WellFormed(p, NoTags(p)) /\ Keeps(NoTags(p))
           /\ NextLoop(p).pc = "loop" /\ NoTags(p).pc = "loop"
<1>1. run[p] \in Run /\ WellFormed(p, run[p]) /\ Keeps(run[p])
  BY RecordFacts
<1>2. /\ NextLoop(p) \in Run /\ NextLoop(p).pc = "loop"
      /\ NextLoop(p).job = run[p].job /\ NextLoop(p).kept = run[p].kept
      /\ NextLoop(p).listed = run[p].listed
  BY <1>1 DEF Run, Pcs, NextLoop
<1>3. /\ NoTags(p) \in Run /\ NoTags(p).pc = "loop"
      /\ NoTags(p).job = run[p].job /\ NoTags(p).kept = run[p].kept
      /\ NoTags(p).listed = run[p].listed
  BY <1>2 DEF Run, NoTags
<1>4. QED
  BY <1>1, <1>2, <1>3 DEF WellFormed, Keeps

LEMMA NextLoopRun ==
    ASSUME RunInv, NEW p \in Procs, run[p].pc \in {"tags", "upsert"},
           Go(p, NextLoop(p)) \/ Go(p, NoTags(p)), UNCHANGED served, UNCHANGED scene
    PROVE  RunInv'
BY NextLoopRecord, GoInv

LEMMA DoneRun ==
    ASSUME RunInv, NEW p \in Procs, Done(p), UNCHANGED served, UNCHANGED scene
    PROVE  RunInv'
BY IdleFacts, GoInv DEF Done

LEMMA SyncStepRun ==
    ASSUME RunInv, RestInv, NEW p \in Procs, SyncStep(p) PROVE RunInv'
<1>1. CASE InsertImage(p)
  BY <1>1, InsertedRecord, GoInv DEF InsertImage, At, ProcStep
<1>2. CASE SoftDeleteImageTagsNotIn(p)
  BY <1>2, NextLoopRun DEF SoftDeleteImageTagsNotIn, Upserted, At, ProcStep
<1>3. CASE KeepTags(p)
  BY <1>3, NextLoopRun DEF KeepTags, Upserted, At, ProcStep
<1>4. CASE SoftDeleteImagesForRepositoriesNotIn(p)
  BY <1>4, DoneRun DEF SoftDeleteImagesForRepositoriesNotIn, ProcStep
<1>5. CASE NoCatalog(p)
  BY <1>5, DoneRun DEF NoCatalog, ProcStep
<1>6. QED
  BY <1>1, <1>2, <1>3, <1>4, <1>5, ListRepositoriesRun, NextRepositoryRun, ListTagsRun,
     SelectImageRun DEF SyncStep

-----------------------------------------------------------------------------
(* Requests *)

LEMMA UpsertOneRun ==
    ASSUME RunInv, RestInv, NEW p \in Procs, NEW ref \in scene.refs, UpsertOne(p, ref)
    PROVE  RunInv'
<1> DEFINE r == [Idle EXCEPT !.pc = "upsert", !.job = "one", !.todo = {ref}]
<1>1. ref \in Refs /\ p \in Workers
  BY SceneFacts DEF RestInv, CountInv, UpsertOne, Request, Workers
<1>2. r \in Run /\ r.pc = "upsert" /\ r.job = "one" /\ r.kept = {}
  BY <1>1, IdleFacts DEF Run, Pcs, Idle
<1>3. WellFormed(p, r) /\ Keeps(r)
  BY <1>1, <1>2 DEF WellFormed, Keeps
<1>4. QED
  BY <1>3, GoInv DEF UpsertOne, Request

LEMMA TestNewRun ==
    ASSUME RunInv, RestInv, NEW p \in Procs, TestNew(p) PROVE RunInv'
<1>1. scene.confs \subseteq Row
  BY SceneFacts DEF RestInv, CountInv
<1>2. PICK conf \in Row : /\ Tested(conf)
                          /\ Go(p, [Idle EXCEPT !.pc = "create", !.conf = conf])
  BY <1>1 DEF TestNew
<1> DEFINE r == [Idle EXCEPT !.pc = "create", !.conf = conf]
<1>3. p \in Clients /\ p \in Workers
  BY DEF TestNew, Request, Workers
<1>4. r \in Run /\ r.pc = "create" /\ r.job = "none" /\ r.conf = conf /\ r.kept = {}
  BY IdleFacts DEF Run, Pcs, Idle
<1>5. WellFormed(p, r) /\ Keeps(r)
  BY <1>2, <1>3, <1>4 DEF WellFormed, Keeps
<1>6. QED
  BY <1>2, <1>5, GoInv DEF TestNew, Request

(* What an update is going to write has been tested as it is. *)
LEMMA TestMergedRun ==
    ASSUME RunInv, RestInv, NEW p \in Procs, TestMerged(p) PROVE RunInv'
<1>1. scene.confs \subseteq Row
  BY SceneFacts DEF RestInv, CountInv
<1>2. PICK conf \in Row, given \in SUBSET Fields :
          /\ Tested(conf)
          /\ Go(p, [Idle EXCEPT !.pc = "update", !.conf = conf, !.given = given])
  BY <1>1 DEF TestMerged
<1> DEFINE r == [Idle EXCEPT !.pc = "update", !.conf = conf, !.given = given]
<1>3. p \in Clients /\ p \in Workers
  BY DEF TestMerged, Request, Workers
<1>4. r \in Run /\ r.pc = "update" /\ r.job = "none" /\ r.conf = conf /\ r.kept = {}
  BY IdleFacts DEF Run, Pcs, Idle
<1>5. WellFormed(p, r) /\ Keeps(r)
  BY <1>2, <1>3, <1>4 DEF WellFormed, Keeps
<1>6. QED
  BY <1>2, <1>5, GoInv DEF TestMerged, Request

LEMMA ImageIsActiveRun ==
    ASSUME RunInv, NEW p \in Procs, ImageIsActive(p) PROVE RunInv'
<1> DEFINE r == [Idle EXCEPT !.pc = "exists"]
<1>1. p \in Clients /\ p \in Workers
  BY DEF ImageIsActive, Request, Workers
<1>2. r \in Run /\ r.pc = "exists" /\ r.job = "none" /\ r.kept = {}
  BY IdleFacts DEF Run, Pcs, Idle
<1>3. WellFormed(p, r) /\ Keeps(r)
  BY <1>1, <1>2 DEF WellFormed, Keeps
<1>4. QED
  BY <1>3, GoInv DEF ImageIsActive, Request

LEMMA TargetExistsRun ==
    ASSUME RunInv, NEW p \in Procs, TargetExists(p) PROVE RunInv'
<1> DEFINE r == [run[p] EXCEPT !.pc = "target"]
<1>1. run[p] \in Run /\ WellFormed(p, run[p]) /\ Keeps(run[p]) /\ run[p].pc = "exists"
  BY RecordFacts DEF TargetExists, At
<1>2. r \in Run /\ r.pc = "target" /\ r.job = run[p].job /\ r.kept = run[p].kept
  BY <1>1 DEF Run, Pcs
<1>3. WellFormed(p, r) /\ Keeps(r)
  BY <1>1, <1>2 DEF WellFormed, Keeps
<1>4. Go(p, Idle) \/ Go(p, r)
  BY DEF TargetExists
<1>5. QED
  BY <1>3, <1>4, IdleFacts, GoInv DEF TargetExists, ProcStep

LEMMA SameRun ==
    ASSUME RunInv, UNCHANGED run, UNCHANGED served, UNCHANGED scene PROVE RunInv'
BY DEF RunInv, WellFormed, Keeps, Workers

LEMMA RequestStepRun ==
    ASSUME RunInv, NEW p \in Procs, RequestStep(p) PROVE RunInv'
<1>1. CASE TargetExists(p)
  BY <1>1, TargetExistsRun
<1>2. CASE ~ TargetExists(p)
  BY <1>2, DoneRun DEF RequestStep, UpsertedOne, CreateRegistry, UpdateRegistry,
                       CreateTarget, ProcStep
<1>3. QED
  BY <1>1, <1>2

LEMMA NewRequestRun ==
    ASSUME RunInv, RestInv, NEW p \in Procs, NewRequest(p) PROVE RunInv'
<1>1. CASE SyncRegistry(p)
  BY <1>1, StartSyncRun DEF SyncRegistry, Request, Workers
<1>2. CASE ProcessAsync(p) \/ CreateAdhocScan(p)
  BY <1>2, UpsertOneRun DEF ProcessAsync, CreateAdhocScan
<1>3. CASE DeleteImage(p) \/ DeleteRegistry(p) \/ SoftDeleteTarget(p)
  BY <1>3, SameRun DEF DeleteImage, DeleteRegistry, SoftDeleteTarget, Request
<1>4. QED
  BY <1>1, <1>2, <1>3, TestNewRun, TestMergedRun, ImageIsActiveRun DEF NewRequest

LEMMA CallFailsRun ==
    ASSUME RunInv, NEW p \in Procs, CallFails(p) PROVE RunInv'
<1>1. served' = served /\ scene' = scene
  BY DEF CallFails
<1>2. CASE Done(p)
  BY <1>1, <1>2, DoneRun
<1>3. CASE /\ At(p, "tags") /\ Go(p, NoTags(p))
  BY <1>1, <1>3, NextLoopRun DEF At
<1>4. CASE At(p, "insert") /\ Go(p, [run[p] EXCEPT !.pc = "upsert", !.ref = None])
  BY <1>1, <1>4, InsertedRecord, GoInv DEF At
<1>5. CASE At(p, "upsert") /\ \E ref \in run[p].todo :
               Go(p, [run[p] EXCEPT !.todo = @ \ {ref}])
  <2>1. PICK ref \in run[p].todo : Go(p, [run[p] EXCEPT !.todo = @ \ {ref}])
    BY <1>5
  <2> DEFINE r == [run[p] EXCEPT !.todo = @ \ {ref}]
  <2>2. run[p] \in Run /\ run[p].pc = "upsert"
    BY <1>5, RecordFacts DEF At
  <2>3. /\ r \in Run /\ r.pc = "upsert" /\ r.job = run[p].job /\ r.kept = run[p].kept
        /\ r.listed = run[p].listed /\ r.repo = run[p].repo /\ r.tags = run[p].tags
    BY <2>2 DEF Run, Pcs
  <2>4. WellFormed(p, r) /\ Keeps(r)
    BY <2>2, <2>3, SameList
  <2>5. QED
    BY <1>1, <2>1, <2>4, GoInv
<1>6. CASE Upserted(p) /\ Go(p, NextLoop(p))
  BY <1>1, <1>6, NextLoopRun DEF Upserted, At
<1>7. QED
  BY <1>2, <1>3, <1>4, <1>5, <1>6 DEF CallFails

LEMMA RunStep == Inv /\ [Next]_vars => RunInv'
<1> SUFFICES ASSUME Inv, [Next]_vars PROVE RunInv'
  OBVIOUS
<1>1. RunInv /\ RestInv
  BY DEF Inv
<1>2. CASE UNCHANGED vars \/ LockExpires
  BY <1>1, <1>2, SameRun DEF vars, LockExpires
<1>3. ASSUME NEW ref \in Refs, Push(ref) \/ Remove(ref) PROVE RunInv'
  BY <1>1, <1>3, PushRun, RemoveRun
<1>4. ASSUME NEW p \in Procs, RunJob(p) \/ SyncStep(p) \/ RequestStep(p) \/ NewRequest(p)
                                \/ CallFails(p)
      PROVE  RunInv'
  BY <1>1, <1>4, RunJobRun, SyncStepRun, RequestStepRun, NewRequestRun, CallFailsRun
<1>5. QED
  BY <1>2, <1>3, <1>4 DEF Next

-----------------------------------------------------------------------------
(* The rows and the counters. *)

(* What each kind of step leaves alone. *)
LEMMA SyncSame ==
    ASSUME NEW p \in Procs, SyncStep(p)
    PROVE  UNCHANGED <<served, reg, lock, scene, changes, requests, faults>>
BY DEF SyncStep, NoCatalog, ListRepositories, NextRepository, ListTags, SelectImage, InsertImage,
       SoftDeleteImageTagsNotIn, KeepTags, SoftDeleteImagesForRepositoriesNotIn, ProcStep

LEMMA RequestSame ==
    ASSUME NEW p \in Procs, RequestStep(p)
    PROVE  UNCHANGED <<served, lock, scene, changes, requests, faults>>
BY DEF RequestStep, UpsertedOne, CreateRegistry, UpdateRegistry, TargetExists,
       CreateTarget, ProcStep

LEMMA NewRequestSame ==
    ASSUME NEW p \in Procs, NewRequest(p)
    PROVE  /\ UNCHANGED <<served, lock, scene, changes, faults>>
           /\ requests < scene.requests /\ requests' = requests + 1
<1>1. \E kind \in {"sync", "upsert", "image", "registry", "edit", "target"} : Request(p, kind)
  BY DEF NewRequest, SyncRegistry, ProcessAsync, CreateAdhocScan, UpsertOne, DeleteImage,
         DeleteRegistry, TestNew, TestMerged, ImageIsActive, SoftDeleteTarget
<1>2. QED
  BY <1>1 DEF Request

LEMMA CountStep == CountInv /\ [Next]_vars => CountInv'
<1> SUFFICES ASSUME CountInv, [Next]_vars PROVE CountInv'
  OBVIOUS
<1>1. /\ scene.changes \in Nat /\ scene.requests \in Nat /\ scene.faults \in Nat
      /\ changes \in Nat /\ requests \in Nat /\ faults \in Nat
  BY SceneFacts DEF CountInv
<1>2. CASE UNCHANGED <<scene, changes, requests, faults>>
  BY <1>2 DEF CountInv
<1>3. ASSUME NEW ref \in Refs, Push(ref) \/ Remove(ref) PROVE CountInv'
  <2>1. /\ changes < scene.changes /\ changes' = changes + 1
        /\ scene' = scene /\ requests' = requests /\ faults' = faults
    BY <1>3 DEF Push, Remove
  <2>2. QED
    BY <1>1, <2>1 DEF CountInv
<1>4. ASSUME NEW p \in Procs, NewRequest(p) PROVE CountInv'
  BY <1>1, <1>4, NewRequestSame DEF CountInv
<1>5. ASSUME NEW p \in Procs, CallFails(p) PROVE CountInv'
  BY <1>1, <1>5 DEF CountInv, CallFails
<1>6. ASSUME NEW p \in Procs, RunJob(p) \/ SyncStep(p) \/ RequestStep(p)
      PROVE  UNCHANGED <<scene, changes, requests, faults>>
  BY <1>6, SyncSame, RequestSame DEF RunJob
<1>7. QED
  BY <1>2, <1>3, <1>4, <1>5, <1>6 DEF Next, LockExpires, vars

LEMMA SameReg ==
    ASSUME RegInv, UNCHANGED <<served, reg, lock>> PROVE RegInv'
BY DEF RegInv, StoredWasTested, RegistryLive

(* A registry row is written by a request that has tested what it writes.   *)
LEMMA RegStep == Inv /\ [Next]_vars => RegInv'
<1> SUFFICES ASSUME Inv, [Next]_vars PROVE RegInv'
  OBVIOUS
<1>1. RunInv /\ RegInv
  BY DEF Inv, RestInv
<1>2. ASSUME UNCHANGED reg, served' \subseteq Refs, lock' \in BOOLEAN
      PROVE  RegInv'
  BY <1>1, <1>2 DEF RegInv, StoredWasTested, RegistryLive
<1>3. ASSUME NEW ref \in Refs, Push(ref) \/ Remove(ref) PROVE RegInv'
  <2>1. served' \subseteq Refs
    BY <1>1, <1>3 DEF RegInv, Push, Remove
  <2>2. UNCHANGED <<reg, lock>>
    BY <1>3 DEF Push, Remove
  <2>3. QED
    BY <1>1, <1>2, <2>1, <2>2 DEF RegInv
<1>4. ASSUME LockExpires \/ \E p \in Procs : RunJob(p) PROVE RegInv'
  BY <1>1, <1>4 DEF RegInv, StoredWasTested, RegistryLive, RunJob, LockExpires
<1>5. ASSUME NEW p \in Procs, SyncStep(p) \/ CallFails(p) PROVE RegInv'
  BY <1>1, <1>5, SyncSame, SameReg DEF CallFails
<1>6. ASSUME NEW p \in Procs, NewRequest(p) PROVE RegInv'
  <2>1. UNCHANGED <<served, lock>>
    BY <1>6, NewRequestSame
  <2>2. CASE DeleteRegistry(p)
    <3>1. reg' = [reg EXCEPT !.state = "deleted"]
      BY <2>2 DEF DeleteRegistry
    <3>2. reg' \in Rows /\ reg'.state = "deleted"
      BY <1>1, <3>1 DEF RegInv, Rows
    <3>3. QED
      BY <1>1, <2>1, <3>2 DEF RegInv, StoredWasTested, RegistryLive
  <2>3. CASE ~ DeleteRegistry(p)
    <3>1. reg' = reg
      BY <1>6, <2>3 DEF NewRequest, SyncRegistry, ProcessAsync, CreateAdhocScan, UpsertOne,
             DeleteImage, TestNew, TestMerged, ImageIsActive, SoftDeleteTarget
    <3>2. QED
      BY <1>1, <2>1, <3>1, SameReg
  <2>4. QED
    BY <2>2, <2>3
<1>7. ASSUME NEW p \in Procs, RequestStep(p) PROVE RegInv'
  <2>1. UNCHANGED <<served, lock>>
    BY <1>7, RequestSame
  <2>2. CASE reg' = reg
    BY <1>1, <2>1, <2>2, SameReg
  <2>3. CASE CreateRegistry(p) /\ reg' # reg
    <3>1. run[p].conf \in Row /\ Tested(run[p].conf)
      BY <1>1, <2>3, RecordFacts DEF CreateRegistry, At, WellFormed
    <3>2. reg' = [state |-> "live", conf |-> run[p].conf]
      BY <2>3 DEF CreateRegistry
    <3>3. QED
      BY <1>1, <2>1, <3>1, <3>2 DEF RegInv, Rows, StoredWasTested, RegistryLive
  <2>4. CASE UpdateRegistry(p) /\ reg' # reg
    <3>1. run[p].conf \in Row /\ Tested(run[p].conf)
      BY <1>1, <2>4, RecordFacts DEF UpdateRegistry, At, WellFormed
    <3>2. reg' = [reg EXCEPT !.conf = run[p].conf]
      BY <2>4 DEF UpdateRegistry, Written
    <3>3. QED
      BY <1>1, <2>1, <3>1, <3>2 DEF RegInv, Rows, StoredWasTested, RegistryLive
  <2>5. QED
    BY <1>7, <2>2, <2>3, <2>4 DEF RequestStep, UpsertedOne, TargetExists, CreateTarget,
                                  ProcStep
<1>8. CASE UNCHANGED vars
  BY <1>1, <1>8, SameReg DEF vars
<1>9. QED
  BY <1>3, <1>4, <1>5, <1>6, <1>7, <1>8 DEF Next

LEMMA DeleteRowsFacts ==
    ASSUME RowsInv, NEW refs \in SUBSET Refs, DeleteRows(refs)
    PROVE  /\ RowsInv'
           /\ watched'.targets = watched.targets
           /\ \A ref \in Refs : rows'[ref] = IF ref \in refs THEN 0 ELSE rows[ref]
<1>1. watched' = [watched EXCEPT !.live = watched.live /\ watched.ref \notin refs]
  BY DEF DeleteRows
<1>2. (watched.live /\ watched.ref \notin refs) \in BOOLEAN
  OBVIOUS
<1>3. /\ watched' \in [ref : Refs \cup {None}, live : BOOLEAN, targets : Nat]
      /\ watched'.targets = watched.targets
  BY <1>1, <1>2 DEF RowsInv
<1>4. /\ rows' \in [Refs -> Nat]
      /\ \A ref \in Refs : rows'[ref] = IF ref \in refs THEN 0 ELSE rows[ref]
  BY DEF DeleteRows, RowsInv
<1>5. QED
  BY <1>3, <1>4 DEF RowsInv

-----------------------------------------------------------------------------
(* Who comes to insert: nobody but who has looked.                          *)

Stays(q) ==
    \/ run'[q].pc = run[q].pc /\ run'[q].ref = run[q].ref
    \/ run'[q].pc \notin {"insert", "target"}

LEMMA GoStays ==
    ASSUME RunInv, NEW p \in Procs, NEW r, Go(p, r), r.pc \notin {"insert", "target"}
    PROVE  \A q \in Procs : Stays(q)
<1>1. run'[p] = r /\ \A q \in Procs \ {p} : run'[q] = run[q]
  BY DEF RunInv, Go
<1>2. QED
  BY <1>1 DEF Stays

LEMMA SyncStays ==
    ASSUME RunInv, NEW p \in Procs, SyncStep(p), ~ SelectImage(p)
    PROVE  \A q \in Procs : Stays(q)
<1>1. run[p] \in Run
  BY RecordFacts
<1>2. ASSUME NEW x, NEW y
      PROVE  /\ [run[p] EXCEPT !.pc = "loop", !.listed = x, !.left = x,
                               !.must = {}, !.may = {}].pc = "loop"
             /\ [run[p] EXCEPT !.pc = "tags", !.left = @ \ {x}, !.repo = x,
                               !.must = y, !.may = served].pc = "tags"
             /\ [run[p] EXCEPT !.pc = "upsert", !.tags = x, !.todo = x,
                               !.must = {}, !.may = {}].pc = "upsert"
             /\ [run[p] EXCEPT !.pc = "upsert", !.ref = None].pc = "upsert"
  BY <1>1 DEF Run
<1>3. NextLoop(p).pc = "loop"
  BY <1>1 DEF NextLoop, Run
<1>4. CASE ListRepositories(p)
  BY <1>2, <1>4, GoStays DEF ListRepositories
<1>11. CASE NoCatalog(p)
  BY <1>11, IdleFacts, GoStays DEF NoCatalog, Done
<1>5. CASE NextRepository(p)
  BY <1>2, <1>5, GoStays DEF NextRepository
<1>6. CASE ListTags(p)
  BY <1>2, <1>6, GoStays DEF ListTags
<1>7. CASE InsertImage(p)
  BY <1>2, <1>7, GoStays DEF InsertImage
<1>8. CASE SoftDeleteImageTagsNotIn(p) \/ KeepTags(p)
  BY <1>3, <1>8, GoStays DEF SoftDeleteImageTagsNotIn, KeepTags
<1>9. CASE SoftDeleteImagesForRepositoriesNotIn(p)
  BY <1>9, IdleFacts, GoStays DEF SoftDeleteImagesForRepositoriesNotIn, Done
<1>10. QED
  BY <1>4, <1>5, <1>6, <1>7, <1>8, <1>9, <1>11 DEF SyncStep

LEMMA RequestStays ==
    ASSUME RunInv, NEW p \in Procs, NewRequest(p) \/ RequestStep(p), ~ TargetExists(p)
    PROVE  \A q \in Procs : Stays(q)
<1>1. CASE RequestStep(p)
  BY <1>1, IdleFacts, GoStays DEF RequestStep, UpsertedOne, CreateRegistry, UpdateRegistry,
                                  CreateTarget, Done
<1>2. CASE SyncRegistry(p)
  <2>1. [Idle EXCEPT !.pc = "repos", !.job = "request", !.conf = reg.conf,
                     !.kept = served, !.must = served, !.may = served].pc = "repos"
    BY DEF Idle
  <2>2. QED
    BY <1>2, <2>1, GoStays DEF SyncRegistry, StartSync
<1>3. CASE ProcessAsync(p) \/ CreateAdhocScan(p)
  <2>1. PICK ref \in scene.refs : UpsertOne(p, ref)
    BY <1>3 DEF ProcessAsync, CreateAdhocScan
  <2>2. [Idle EXCEPT !.pc = "upsert", !.job = "one", !.todo = {ref}].pc = "upsert"
    BY DEF Idle
  <2>3. QED
    BY <2>1, <2>2, GoStays DEF UpsertOne
<1>4. CASE DeleteImage(p) \/ DeleteRegistry(p) \/ SoftDeleteTarget(p)
  BY <1>4 DEF Stays, DeleteImage, DeleteRegistry, SoftDeleteTarget
<1>5. CASE TestNew(p) \/ TestMerged(p)
  <2>1. ASSUME NEW c, NEW g
        PROVE  /\ [Idle EXCEPT !.pc = "create", !.conf = c].pc = "create"
               /\ [Idle EXCEPT !.pc = "update", !.conf = c, !.given = g].pc = "update"
    BY DEF Idle
  <2>2. QED
    BY <1>5, <2>1, GoStays DEF TestNew, TestMerged
<1>6. CASE ImageIsActive(p)
  <2>1. [Idle EXCEPT !.pc = "exists"].pc = "exists"
    BY DEF Idle
  <2>2. QED
    BY <1>6, <2>1, GoStays DEF ImageIsActive
<1>7. QED
  BY <1>1, <1>2, <1>3, <1>4, <1>5, <1>6 DEF NewRequest

LEMMA CallFailsStays ==
    ASSUME RunInv, NEW p \in Procs, CallFails(p) PROVE \A q \in Procs : Stays(q)
<1>1. run[p] \in Run
  BY RecordFacts
<1>2. CASE Done(p)
  BY <1>2, IdleFacts, GoStays DEF Done
<1>3. CASE At(p, "tags") /\ Go(p, NoTags(p))
  BY <1>3, NextLoopRecord, GoStays DEF At
<1>4. CASE At(p, "insert") /\ Go(p, [run[p] EXCEPT !.pc = "upsert", !.ref = None])
  <2>1. [run[p] EXCEPT !.pc = "upsert", !.ref = None].pc = "upsert"
    BY <1>1 DEF Run
  <2>2. QED
    BY <1>4, <2>1, GoStays
<1>5. CASE At(p, "upsert") /\ \E ref \in run[p].todo :
               Go(p, [run[p] EXCEPT !.todo = @ \ {ref}])
  <2>1. PICK ref \in run[p].todo : Go(p, [run[p] EXCEPT !.todo = @ \ {ref}])
    BY <1>5
  <2>2. [run[p] EXCEPT !.todo = @ \ {ref}].pc = "upsert"
    BY <1>1, <1>5 DEF At, Run
  <2>3. QED
    BY <2>1, <2>2, GoStays
<1>6. CASE Upserted(p) /\ Go(p, NextLoop(p))
  BY <1>6, NextLoopRecord, GoStays DEF Upserted, At
<1>7. QED
  BY <1>2, <1>3, <1>4, <1>5, <1>6 DEF CallFails

LEMMA RegistryStays ==
    ASSUME RunInv,
           \/ \E ref \in Refs : Push(ref) \/ Remove(ref)
           \/ \E p \in Procs : RunJob(p)
           \/ LockExpires
    PROVE  \A q \in Procs : Stays(q)
<1>1. \A q \in Procs : run[q] \in Run
  BY RecordFacts
<1>2. CASE \E ref \in Refs : Push(ref)
  <2>1. PICK ref \in Refs : Push(ref)
    BY <1>2
  <2>2. ASSUME NEW q \in Procs PROVE Stays(q)
    <3>1. run'[q] = run[q] \/ run'[q] = [run[q] EXCEPT !.may = @ \cup {ref}]
      BY <2>1 DEF Push
    <3>2. run'[q].pc = run[q].pc /\ run'[q].ref = run[q].ref
      BY <1>1, <3>1 DEF Run
    <3>3. QED
      BY <3>2 DEF Stays
  <2>3. QED
    BY <2>2
<1>3. CASE \E ref \in Refs : Remove(ref)
  <2>1. PICK ref \in Refs : Remove(ref)
    BY <1>3
  <2>2. ASSUME NEW q \in Procs PROVE Stays(q)
    <3>1. run'[q] = [run[q] EXCEPT !.kept = Without(@, ref, run[q].conf),
                                   !.must = Without(@, ref, run[q].conf)]
      BY <2>1 DEF Remove
    <3>2. run'[q].pc = run[q].pc /\ run'[q].ref = run[q].ref
      BY <1>1, <3>1 DEF Run
    <3>3. QED
      BY <3>2 DEF Stays
  <2>3. QED
    BY <2>2
<1>4. CASE \E p \in Procs : RunJob(p)
  <2>1. PICK p \in Procs : RunJob(p)
    BY <1>4
  <2>2. [Idle EXCEPT !.pc = "repos", !.job = "task", !.conf = reg.conf,
                     !.kept = served, !.must = served, !.may = served].pc = "repos"
    BY DEF Idle
  <2>3. CASE RegistryLive
    BY <2>1, <2>2, <2>3, GoStays DEF RunJob, StartSync
  <2>4. CASE ~ RegistryLive
    BY <2>1, <2>4 DEF RunJob, Stays
  <2>5. QED
    BY <2>3, <2>4
<1>5. QED
  BY <1>2, <1>3, <1>4 DEF LockExpires, Stays

-----------------------------------------------------------------------------
(* Rows are only added by InsertImage, targets by CreateTarget. *)

LEMMA InsertFacts ==
    ASSUME RunInv, RowsInv, NEW p \in Procs, InsertImage(p)
    PROVE  /\ RowsInv' /\ run[p].ref \in Refs
           /\ rows'[run[p].ref] = rows[run[p].ref] + 1
           /\ \A ref \in Refs \ {run[p].ref} : rows'[ref] = rows[ref]
           /\ watched' = watched
<1>1. run[p].ref \in Refs
  BY RecordFacts DEF InsertImage, At, WellFormed
<1>2. rows' = [rows EXCEPT ![run[p].ref] = @ + 1] /\ watched' = watched
  BY DEF InsertImage
<1>3. QED
  BY <1>1, <1>2 DEF RowsInv

LEMMA CreateTargetFacts ==
    ASSUME RowsInv, NEW p \in Procs, CreateTarget(p)
    PROVE  RowsInv' /\ rows' = rows /\ watched'.targets = watched.targets + 1
BY DEF RowsInv, CreateTarget

Fewer ==
    /\ RowsInv'
    /\ \A ref \in Refs : rows'[ref] <= rows[ref]
    /\ watched'.targets <= watched.targets

LEMMA SameRows ==
    ASSUME RowsInv, KeepRows PROVE Fewer
BY DEF RowsInv, KeepRows, Fewer

LEMMA DeletedRows ==
    ASSUME RowsInv, NEW refs \in SUBSET Refs, DeleteRows(refs) PROVE Fewer
<1>1. \A ref \in Refs : rows[ref] \in Nat
  BY DEF RowsInv
<1>2. watched.targets \in Nat
  BY DEF RowsInv
<1>3. QED
  BY <1>1, <1>2, DeleteRowsFacts DEF Fewer

LEMMA DeleteImageRows ==
    ASSUME RowsInv, NEW p \in Procs, DeleteImage(p) PROVE Fewer
<1>1. PICK ref \in Refs :
          /\ HasRow(ref) /\ rows' = [rows EXCEPT ![ref] = @ - 1]
          /\ \/ watched' = [watched EXCEPT !.live = @ /\ watched.ref # ref]
             \/ rows[ref] > 1 /\ UNCHANGED watched
  BY DEF DeleteImage
<1>2. rows' \in [Refs -> Nat] /\ \A r \in Refs : rows'[r] <= rows[r]
  BY <1>1 DEF RowsInv, HasRow
<1>3. (watched.live /\ watched.ref # ref) \in BOOLEAN
  OBVIOUS
<1>4. /\ watched' \in [ref : Refs \cup {None}, live : BOOLEAN, targets : Nat]
      /\ watched'.targets = watched.targets
  BY <1>1, <1>3 DEF RowsInv
<1>5. QED
  BY <1>2, <1>4 DEF Fewer, RowsInv

LEMMA SyncRows ==
    ASSUME RowsInv, NEW p \in Procs, SyncStep(p), ~ InsertImage(p) PROVE Fewer
<1>1. CASE SoftDeleteImageTagsNotIn(p)
  BY <1>1, DeletedRows DEF SoftDeleteImageTagsNotIn, StaleTags, Of
<1>2. CASE SoftDeleteImagesForRepositoriesNotIn(p)
  <2>1. {ref \in Refs : RepoOf(ref) \notin run[p].listed} \in SUBSET Refs
    OBVIOUS
  <2>2. QED
    BY <1>2, <2>1, DeletedRows, SameRows DEF SoftDeleteImagesForRepositoriesNotIn
<1>3. CASE KeepRows
  BY <1>3, SameRows
<1>4. QED
  BY <1>1, <1>2, <1>3 DEF SyncStep, NoCatalog, ListRepositories, NextRepository, ListTags,
                          SelectImage, KeepTags

LEMMA RequestRows ==
    ASSUME RowsInv, NEW p \in Procs, NewRequest(p) \/ RequestStep(p), ~ CreateTarget(p)
    PROVE  Fewer
<1>1. CASE DeleteImage(p)
  BY <1>1, DeleteImageRows
<1>2. CASE DeleteRegistry(p)
  BY <1>2, DeletedRows DEF DeleteRegistry
<1>3. CASE ImageIsActive(p)
  <2>1. /\ watched' \in [ref : Refs \cup {None}, live : BOOLEAN, targets : Nat]
        /\ watched'.targets <= watched.targets
    <3>1. CASE UNCHANGED watched
      BY <3>1 DEF RowsInv
    <3>2. CASE \E ref \in Refs : watched' = [ref |-> ref, live |-> TRUE, targets |-> 0]
      BY <3>2 DEF RowsInv
    <3>3. QED
      BY <1>3, <3>1, <3>2 DEF ImageIsActive
  <2>2. QED
    BY <1>3, <2>1 DEF ImageIsActive, RowsInv, Fewer
<1>4. CASE SoftDeleteTarget(p)
  BY <1>4 DEF SoftDeleteTarget, RowsInv, Fewer
<1>5. CASE KeepRows
  BY <1>5, SameRows
<1>6. QED
  BY <1>1, <1>2, <1>3, <1>4, <1>5
     DEF NewRequest, RequestStep, SyncRegistry, ProcessAsync, CreateAdhocScan, UpsertOne,
         TestNew, TestMerged, UpsertedOne, CreateRegistry, UpdateRegistry, TargetExists

(* Every step but an insertion leaves no more rows and targets. *)
LEMMA StepRows ==
    ASSUME RowsInv, [Next]_vars,
           \A p \in Procs : ~ InsertImage(p) /\ ~ CreateTarget(p)
    PROVE  Fewer
<1>1. CASE KeepRows
  BY <1>1, SameRows
<1>2. CASE \E p \in Procs : SyncStep(p)
  BY <1>2, SyncRows
<1>3. CASE \E p \in Procs : NewRequest(p) \/ RequestStep(p)
  BY <1>3, RequestRows
<1>4. ASSUME NEW ref \in Refs, Push(ref) \/ Remove(ref) PROVE KeepRows
  BY <1>4 DEF Push, Remove, KeepRows
<1>5. ASSUME NEW p \in Procs, RunJob(p) \/ CallFails(p) PROVE KeepRows
  BY <1>5 DEF RunJob, CallFails
<1>6. CASE UNCHANGED vars \/ LockExpires
  BY <1>1, <1>6 DEF vars, LockExpires, KeepRows
<1>7. QED
  BY <1>1, <1>2, <1>3, <1>4, <1>5, <1>6 DEF Next

LEMMA InvStep == Inv /\ [Next]_vars => Inv'
<1> SUFFICES ASSUME Inv, [Next]_vars PROVE Inv'
  OBVIOUS
<1>1. RunInv /\ RowsInv /\ CountInv
  BY DEF Inv, RestInv
<1>2. RowsInv'
  <2>1. CASE \E p \in Procs : InsertImage(p)
    BY <1>1, <2>1, InsertFacts
  <2>2. CASE \E p \in Procs : CreateTarget(p)
    BY <1>1, <2>2, CreateTargetFacts
  <2>3. QED
    BY <1>1, <2>1, <2>2, StepRows DEF Fewer
<1>3. QED
  BY <1>1, <1>2, RunStep, RegStep, CountStep DEF Inv, RestInv

(* The rows, runs and requests of the inventory are well formed: a process  *)
(* that is to insert an image or to write a registry knows which.           *)
THEOREM InventoryTypeCorrect == Spec => []TypeOK
BY InitInv, InvStep, InvTypeOK, PTL DEF Spec

(* The type and the credentials of the stored registry row have passed      *)
(* TestConnection together: updateRegistry of api/server.go merges the      *)
(* fields that a request names with a row that other updates replace before *)
(* it writes, and would store a pair that was never tested if it wrote only *)
(* what it was given.                                                       *)
THEOREM StoredWasTestedCorrect == Spec => []StoredWasTested
<1>1. Inv => StoredWasTested
  BY DEF Inv, RestInv, RegInv
<1>2. QED
  BY <1>1, InitInv, InvStep, PTL DEF Spec

-----------------------------------------------------------------------------
(* How many rows and targets there are. *)

LEMMA WorkersFinite ==
    ASSUME Inv
    PROVE  /\ IsFiniteSet(Workers) /\ Cardinality(Workers) \in Nat
           /\ \A ref : Inserters(ref) \subseteq Workers
           /\ IsFiniteSet(Clients) /\ Cardinality(Clients) \in Nat
           /\ Creators \subseteq Clients
<1>1. scene.replicas \subseteq Replicas
  BY SceneFacts DEF Inv, RestInv, CountInv
<1>2. IsFiniteSet(Workers)
  BY <1>1, InventoryAssumption, FS_Subset, FS_Union DEF Workers
<1>3. \A ref : Inserters(ref) \subseteq Workers
  BY RecordFacts DEF Inv, Inserters, At, WellFormed
<1>4. QED
  BY <1>2, <1>3, InventoryAssumption, FS_CardinalityType DEF Creators

(* A set that has not grown has no more members. *)
LEMMA SubsetCard ==
    ASSUME NEW S, NEW T, IsFiniteSet(T), S \subseteq T
    PROVE  IsFiniteSet(S) /\ Cardinality(S) \in Nat /\ Cardinality(S) <= Cardinality(T)
BY FS_Subset, FS_CardinalityType

LEMMA DuplicatesStep == Inv /\ DuplicateRowsBounded /\ [Next]_vars => DuplicateRowsBounded'
<1> SUFFICES ASSUME Inv, DuplicateRowsBounded, [Next]_vars, NEW ref \in Refs
             PROVE  (rows[ref] + Cardinality(Inserters(ref)) <= Cardinality(Workers))'
  BY DEF DuplicateRowsBounded
<1> DEFINE old == Inserters(ref)
           new == Inserters(ref)'
           all == Cardinality(Workers)
<1>1. Inv' /\ RunInv /\ RowsInv /\ RowsInv'
  BY InvStep DEF Inv, RestInv
<1>2. Workers' = Workers
  <2>1. scene' = scene
    BY SyncSame, RequestSame, NewRequestSame
       DEF Next, vars, Push, Remove, RunJob, LockExpires, CallFails
  <2>2. QED
    BY <2>1 DEF Workers
<1>3. /\ IsFiniteSet(Workers) /\ all \in Nat
      /\ old \subseteq Workers /\ new \subseteq Workers
  <2>1. old \subseteq Workers /\ IsFiniteSet(Workers) /\ all \in Nat
    BY WorkersFinite
  <2>2. new \subseteq Workers'
    BY <1>1 DEF Inv, RunInv, Inserters, At, WellFormed
  <2>3. QED
    BY <1>2, <2>1, <2>2
<1>4. /\ rows[ref] \in Nat /\ rows'[ref] \in Nat
      /\ rows[ref] + Cardinality(old) <= all
  BY <1>1 DEF RowsInv, DuplicateRowsBounded
<1>5. /\ IsFiniteSet(old) /\ Cardinality(old) \in Nat
      /\ IsFiniteSet(new) /\ Cardinality(new) \in Nat /\ Cardinality(new) <= all
  BY <1>3, SubsetCard
<1>6. ASSUME rows'[ref] <= rows[ref], new \subseteq old
      PROVE  rows'[ref] + Cardinality(new) <= all
  <2>1. Cardinality(new) <= Cardinality(old)
    BY <1>5, <1>6, SubsetCard
  <2>2. QED
    BY <1>2, <1>3, <1>4, <1>5, <1>6, <2>1
<1>7. (\A q \in Procs : Stays(q)) => new \subseteq old
  BY DEF Inserters, At, Stays
<1>8. ASSUME NEW p \in Procs, InsertImage(p), run[p].ref = ref
      PROVE  rows'[ref] + Cardinality(new) <= all
  <2>1. p \in old /\ rows'[ref] = rows[ref] + 1
    BY <1>1, <1>8, InsertFacts DEF Inserters, InsertImage
  <2>2. \A q \in Procs : Stays(q)
    BY <1>1, <1>8, SyncStays DEF SyncStep, InsertImage, SelectImage, At
  <2>3. p \notin new
    <3>1. run[p] \in Run
      BY <1>1, RecordFacts
    <3>2. run'[p] = [run[p] EXCEPT !.pc = "upsert", !.ref = None]
      BY <1>1, <1>8 DEF InsertImage, Go, RunInv
    <3>3. run'[p].pc = "upsert"
      BY <3>1, <3>2 DEF Run
    <3>4. QED
      BY <3>3 DEF Inserters, At
  <2>4. new \subseteq old \ {p}
    BY <1>7, <2>2, <2>3
  <2>5. Cardinality(old \ {p}) = Cardinality(old) - 1 /\ IsFiniteSet(old \ {p})
    BY <1>5, <2>1, FS_RemoveElement
  <2>6. Cardinality(new) <= Cardinality(old) - 1
    BY <2>4, <2>5, SubsetCard
  <2>7. QED
    BY <1>3, <1>4, <1>5, <2>1, <2>6
<1>9. ASSUME NEW p \in Procs, SelectImage(p)
      PROVE  rows'[ref] + Cardinality(new) <= all
  <2>1. rows' = rows
    BY <1>9 DEF SelectImage, KeepRows
  <2>2. CASE rows[ref] = 0
    BY <1>3, <1>5, <2>1, <2>2
  <2>3. CASE rows[ref] # 0
    <3>1. PICK r \in run[p].todo :
              Go(p, IF NoLiveRow(r)
                    THEN [run[p] EXCEPT !.pc = "insert", !.todo = @ \ {r}, !.ref = r]
                    ELSE [run[p] EXCEPT !.todo = @ \ {r}])
      BY <1>9 DEF SelectImage
    <3>2. run[p] \in Run /\ run[p].pc = "upsert"
      BY <1>1, <1>9, RecordFacts DEF SelectImage, At
    <3>3. \A q \in Procs \ {p} : run'[q] = run[q]
      BY <3>1 DEF Go, RunInv
    <3>4. p \notin new
      <4>1. CASE NoLiveRow(r)
        <5>1. run'[p] = [run[p] EXCEPT !.pc = "insert", !.todo = @ \ {r}, !.ref = r]
          BY <1>1, <3>1, <4>1 DEF Go, RunInv
        <5>2. run'[p].ref = r /\ r # ref
          BY <2>3, <3>2, <4>1, <5>1 DEF Run, NoLiveRow
        <5>3. QED
          BY <5>2 DEF Inserters
      <4>2. CASE ~ NoLiveRow(r)
        <5>1. run'[p] = [run[p] EXCEPT !.todo = @ \ {r}]
          BY <1>1, <3>1, <4>2 DEF Go, RunInv
        <5>2. run'[p].pc = "upsert"
          BY <3>2, <5>1 DEF Run
        <5>3. QED
          BY <5>2 DEF Inserters, At
      <4>3. QED
        BY <4>1, <4>2
    <3>5. new \subseteq old
      BY <3>3, <3>4 DEF Inserters, At
    <3>6. QED
      BY <1>4, <1>6, <2>1, <3>5
  <2>4. QED
    BY <2>2, <2>3
<1>10. ASSUME NEW p \in Procs, TargetExists(p) \/ CreateTarget(p)
       PROVE  rows'[ref] + Cardinality(new) <= all
  <2>1. rows' = rows
    BY <1>10 DEF TargetExists, CreateTarget, KeepRows
  <2>2. run[p] \in Run /\ run[p].pc \in {"exists", "target"}
    BY <1>1, <1>10, RecordFacts DEF TargetExists, CreateTarget, At
  <2>3. /\ run'[p] = Idle \/ run'[p] = [run[p] EXCEPT !.pc = "target"]
        /\ \A q \in Procs \ {p} : run'[q] = run[q]
    BY <1>1, <1>10 DEF TargetExists, CreateTarget, Done, Go, RunInv
  <2>4. run'[p].pc # "insert"
    BY <2>2, <2>3, IdleFacts DEF Run
  <2>5. new \subseteq old
    BY <2>3, <2>4 DEF Inserters, At
  <2>6. QED
    BY <1>4, <1>6, <2>1, <2>5
<1>11. ASSUME \A p \in Procs : ~ InsertImage(p) /\ ~ SelectImage(p) /\ ~ TargetExists(p)
                                 /\ ~ CreateTarget(p)
       PROVE  rows'[ref] + Cardinality(new) <= all
  <2>1. Fewer
    BY <1>1, <1>11, StepRows
  <2>2. \A q \in Procs : Stays(q)
    <3>1. CASE UNCHANGED vars
      BY <3>1 DEF vars, Stays
    <3>2. CASE Next
      BY <1>1, <1>11, <3>2, SyncStays, RequestStays, CallFailsStays, RegistryStays DEF Next
    <3>3. QED
      BY <3>1, <3>2
  <2>3. QED
    BY <1>4, <1>6, <1>7, <2>1, <2>2 DEF Fewer
<1>12. ASSUME NEW p \in Procs, InsertImage(p), run[p].ref # ref
       PROVE  rows'[ref] + Cardinality(new) <= all
  <2>1. rows'[ref] = rows[ref]
    BY <1>1, <1>12, InsertFacts
  <2>2. \A q \in Procs : Stays(q)
    BY <1>1, <1>12, SyncStays DEF SyncStep, InsertImage, SelectImage, At
  <2>3. QED
    BY <1>4, <1>6, <1>7, <2>1, <2>2
<1>13. rows'[ref] + Cardinality(new) <= all
  BY <1>8, <1>9, <1>10, <1>11, <1>12
<1>14. QED
  BY <1>2, <1>13

(* UpsertImage of registries_store.go looks before it inserts, in two        *)
(* statements: no reference ever has more live rows than there are processes *)
(* that insert, for any number of them.                                      *)
THEOREM DuplicateRowsCorrect == Spec => []DuplicateRowsBounded
<1> DEFINE I == Inv /\ DuplicateRowsBounded
<1>1. Init => I
  <2> SUFFICES ASSUME Init, NEW ref \in Refs
               PROVE  rows[ref] + Cardinality(Inserters(ref)) <= Cardinality(Workers)
    BY InitInv DEF DuplicateRowsBounded
  <2>1. rows[ref] = 0 /\ Inserters(ref) = {}
    BY IdleFacts DEF Init, Inserters, At
  <2>2. Cardinality(Workers) \in Nat
    BY InitInv, WorkersFinite
  <2>3. QED
    BY <2>1, <2>2, FS_EmptySet
<1>2. I /\ [Next]_vars => I'
  BY InvStep, DuplicatesStep
<1>3. QED
  BY <1>1, <1>2, PTL DEF Spec

LEMMA TargetsStep == Inv /\ TargetsBounded /\ [Next]_vars => TargetsBounded'
<1> SUFFICES ASSUME Inv, TargetsBounded, [Next]_vars PROVE TargetsBounded'
  OBVIOUS
<1> DEFINE new == Creators'
           all == Cardinality(Clients)
<1>1. Inv' /\ RunInv /\ RowsInv /\ RowsInv'
  BY InvStep DEF Inv, RestInv
<1>2. /\ IsFiniteSet(Clients) /\ all \in Nat
      /\ Creators \subseteq Clients /\ new \subseteq Clients
  BY WorkersFinite DEF Creators
<1>3. /\ watched.targets \in Nat /\ watched'.targets \in Nat
      /\ watched.targets + Cardinality(Creators) <= all
  BY <1>1 DEF RowsInv, TargetsBounded
<1>4. /\ IsFiniteSet(Creators) /\ Cardinality(Creators) \in Nat
      /\ IsFiniteSet(new) /\ Cardinality(new) \in Nat /\ Cardinality(new) <= all
  BY <1>2, SubsetCard
<1>5. ASSUME watched'.targets <= watched.targets, new \subseteq Creators
      PROVE  watched'.targets + Cardinality(new) <= all
  <2>1. Cardinality(new) <= Cardinality(Creators)
    BY <1>4, <1>5, SubsetCard
  <2>2. QED
    BY <1>2, <1>3, <1>4, <1>5, <2>1
<1>6. (\A q \in Procs : Stays(q)) => new \subseteq Creators
  BY DEF Creators, At, Stays, Procs
<1>7. ASSUME NEW p \in Procs, CreateTarget(p)
      PROVE  watched'.targets + Cardinality(new) <= all
  <2>1. p \in Creators /\ watched'.targets = watched.targets + 1
    BY <1>1, <1>7, CreateTargetFacts, RecordFacts
       DEF Creators, CreateTarget, At, WellFormed
  <2>2. run'[p] = Idle /\ \A q \in Procs \ {p} : run'[q] = run[q]
    BY <1>1, <1>7 DEF CreateTarget, Done, Go, RunInv
  <2>3. new \subseteq Creators \ {p}
    BY <2>2, IdleFacts DEF Creators, At, Procs
  <2>4. Cardinality(Creators \ {p}) = Cardinality(Creators) - 1 /\ IsFiniteSet(Creators \ {p})
    BY <1>4, <2>1, FS_RemoveElement
  <2>5. Cardinality(new) <= Cardinality(Creators) - 1
    BY <2>3, <2>4, SubsetCard
  <2>6. QED
    BY <1>2, <1>3, <1>4, <2>1, <2>5
<1>8. ASSUME NEW p \in Procs, TargetExists(p)
      PROVE  watched'.targets + Cardinality(new) <= all
  <2>1. watched' = watched
    BY <1>8 DEF TargetExists, KeepRows
  <2>2. CASE watched.targets = 0
    BY <1>2, <1>4, <2>1, <2>2
  <2>3. CASE watched.targets # 0
    <3>1. Monitored
      BY <1>3, <2>3 DEF Monitored
    <3>2. run'[p] = Idle /\ \A q \in Procs \ {p} : run'[q] = run[q]
      BY <1>1, <1>8, <3>1 DEF TargetExists, Go, RunInv
    <3>3. new \subseteq Creators
      BY <3>2, IdleFacts DEF Creators, At, Procs
    <3>4. QED
      BY <1>3, <1>5, <2>1, <3>3
  <2>4. QED
    BY <2>2, <2>3
<1>9. ASSUME NEW p \in Procs, SelectImage(p) \/ InsertImage(p)
      PROVE  watched'.targets + Cardinality(new) <= all
  <2>1. watched' = watched
    BY <1>9 DEF SelectImage, InsertImage, KeepRows
  <2>2. run[p] \in Run
    BY <1>1, RecordFacts
  <2>3. PICK r : Go(p, r) /\ r.pc # "target"
    <3>1. CASE InsertImage(p)
      <4>1. [run[p] EXCEPT !.pc = "upsert", !.ref = None].pc = "upsert"
        BY <2>2 DEF Run
      <4>2. QED
        BY <3>1, <4>1 DEF InsertImage
    <3>2. CASE SelectImage(p)
      <4>1. PICK ref \in run[p].todo :
                Go(p, IF NoLiveRow(ref)
                      THEN [run[p] EXCEPT !.pc = "insert", !.todo = @ \ {ref}, !.ref = ref]
                      ELSE [run[p] EXCEPT !.todo = @ \ {ref}])
        BY <3>2 DEF SelectImage
      <4>2. [run[p] EXCEPT !.pc = "insert", !.todo = @ \ {ref}, !.ref = ref].pc = "insert"
        BY <2>2 DEF Run
      <4>3. [run[p] EXCEPT !.todo = @ \ {ref}].pc = "upsert"
        BY <2>2, <3>2 DEF Run, SelectImage, At
      <4>4. QED
        BY <4>1, <4>2, <4>3
    <3>3. QED
      BY <1>9, <3>1, <3>2
  <2>4. run'[p] = r /\ \A q \in Procs \ {p} : run'[q] = run[q]
    BY <1>1, <2>3 DEF Go, RunInv
  <2>5. new \subseteq Creators
    BY <2>3, <2>4 DEF Creators, At, Procs
  <2>6. QED
    BY <1>3, <1>5, <2>1, <2>5
<1>10. ASSUME \A p \in Procs : ~ InsertImage(p) /\ ~ SelectImage(p) /\ ~ TargetExists(p)
                                 /\ ~ CreateTarget(p)
       PROVE  watched'.targets + Cardinality(new) <= all
  <2>1. Fewer
    BY <1>1, <1>10, StepRows
  <2>2. \A q \in Procs : Stays(q)
    <3>1. CASE UNCHANGED vars
      BY <3>1 DEF vars, Stays
    <3>2. CASE Next
      BY <1>1, <1>10, <3>2, SyncStays, RequestStays, CallFailsStays, RegistryStays DEF Next
    <3>3. QED
      BY <3>1, <3>2
  <2>3. QED
    BY <1>5, <1>6, <2>1, <2>2 DEF Fewer
<1>11. watched'.targets + Cardinality(new) <= all
  BY <1>7, <1>8, <1>9, <1>10
<1>12. QED
  BY <1>11 DEF TargetsBounded

(* createTarget of handlers_targets.go looks before it inserts: an image has *)
(* no more live targets than requests are served at a time, though the image *)
(* and its targets are deleted between the two.                              *)
THEOREM TargetsCorrect == Spec => []TargetsBounded
<1> DEFINE I == Inv /\ TargetsBounded
<1>1. Init => I
  <2> SUFFICES ASSUME Init PROVE watched.targets + Cardinality(Creators) <= Cardinality(Clients)
    BY InitInv DEF TargetsBounded
  <2>1. watched.targets = 0 /\ Creators = {}
    BY IdleFacts DEF Init, Creators, At, Procs
  <2>2. Cardinality(Clients) \in Nat
    BY InitInv, WorkersFinite
  <2>3. QED
    BY <2>1, <2>2, FS_EmptySet
<1>2. I /\ [Next]_vars => I'
  BY InvStep, TargetsStep
<1>3. QED
  BY <1>1, <1>2, PTL DEF Spec

-----------------------------------------------------------------------------
(* What a sync deletes.                                                      *)

LEMMA PresentStep ==
    ASSUME Inv, [Next]_vars, NEW ref \in Refs, rows'[ref] < rows[ref], requests' = requests
    PROVE  \E p \in Replicas : run'[p] # run[p] /\ ref \notin run[p].kept
<1>1. RunInv /\ RowsInv /\ rows[ref] \in Nat /\ requests \in Nat
  BY SceneFacts DEF Inv, RestInv, RowsInv, CountInv
<1>2. ASSUME rows' = rows PROVE FALSE
  BY <1>1, <1>2
<1>3. PICK p \in Procs : \/ SoftDeleteImageTagsNotIn(p)
                         \/ SoftDeleteImagesForRepositoriesNotIn(p)
  <2>1. ~ \E p \in Procs : NewRequest(p)
    BY <1>1, NewRequestSame
  <2>2. ~ \E p \in Procs : RequestStep(p) \/ RunJob(p) \/ CallFails(p)
    BY <1>2 DEF RequestStep, UpsertedOne, CreateRegistry, UpdateRegistry, TargetExists,
                CreateTarget, RunJob, CallFails, KeepRows
  <2>3. ~ \E p \in Procs : InsertImage(p)
    BY <1>1, InsertFacts
  <2>4. ~ \E p \in Procs : \/ NoCatalog(p) \/ ListRepositories(p) \/ NextRepository(p) \/ ListTags(p)
                           \/ SelectImage(p) \/ KeepTags(p)
    BY <1>2 DEF NoCatalog, ListRepositories, NextRepository, ListTags, SelectImage, KeepTags,
                KeepRows
  <2>5. ~ LockExpires /\ ~ UNCHANGED vars /\ ~ \E r \in Refs : Push(r) \/ Remove(r)
    BY <1>2 DEF LockExpires, vars, Push, Remove, KeepRows
  <2>6. QED
    BY <2>1, <2>2, <2>3, <2>4, <2>5 DEF Next, SyncStep
<1>4. run[p] \in Run /\ WellFormed(p, run[p]) /\ Keeps(run[p])
  BY <1>1, RecordFacts
<1>5. CASE SoftDeleteImageTagsNotIn(p)
  <2>1. run[p].pc = "upsert" /\ run[p].job = "task"
    BY <1>5 DEF SoftDeleteImageTagsNotIn, Upserted, At
  <2>2. ref \in StaleTags(p)
    BY <1>1, <1>5, DeleteRowsFacts DEF SoftDeleteImageTagsNotIn, StaleTags, Of
  <2>3. ref \notin run[p].kept
    BY <1>4, <2>1, <2>2 DEF Keeps, StaleTags
  <2>4. run'[p] = NextLoop(p)
    BY <1>1, <1>5 DEF SoftDeleteImageTagsNotIn, Go, RunInv
  <2>5. run'[p].pc = "loop"
    BY <1>1, <2>1, <2>4, NextLoopRecord
  <2>6. QED
    BY <1>4, <2>1, <2>3, <2>5 DEF WellFormed
<1>6. CASE SoftDeleteImagesForRepositoriesNotIn(p)
  <2> DEFINE gone == {r \in Refs : RepoOf(r) \notin run[p].listed}
  <2>1. run[p].pc = "loop" /\ run'[p] = Idle
    BY <1>1, <1>6 DEF SoftDeleteImagesForRepositoriesNotIn, At, Done, Go, RunInv
  <2>2. run[p].job = "task" /\ DeleteRows(gone)
    BY <1>2, <1>6 DEF SoftDeleteImagesForRepositoriesNotIn, KeepRows
  <2>3. ref \in gone
    BY <1>1, <2>2, DeleteRowsFacts
  <2>4. ref \notin run[p].kept
    BY <1>4, <2>1, <2>3 DEF Keeps
  <2>5. QED
    BY <1>4, <2>1, <2>2, <2>4, IdleFacts DEF WellFormed
<1>7. QED
  BY <1>3, <1>5, <1>6

(* runRegistrySync of scheduler/tasks.go deletes no image whose tag has been *)
(* served ever since its run began: whatever lists fail, syncs overlap and   *)
(* others insert or delete.                                                  *)
THEOREM PresentImageKeptCorrect == Spec => PresentImageKept
<1>1. Inv /\ [Next]_vars =>
          [\A ref \in Refs :
               rows'[ref] < rows[ref] /\ requests' = requests =>
                   \E p \in Replicas : run'[p] # run[p] /\ ref \notin run[p].kept]_vars
  BY PresentStep
<1>2. QED
  BY <1>1, InitInv, InvStep, PTL DEF Spec, PresentImageKept

-----------------------------------------------------------------------------
(* The lock of a task and its longest run.                                   *)

(* A run that is cut off by jobTimeoutFor of tasks.go may still go on when   *)
(* the lock that lockTTLForInterval of lock.go gave it has expired, exactly  *)
(* if the interval is below 8000 seconds: at the intervals that are the      *)
(* default too, then, a second replica may start beside it.                  *)
THEOREM LockOutlived ==
    ASSUME NEW interval \in Nat \ {0}
    PROVE  OutlivesLock(interval) <=> interval < 8000
BY Z3 DEF OutlivesLock, tryLockTTL, lockTTLForInterval, jobTimeoutFor, Minute, Hour
=============================================================================
