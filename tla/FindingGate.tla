---------------------------- MODULE FindingGate ----------------------------
(***************************************************************************)
(* From the findings of a scan to the exit code of vullify-cli scan.  The  *)
(* worker stores the findings and publishes an event; the enricher, if it  *)
(* listens, adds EPSS scores and whether CISA's catalogue (KEV) lists the  *)
(* CVE; users suppress findings; the client waits for the scan, reads its  *)
(* findings in pages and each of them again, and applies its policy.  None *)
(* of them waits for another, except the client for the scan.              *)
(*                                                                         *)
(* Sources: internal/worker/runner.go, internal/db/persist_scan.go,        *)
(* repository.go, suppressions_store.go, scans_api_store.go,               *)
(* findings_api_store.go and dashboard_store.go (suppressionFilter),       *)
(* internal/enrichment, internal/api/handlers_suppressions.go and          *)
(* handlers_findings.go, internal/cli/scan.go, client.go and severity.go.  *)
(***************************************************************************)
EXTENDS Integers, Sequences, FiniteSets

CONSTANTS
    Scans, Images,
    ImageOf,    \* ImageOf[s]: the image of a scan
    Vulns,      \* what Trivy may report: records of a CVE, package, severity
    Rules,      \* suppressions: a CVE, package and image, any of them Any
    Any,
    Exploited,  \* CVEs that the catalogue has listed all along
    FailOn,     \* rank of --fail-on
    PerPage,    \* findings in a page
    Attempts,   \* of a job
    Buffer,     \* events that a subscription holds
    Scenes      \* bounds: what comes together in a behaviour

severityRank == [unknown |-> 1, low |-> 2, medium |-> 3, high |-> 4, critical |-> 5]
CVEs == {v.cve : v \in Vulns}

\* The scans that were sent to the worker, the one the client waits for, what
\* they find, whether its policy needs enrichments, the rules users may set,
\* and how many changes and failures there may be.
Scene == [scans : SUBSET Scans, gate : Scans, found : SUBSET Vulns, kev : BOOLEAN,
          rules : SUBSET Rules, changes : Nat, faults : Nat]

ASSUME GateAssumption ==
    /\ ImageOf \in [Scans -> Images]
    /\ Vulns \subseteq [cve : CVEs, pkg : {v.pkg : v \in Vulns}, severity : DOMAIN severityRank]
    /\ IsFiniteSet(Vulns)
    /\ Exploited \subseteq CVEs
    /\ PerPage \in Nat \ {0} /\ Attempts \in Nat \ {0} /\ Buffer \in Nat
    /\ \A sc \in Scenes : sc \in Scene /\ sc.gate \in sc.scans

VARIABLES
    scans,     \* the row of each scan, its job, and what was stored of it
    live,      \* images that are not deleted
    rules,     \* of each rule whether it is absent, active or expired
    enriched,  \* rows of enrichments, by finding
    events,    \* events on their way to the enricher
    enr,       \* the enricher
    kev,       \* the catalogue, as it is served and as Redis has it
    lost,      \* whether some work of the enricher was lost
    gate,      \* the client
    scene, changes, faults

vars == <<scans, live, rules, enriched, events, enr, kev, lost, gate, scene, changes, faults>>

\* A finding: each time a scan is stored, its findings get new ids.
FindingsOf(s) == {<<s, scans[s].version, v>> : v \in scans[s].vulns}
Findings == UNION {FindingsOf(s) : s \in Scans}
ScanOf(f) == f[1]
Vuln(f) == f[3]

Init ==
    /\ scene \in Scenes
    /\ scans = [s \in Scans |->
                  [status |-> "pending", version |-> 0, vulns |-> {}, tries |-> 0,
                   job |-> IF s \in scene.scans THEN "waiting" ELSE "closed"]]
    /\ live = Images
    /\ rules = [r \in Rules |-> "absent"]
    /\ enriched = <<>>
    /\ events = <<>>
    /\ enr = [pc |-> "idle", todo |-> {}, scored |-> {}, listed |-> {}, sound |-> FALSE]
    /\ kev = [feed |-> "good", cache |-> "none", tainted |-> FALSE]
    /\ lost = FALSE
    /\ gate = [pc |-> "poll", count |-> 0, total |-> 0, got |-> {}, todo |-> {}, read |-> {},
               shown |-> {}, hidden |-> {}, flagged |-> {}]
    /\ changes = 0 /\ faults = 0

Fault == faults < scene.faults /\ faults' = faults + 1
Change == changes < scene.changes /\ changes' = changes + 1

-----------------------------------------------------------------------------
(* Suppressions and what the queries show *)

Matches(r, f) ==
    /\ r.cve \in {Any, Vuln(f).cve} /\ r.pkg \in {Any, Vuln(f).pkg}
    /\ r.image \in {Any, ImageOf[ScanOf(f)]}

\* suppressionFilter, for some state of the rules.
Suppressed(f, state) == \E r \in Rules : state[r] = "active" /\ Matches(r, f)

\* Mutated form of ListFindingsForScan: the filter is left out.
ListFindings(s) == FindingsOf(s)

ListFindingsForScan(s) == {f \in FindingsOf(s) : ~ Suppressed(f, rules)}

Live(f) == ImageOf[ScanOf(f)] \in live

KEVListed(f) == f \in DOMAIN enriched /\ enriched[f].kev

\* GET /findings/:id finds the finding.
GetFindingDetail(f) == f \in Findings /\ Live(f) /\ ~ Suppressed(f, rules)

\* The client's history: which findings were shown, which suppressed and which
\* known to be listed ever since the scan was completed.
Watch(state) ==
    gate' = [gate EXCEPT !.shown = {f \in @ : ~ Suppressed(f, state)},
                         !.hidden = {f \in @ : Suppressed(f, state)}]

SetRule(r, old, new) ==
    /\ Change /\ r \in scene.rules /\ rules[r] \in old
    /\ rules' = [rules EXCEPT ![r] = new]
    /\ Watch(rules')
    /\ UNCHANGED <<scans, live, enriched, events, enr, kev, lost, scene, faults>>

CreateSuppression(r) == \E new \in {"active", "expired"} : SetRule(r, {"absent"}, new)

\* Its expiry; it can be moved but not taken away.
UpdateSuppression(r) == SetRule(r, {"expired"}, "active") \/ SetRule(r, {"active"}, "expired")
DeleteSuppression(r) == SetRule(r, {"active", "expired"}, "absent")

DeleteImage(i) ==
    /\ Change /\ i \in {ImageOf[s] : s \in scene.scans} /\ i \in live /\ live' = live \ {i}
    /\ UNCHANGED <<scans, rules, enriched, events, enr, kev, lost, gate, scene, faults>>

-----------------------------------------------------------------------------
(* The worker *)

WorkerStep == UNCHANGED <<live, rules, enr, kev, scene, changes>>

Start(s) ==
    /\ scans[s].job = "waiting"
    /\ scans' = [scans EXCEPT ![s].job = "working", ![s].status = "running", ![s].tries = @ + 1]
    /\ UNCHANGED <<enriched, events, lost, gate, faults>> /\ WorkerStep

\* Mutated form of Kept: enrichments outlive their findings.
AllKept(s) == {f \in DOMAIN enriched : ScanOf(f) \in Scans}

Kept(s) == {f \in DOMAIN enriched : ScanOf(f) # s}

\* Deletes what was stored before, enrichments with it, and completes the scan
\* in one transaction.  Should the answer to the commit be lost, the worker
\* takes it to have failed.
PersistScanResults(s) ==
    /\ scans[s].job = "working"
    /\ \E job \in {"publish", "failing"} :
           /\ IF job = "failing" THEN Fault ELSE UNCHANGED faults
           /\ scans' = [scans EXCEPT ![s] = [@ EXCEPT !.status = "completed", !.job = job,
                                             !.version = scans[s].version + 1,
                                             !.vulns = scene.found]]
    /\ enriched' = [f \in Kept(s) |-> enriched[f]]
    /\ gate' = [gate EXCEPT !.shown = {f \in @ : ScanOf(f) # s}]
    /\ UNCHANGED <<events, lost>> /\ WorkerStep

\* Only who listens gets the event, and only if it is not too far behind.
publishScanEvent(s) ==
    /\ scans[s].job = "publish"
    /\ scans' = [scans EXCEPT ![s].job = "closed"]
    /\ \/ /\ enr.pc # "away" /\ events' = Append(events, s)
          /\ UNCHANGED <<lost, faults>>
       \/ /\ enr.pc = "away" \/ Len(events) >= Buffer
          /\ lost' = TRUE /\ UNCHANGED <<events, faults>>
       \/ Fault /\ lost' = TRUE /\ UNCHANGED events
    /\ UNCHANGED <<enriched, gate>> /\ WorkerStep

AttemptLeft(s) == scans[s].tries < Attempts

\* The scan fails; an image that cannot be pulled is not tried again.  The
\* event of a failure is of no interest to the enricher.
Fail(s) ==
    /\ \/ scans[s].job = "failing" /\ UNCHANGED faults
       \/ scans[s].job = "working" /\ Fault
    /\ \E job \in {"waiting", "closed"} :
           /\ job = "waiting" => AttemptLeft(s)
           /\ scans[s].job = "failing" /\ AttemptLeft(s) => job = "waiting"
           /\ scans' = [scans EXCEPT ![s].status = "failed", ![s].job = job]
    /\ UNCHANGED <<enriched, events, lost, gate>> /\ WorkerStep

\* The worker stops and its job is gone.
LoseJob(s) ==
    /\ Fault /\ scans[s].job # "closed"
    /\ scans' = [scans EXCEPT ![s].job = "closed"]
    /\ lost' = (lost \/ scans[s].status = "completed")
    /\ UNCHANGED <<enriched, events, gate>> /\ WorkerStep

\* A push whose answer was lost was repeated: the job is in the list again.
Redeliver(s) ==
    /\ Fault /\ s \in scene.scans /\ scans[s].job = "closed"
    /\ scans' = [scans EXCEPT ![s].job = "waiting", ![s].tries = 0]
    /\ UNCHANGED <<enriched, events, lost, gate>> /\ WorkerStep

CancelScan(s) ==
    /\ Change /\ s \in scene.scans /\ scans[s].status \in {"pending", "running"}
    /\ scans' = [scans EXCEPT ![s].status = "cancelled"]
    /\ UNCHANGED <<live, rules, enriched, events, enr, kev, lost, gate, scene, faults>>

-----------------------------------------------------------------------------
(* The enricher *)

EnricherStep == UNCHANGED <<scans, live, rules, gate, scene, changes>>

\* Mutated form of ListFindingsByScan: what is suppressed is not enriched.
ListShownFindings(s) == {f \in FindingsOf(s) : ~ Suppressed(f, rules)}

ListFindingsByScan(s) == FindingsOf(s)

\* The next event; events of scans without findings end here.
EnrichScan ==
    /\ enr.pc = "idle" /\ events # <<>>
    /\ events' = Tail(events)
    /\ LET findings == ListFindingsByScan(Head(events)) IN
       \/ /\ enr' = [enr EXCEPT !.pc = IF findings = {} THEN "idle" ELSE "epss",
                                !.todo = findings,
                                !.sound = kev.feed = "good" /\ ~ kev.tainted]
          /\ UNCHANGED <<lost, faults>>
       \/ Fault /\ lost' = TRUE /\ UNCHANGED enr
    /\ UNCHANGED <<enriched, kev>> /\ EnricherStep

\* Batches that fail are left out.
fetchEPSSBatched ==
    /\ enr.pc = "epss"
    /\ LET asked == {Vuln(f).cve : f \in enr.todo} IN
       \/ enr' = [enr EXCEPT !.pc = "kev", !.scored = asked] /\ UNCHANGED faults
       \/ Fault /\ \E some \in SUBSET asked \ {asked} :
                       enr' = [enr EXCEPT !.pc = "kev", !.scored = some]
    /\ UNCHANGED <<enriched, events, kev, lost>> /\ EnricherStep

\* Mutated form of Cacheable: also the page of an error.
AnyAnswer(answer) == answer # "none"

\* Whatever comes with status 2xx, before it is parsed.
Cacheable(answer) == answer \in {"good", "malformed"}

\* Redis first; a catalogue that cannot be had or parsed lists nothing.
loadKEVCatalog ==
    /\ enr.pc = "kev"
    /\ LET answer == IF kev.cache # "none" THEN kev.cache ELSE kev.feed IN
       /\ enr' = [enr EXCEPT !.pc = "upsert",
                             !.listed = IF answer = "good" THEN Exploited ELSE {}]
       /\ kev' = [kev EXCEPT !.cache = IF ~ Cacheable(answer) THEN @
                                       ELSE IF answer = "good" THEN "good" ELSE "malformed"]
    /\ UNCHANGED <<enriched, events, lost, faults>> /\ EnricherStep

\* Fails also if the finding has gone.  What was stored before is overwritten,
\* by a run that knows less too.
Upsert(f) ==
    /\ enr.pc = "upsert" /\ f \in enr.todo
    /\ enr' = [enr EXCEPT !.todo = @ \ {f}]
    /\ \/ /\ f \in Findings
          /\ enriched' = [g \in DOMAIN enriched \cup {f} |->
                            IF g = f THEN [kev |-> Vuln(f).cve \in enr.listed,
                                           epss |-> Vuln(f).cve \in enr.scored,
                                           sound |-> enr.sound]
                            ELSE enriched[g]]
          /\ gate' = [gate EXCEPT !.flagged =
                         IF Vuln(f).cve \in enr.listed THEN @ ELSE @ \ {f}]
          /\ UNCHANGED <<lost, faults>>
       \/ f \notin Findings /\ UNCHANGED <<enriched, gate, lost, faults>>
       \/ Fault /\ lost' = TRUE /\ UNCHANGED <<enriched, gate>>
    /\ UNCHANGED <<scans, live, rules, events, kev, scene, changes>>

Enriched ==
    /\ enr.pc = "upsert" /\ enr.todo = {}
    /\ enr' = [enr EXCEPT !.pc = "idle", !.scored = {}, !.listed = {}, !.sound = FALSE]
    /\ UNCHANGED <<enriched, events, kev, lost, faults>> /\ EnricherStep

\* What it has not done by then is lost, and so is what comes meanwhile.
EnricherStops ==
    /\ Fault /\ enr.pc # "away"
    /\ lost' = (lost \/ enr.pc # "idle" \/ events # <<>>)
    /\ enr' = [pc |-> "away", todo |-> {}, scored |-> {}, listed |-> {}, sound |-> FALSE]
    /\ events' = <<>>
    /\ UNCHANGED <<enriched, kev>> /\ EnricherStep

EnricherStarts ==
    /\ enr.pc = "away" /\ enr' = [enr EXCEPT !.pc = "idle"]
    /\ UNCHANGED <<enriched, events, kev, lost, faults>> /\ EnricherStep

\* What CISA serves; tainted: a body that cannot be parsed may be in Redis.
FeedChanges ==
    /\ Change
    /\ \E feed \in {"good", "malformed", "down"} \ {kev.feed} :
           /\ kev' = [kev EXCEPT !.feed = feed,
                        !.tainted = feed = "malformed" \/ (@ /\ kev.cache # "none")]
           /\ enr' = [enr EXCEPT !.sound = @ /\ feed = "good"]
    /\ UNCHANGED <<scans, live, rules, enriched, events, lost, gate, scene, faults>>

\* After a day.
CacheExpires ==
    /\ kev.cache # "none"
    /\ kev' = [kev EXCEPT !.cache = "none", !.tainted = kev.feed = "malformed"]
    /\ UNCHANGED <<enriched, events, enr, lost, faults>> /\ EnricherStep

-----------------------------------------------------------------------------
(* The client *)

ClientStep == UNCHANGED <<scans, live, rules, enriched, events, enr, kev, lost, scene, changes>>

Mine == scene.gate

\* Mutated form of Terminal: a failed scan may yet be tried again.
Completed == {"completed"}

Terminal == {"completed", "failed"}

pollUntilDone ==
    /\ gate.pc = "poll" /\ scans[Mine].status \in Terminal
    /\ gate' = IF scans[Mine].status = "failed" THEN [gate EXCEPT !.pc = "failed"]
               ELSE [gate EXCEPT !.pc = "count",
                                 !.shown = {f \in FindingsOf(Mine) : ~ Suppressed(f, rules)},
                                 !.hidden = {f \in FindingsOf(Mine) : Suppressed(f, rules)},
                                 !.flagged = {f \in FindingsOf(Mine) : KEVListed(f)}]
    /\ UNCHANGED faults /\ ClientStep

\* The first statement of the query counts the findings ...
CountFindings ==
    /\ gate.pc = "count"
    /\ gate' = [gate EXCEPT !.pc = "page", !.total = Cardinality(ListFindingsForScan(Mine))]
    /\ UNCHANGED faults /\ ClientStep

\* Mutated form of Page: pages are numbered from zero.
PageFromZero(all) ==
    LET left == Cardinality(all) - gate.count - PerPage
    IN  {batch \in SUBSET all :
            Cardinality(batch) = IF left < 0 THEN 0
                                 ELSE IF left > PerPage THEN PerPage ELSE left}

\* ... and the second selects a page of them.  They are ordered by when they
\* were stored, all at once, so that each page may come from another order.
Page(all) ==
    LET left == Cardinality(all) - gate.count
    IN  {batch \in SUBSET all :
            Cardinality(batch) = IF left < 0 THEN 0
                                 ELSE IF left > PerPage THEN PerPage ELSE left}

LastPage(n) == n < PerPage \/ gate.count + n >= gate.total

ListPage ==
    /\ gate.pc = "page"
    /\ \E batch \in Page(ListFindingsForScan(Mine)) :
           LET n == Cardinality(batch)
               next == IF ~ LastPage(n) THEN "count" ELSE "details"
           IN  gate' = [gate EXCEPT !.pc = next, !.count = @ + n, !.got = @ \cup batch,
                                    !.todo = IF next = "details" /\ scene.kev
                                             THEN gate.got \cup batch ELSE {}]
    /\ UNCHANGED faults /\ ClientStep

\* Each finding again, with its enrichment; none may have gone meanwhile.
ReadDetail(f) ==
    /\ gate.pc = "details" /\ f \in gate.todo
    /\ gate' = IF GetFindingDetail(f)
               THEN [gate EXCEPT !.todo = @ \ {f},
                                 !.read = IF KEVListed(f) THEN @ \cup {f} ELSE @]
               ELSE [gate EXCEPT !.pc = "error"]
    /\ UNCHANGED faults /\ ClientStep

MeetsFailThreshold(f) == severityRank[Vuln(f).severity] >= FailOn

\* read: what --fail-on-kev objects to.
Violations == {f \in gate.got : MeetsFailThreshold(f)} \cup gate.read

EvaluatePolicy ==
    /\ gate.pc = "details" /\ gate.todo = {}
    /\ gate' = [gate EXCEPT !.pc = IF Violations = {} THEN "pass" ELSE "block"]
    /\ UNCHANGED faults /\ ClientStep

Ended == {"pass", "block", "failed", "error"}

\* A request fails or the time is up.
GateFails ==
    /\ Fault /\ gate.pc \notin Ended
    /\ gate' = [gate EXCEPT !.pc = "error"]
    /\ ClientStep

-----------------------------------------------------------------------------

Worker(s) == Start(s) \/ PersistScanResults(s) \/ publishScanEvent(s) \/ Fail(s)
Enricher ==
    \/ EnrichScan \/ fetchEPSSBatched \/ loadKEVCatalog \/ Enriched
    \/ (\E f \in enr.todo : Upsert(f)) \/ EnricherStarts
Client ==
    \/ pollUntilDone \/ CountFindings \/ ListPage \/ EvaluatePolicy
    \/ \E f \in gate.todo : ReadDetail(f)

Next ==
    \/ \E s \in Scans : Worker(s) \/ LoseJob(s) \/ Redeliver(s) \/ CancelScan(s)
    \/ Enricher \/ EnricherStops \/ FeedChanges \/ CacheExpires
    \/ Client \/ GateFails
    \/ \E r \in Rules : CreateSuppression(r) \/ UpdateSuppression(r) \/ DeleteSuppression(r)
    \/ \E i \in Images : DeleteImage(i)

Spec ==
    /\ Init /\ [][Next]_vars
    /\ \A s \in Scans : WF_vars(Worker(s))
    /\ WF_vars(Enricher) /\ WF_vars(Client)

-----------------------------------------------------------------------------
(* Properties *)

FindingIds == Scans \X Nat \X Vulns

\* The state is well formed; in particular every enrichment is that of a
\* finding that is there.
TypeOK ==
    /\ scans \in [Scans -> [status : {"pending", "running", "completed", "failed", "cancelled"},
                            version : Nat, vulns : SUBSET Vulns, tries : 0..Attempts,
                            job : {"waiting", "working", "publish", "failing", "closed"}]]
    /\ live \subseteq Images
    /\ rules \in [Rules -> {"absent", "active", "expired"}]
    /\ DOMAIN enriched \subseteq Findings
    /\ \A f \in DOMAIN enriched :
           enriched[f] \in [kev : BOOLEAN, epss : BOOLEAN, sound : BOOLEAN]
    /\ events \in Seq(Scans)
    /\ enr \in [pc : {"idle", "away", "epss", "kev", "upsert"}, todo : SUBSET FindingIds,
                scored : SUBSET CVEs, listed : SUBSET CVEs, sound : BOOLEAN]
    /\ kev \in [feed : {"good", "malformed", "down"}, cache : {"none", "good", "malformed"},
                tainted : BOOLEAN]
    /\ lost \in BOOLEAN
    /\ gate \in [pc : {"poll", "count", "page", "details"} \cup Ended, count : Nat, total : Nat,
                 got : SUBSET FindingIds, todo : SUBSET FindingIds, read : SUBSET FindingIds,
                 shown : SUBSET FindingIds, hidden : SUBSET FindingIds,
                 flagged : SUBSET FindingIds]
    /\ scene \in Scenes /\ changes \in 0..scene.changes /\ faults \in 0..scene.faults

\* A CVE of the catalogue is stored as not listed only by a run during which
\* CISA did not serve the catalogue, or within a day of a body that could not
\* be parsed; no other outage outlasts itself.
ListedIsFlagged ==
    \A f \in DOMAIN enriched :
        enriched[f].sound /\ Vuln(f).cve \in Exploited => enriched[f].kev

\* If the findings of a scan fit in one page, the client passes none that was
\* there and not suppressed all along and is of the severity or, if it asks for
\* that, was known to be listed all along; whatever is suppressed, stored again
\* or enriched meanwhile.  More pages may skip findings.
GateMissesNothing ==
    gate.pc = "pass" /\ Cardinality(scene.found) <= PerPage =>
        \A f \in gate.shown :
            ~ MeetsFailThreshold(f) /\ (scene.kev => f \notin gate.flagged)

\* However rules come and go while the client reads, it reports and objects to
\* no finding that was suppressed all along.
GateIgnoresSuppressed == gate.got \cap gate.hidden = {}

\* Unless an event or a call of the enricher was lost, which nothing repeats,
\* all findings of completed scans are enriched in the end, suppressed or not.
EnrichedInTheEnd ==
    <>[](lost \/ \A s \in Scans : scans[s].status = "completed"
                                    => FindingsOf(s) \subseteq DOMAIN enriched)

\* The client ends without its deadline, also if its scan is cancelled, unless
\* the worker stopped with the job.
GateEnds ==
    <>\/ gate.pc \in Ended
      \/ scans[Mine].job = "closed" /\ scans[Mine].status \notin {"completed", "failed"}
=============================================================================
