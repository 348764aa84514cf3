-------------------------- MODULE FindingGateProofs --------------------------
(* Theorems about FindingGate, for any number of scans, images, findings,   *)
(* rules and attempts, any page size and any scenes.                        *)
EXTENDS FindingGate, FiniteSetTheorems, TLAPS

-----------------------------------------------------------------------------
(* The parts of the inductive invariant.                                     *)

ScanRow == [status : {"pending", "running", "completed", "failed", "cancelled"},
            version : Nat, vulns : SUBSET Vulns, tries : 0..Attempts,
            job : {"waiting", "working", "publish", "failing", "closed"}]

(* An attempt that is to begin is left, and what is stored is what is found. *)
ScansInv ==
    /\ scans \in [Scans -> ScanRow]
    /\ \A s \in Scans : /\ scans[s].job = "waiting" => scans[s].tries < Attempts
                        /\ scans[s].vulns \subseteq scene.found

Known == [kev : BOOLEAN, epss : BOOLEAN, sound : BOOLEAN]

EnrichedInv ==
    /\ DOMAIN enriched \subseteq Findings
    /\ \A f \in DOMAIN enriched : enriched[f] \in Known
    /\ ListedIsFlagged

(* The cache and the feed are malformed only when that is known of them, and *)
(* a run of the enricher is sound only if they are not.                      *)
KevInv ==
    /\ kev \in [feed : {"good", "malformed", "down"}, cache : {"none", "good", "malformed"},
                tainted : BOOLEAN]
    /\ "malformed" \in {kev.feed, kev.cache} => kev.tainted

EnrInv ==
    /\ enr \in [pc : {"idle", "away", "epss", "kev", "upsert"}, todo : SUBSET FindingIds,
                scored : SUBSET CVEs, listed : SUBSET CVEs, sound : BOOLEAN]
    /\ enr.sound => kev.feed = "good" /\ ~ kev.tainted
    /\ enr.sound /\ enr.pc = "upsert" => enr.listed = Exploited

RestInv ==
    /\ live \subseteq Images
    /\ rules \in [Rules -> {"absent", "active", "expired"}]
    /\ events \in Seq(Scans)
    /\ lost \in BOOLEAN
    /\ scene \in Scenes /\ changes \in 0..scene.changes /\ faults \in 0..scene.faults

GateRow ==
    [pc : {"poll", "count", "page", "details"} \cup Ended, count : Nat, total : Nat,
     got : SUBSET FindingIds, todo : SUBSET FindingIds, read : SUBSET FindingIds,
     shown : SUBSET FindingIds, hidden : SUBSET FindingIds, flagged : SUBSET FindingIds]

OnePage == Cardinality(scene.found) <= PerPage

(* What the client has of what was shown, suppressed or listed all along.    *)
GateInv ==
    /\ gate \in GateRow
    /\ gate.pc = "poll" => gate.got = {} /\ gate.count = 0 /\ gate.shown = {}
    /\ gate.shown \subseteq ListFindingsForScan(Mine)
    /\ \A f \in gate.shown \cap gate.flagged : KEVListed(f)
    /\ \A f \in gate.hidden : Suppressed(f, rules)
    /\ GateIgnoresSuppressed
    /\ OnePage =>
           /\ gate.pc \in {"count", "page"} => gate.count = 0
           /\ gate.pc = "page" => gate.total <= PerPage
           /\ gate.pc = "details" =>
                  /\ gate.shown \subseteq gate.got
                  /\ scene.kev => gate.shown \cap gate.flagged \subseteq gate.todo \cup gate.read
    /\ GateMissesNothing

Inv == ScansInv /\ EnrichedInv /\ KevInv /\ EnrInv /\ RestInv /\ GateInv

LEMMA SceneFacts ==
    ASSUME NEW sc \in Scenes
    PROVE  /\ sc.scans \subseteq Scans /\ sc.gate \in Scans /\ sc.gate \in sc.scans
           /\ sc.found \subseteq Vulns /\ IsFiniteSet(sc.found)
           /\ Cardinality(sc.found) \in Nat
           /\ sc.kev \in BOOLEAN /\ sc.changes \in Nat /\ sc.faults \in Nat
<1>1. sc \in Scene /\ sc.gate \in sc.scans
  BY GateAssumption
<1>2. sc.found \subseteq Vulns
  BY <1>1 DEF Scene
<1>3. IsFiniteSet(sc.found) /\ Cardinality(sc.found) \in Nat
  BY <1>2, GateAssumption, FS_Subset, FS_CardinalityType
<1>4. QED
  BY <1>1, <1>2, <1>3 DEF Scene

LEMMA ConstantFacts ==
    /\ PerPage \in Nat \ {0} /\ Attempts \in Nat \ {0}
    /\ Exploited \subseteq CVEs
BY GateAssumption

(* The findings of a scan are as many as what is stored of it. *)
LEMMA FindingsFacts ==
    ASSUME ScansInv, RestInv, NEW s \in Scans
    PROVE  /\ FindingsOf(s) \subseteq FindingIds
           /\ \A f \in FindingsOf(s) : ScanOf(f) = s /\ Vuln(f) \in Vulns /\ Vuln(f).cve \in CVEs
           /\ IsFiniteSet(FindingsOf(s))
           /\ Cardinality(FindingsOf(s)) <= Cardinality(scene.found)
           /\ Cardinality(FindingsOf(s)) \in Nat
<1> DEFINE S == scans[s].vulns
           f == [v \in S |-> <<s, scans[s].version, v>>]
<1>1. scans[s] \in ScanRow /\ S \subseteq Vulns /\ S \subseteq scene.found
  BY DEF ScansInv, ScanRow
<1>2. IsFiniteSet(scene.found)
  BY SceneFacts DEF RestInv
<1>3. IsFiniteSet(S) /\ Cardinality(S) <= Cardinality(scene.found) /\ Cardinality(S) \in Nat
      /\ Cardinality(scene.found) \in Nat
  BY <1>1, <1>2, FS_Subset, FS_CardinalityType
<1>4. FindingsOf(s) = {f[v] : v \in S}
  BY DEF FindingsOf
<1>5. f \in Surjection(S, FindingsOf(s))
  BY <1>4 DEF Surjection
<1>6. IsFiniteSet(FindingsOf(s)) /\ Cardinality(FindingsOf(s)) <= Cardinality(S)
  BY <1>3, <1>5, FS_Surjection
<1>7. /\ FindingsOf(s) \subseteq FindingIds
      /\ \A x \in FindingsOf(s) : ScanOf(x) = s /\ Vuln(x) \in Vulns
  BY <1>1 DEF FindingsOf, FindingIds, ScanOf, Vuln, ScanRow
<1>8. \A v \in Vulns : v.cve \in CVEs
  BY DEF CVEs
<1>9. Cardinality(FindingsOf(s)) \in Nat
  BY <1>6, FS_CardinalityType
<1>10. QED
  BY <1>3, <1>6, <1>7, <1>8, <1>9

LEMMA InvTypeOK == Inv => TypeOK
BY DEF Inv, ScansInv, EnrichedInv, KevInv, EnrInv, RestInv, GateInv, TypeOK,
       ScanRow, Known, GateRow

LEMMA InitInv == Init => Inv
<1> SUFFICES ASSUME Init
             PROVE  Inv
  OBVIOUS
<1> USE DEF Init
<1>1. scene \in Scenes /\ changes \in 0..scene.changes /\ faults \in 0..scene.faults
  BY SceneFacts
<1>2. ScansInv
  BY ConstantFacts DEF ScansInv, ScanRow
<1>3. EnrichedInv
  BY DEF EnrichedInv, ListedIsFlagged
<1>4. KevInv /\ EnrInv
  BY DEF KevInv, EnrInv
<1>5. RestInv
  <2>1. events \in Seq(Scans)
    OBVIOUS
  <2>2. rules \in [Rules -> {"absent", "active", "expired"}] /\ live \subseteq Images
    OBVIOUS
  <2>3. QED
    BY <1>1, <2>1, <2>2 DEF RestInv
<1>6. GateInv
  BY DEF GateInv, GateRow, GateIgnoresSuppressed, GateMissesNothing
<1>7. QED
  BY <1>2, <1>3, <1>4, <1>5, <1>6 DEF Inv

-----------------------------------------------------------------------------
(* The scans.  All steps but the worker's storing leave the findings alone.  *)

(* What a step that stores nothing keeps of the scans. *)
Stored == [s \in Scans |-> <<scans[s].version, scans[s].vulns>>]

LEMMA ScansStep ==
    ASSUME Inv, [Next]_vars
    PROVE  /\ ScansInv'
           /\ scene' = scene
           /\ Stored' = Stored \/ \E s \in Scans : PersistScanResults(s)
<1> DEFINE Goal == /\ ScansInv' /\ scene' = scene
                   /\ Stored' = Stored \/ \E s \in Scans : PersistScanResults(s)
<1>0. ScansInv /\ RestInv /\ scans \in [Scans -> ScanRow]
  BY DEF Inv, ScansInv
<1>f. scene.found \in SUBSET Vulns /\ Attempts \in Nat \ {0}
  BY <1>0, SceneFacts, ConstantFacts DEF RestInv
<1>a. ASSUME UNCHANGED <<scans, scene>>
      PROVE  Goal
  BY <1>a, <1>0 DEF ScansInv, ScanRow, Stored
<1>b. ASSUME NEW s \in Scans, NEW row \in ScanRow, scans' = [scans EXCEPT ![s] = row],
             row.job = "waiting" => row.tries < Attempts,
             row.version = scans[s].version, row.vulns = scans[s].vulns, scene' = scene
      PROVE  Goal
  <2>1. scans' \in [Scans -> ScanRow]
    BY <1>b, <1>0
  <2>2. \A r \in Scans : scans'[r] = IF r = s THEN row ELSE scans[r]
    BY <1>b, <1>0
  <2>3. ScansInv'
    BY <1>b, <1>0, <2>1, <2>2 DEF ScansInv, ScanRow
  <2>4. Stored' = Stored
    BY <1>b, <2>2 DEF Stored
  <2>5. QED
    BY <1>b, <2>3, <2>4
<1>1. ASSUME NEW s \in Scans, Start(s)
      PROVE  Goal
  <2> DEFINE n == scans[s].tries + 1
             row == [scans[s] EXCEPT !.job = "working", !.status = "running", !.tries = n]
  <2>1. scans[s] \in ScanRow /\ scans[s].tries < Attempts
    BY <1>1, <1>0 DEF ScansInv, Start
  <2>n. n \in 0..Attempts
    BY <2>1, <1>f DEF ScanRow
  <2>2. row \in ScanRow /\ row.job = "working" /\ row.version = scans[s].version
        /\ row.vulns = scans[s].vulns
    <3> HIDE DEF n
    <3> QED  BY <2>1, <2>n DEF ScanRow
  <2>3. scans' = [scans EXCEPT ![s] = row] /\ scene' = scene
    BY <1>1, <1>0 DEF Start, WorkerStep
  <2>4. QED
    BY <2>2, <2>3, <1>b
<1>2. ASSUME NEW s \in Scans, PersistScanResults(s)
      PROVE  Goal
  <2>1. PICK job \in {"publish", "failing"} :
            scans' = [scans EXCEPT ![s] = [@ EXCEPT !.status = "completed", !.job = job,
                                             !.version = scans[s].version + 1,
                                             !.vulns = scene.found]]
    BY <1>2 DEF PersistScanResults
  <2> DEFINE n == scans[s].version + 1
             row == [scans[s] EXCEPT !.status = "completed", !.job = job,
                                     !.version = n, !.vulns = scene.found]
  <2>2. scans[s] \in ScanRow
    BY <1>0
  <2>n. n \in Nat
    BY <2>2 DEF ScanRow
  <2>3. row \in ScanRow /\ row.job = job /\ row.vulns = scene.found
    <3> HIDE DEF n
    <3> QED  BY <2>2, <2>n, <1>f DEF ScanRow
  <2>4. scans' = [scans EXCEPT ![s] = row] /\ scene' = scene
    BY <1>2, <1>0, <2>1 DEF PersistScanResults, WorkerStep
  <2>5. \A r \in Scans : scans'[r] = IF r = s THEN row ELSE scans[r]
    BY <2>4, <1>0
  <2> HIDE DEF row
  <2>6. scans' \in [Scans -> ScanRow]
    BY <2>4, <2>3, <1>0
  <2>7. ScansInv'
    BY <2>3, <2>4, <2>5, <2>6, <1>0 DEF ScansInv, ScanRow
  <2>8. QED
    BY <2>4, <2>7, <1>2
<1>3. ASSUME NEW s \in Scans, publishScanEvent(s)
      PROVE  Goal
  <2> DEFINE row == [scans[s] EXCEPT !.job = "closed"]
  <2>1. scans[s] \in ScanRow
    BY <1>0
  <2>2. row \in ScanRow /\ row.job = "closed" /\ row.version = scans[s].version
        /\ row.vulns = scans[s].vulns
    BY <2>1 DEF ScanRow
  <2>3. scans' = [scans EXCEPT ![s] = row] /\ scene' = scene
    BY <1>3, <1>0 DEF publishScanEvent, WorkerStep
  <2>4. QED
    BY <2>2, <2>3, <1>b
<1>4. ASSUME NEW s \in Scans, Fail(s)
      PROVE  Goal
  <2>1. PICK job \in {"waiting", "closed"} :
            /\ job = "waiting" => AttemptLeft(s)
            /\ scans' = [scans EXCEPT ![s].status = "failed", ![s].job = job]
    BY <1>4 DEF Fail
  <2> DEFINE row == [scans[s] EXCEPT !.status = "failed", !.job = job]
  <2>2. scans[s] \in ScanRow
    BY <1>0
  <2>3. row \in ScanRow /\ row.job = job /\ row.version = scans[s].version
        /\ row.vulns = scans[s].vulns /\ row.tries = scans[s].tries
    BY <2>2 DEF ScanRow
  <2>4. scans' = [scans EXCEPT ![s] = row] /\ scene' = scene
    BY <1>4, <1>0, <2>1 DEF Fail, WorkerStep
  <2>5. row.job = "waiting" => row.tries < Attempts
    BY <2>1, <2>3 DEF AttemptLeft
  <2>6. QED
    BY <2>3, <2>4, <2>5, <1>b
<1>5. ASSUME NEW s \in Scans, LoseJob(s)
      PROVE  Goal
  <2> DEFINE row == [scans[s] EXCEPT !.job = "closed"]
  <2>1. scans[s] \in ScanRow
    BY <1>0
  <2>2. row \in ScanRow /\ row.job = "closed" /\ row.version = scans[s].version
        /\ row.vulns = scans[s].vulns
    BY <2>1 DEF ScanRow
  <2>3. scans' = [scans EXCEPT ![s] = row] /\ scene' = scene
    BY <1>5, <1>0 DEF LoseJob, WorkerStep
  <2>4. QED
    BY <2>2, <2>3, <1>b
<1>6. ASSUME NEW s \in Scans, Redeliver(s)
      PROVE  Goal
  <2> DEFINE row == [scans[s] EXCEPT !.job = "waiting", !.tries = 0]
  <2>1. scans[s] \in ScanRow
    BY <1>0
  <2>n. 0 \in 0..Attempts /\ 0 < Attempts
    BY <1>f
  <2>2. row \in ScanRow /\ row.tries = 0 /\ row.version = scans[s].version
        /\ row.vulns = scans[s].vulns
    BY <2>1, <2>n DEF ScanRow
  <2>3. scans' = [scans EXCEPT ![s] = row] /\ scene' = scene
    BY <1>6, <1>0 DEF Redeliver, WorkerStep
  <2>4. row.tries < Attempts
    BY <2>2, <2>n
  <2>5. QED
    BY <2>2, <2>3, <2>4, <1>b
<1>7. ASSUME NEW s \in Scans, CancelScan(s)
      PROVE  Goal
  <2> DEFINE row == [scans[s] EXCEPT !.status = "cancelled"]
  <2>1. scans[s] \in ScanRow /\ (scans[s].job = "waiting" => scans[s].tries < Attempts)
    BY <1>0 DEF ScansInv
  <2>2. row \in ScanRow /\ row.job = scans[s].job /\ row.version = scans[s].version
        /\ row.vulns = scans[s].vulns /\ row.tries = scans[s].tries
    BY <2>1 DEF ScanRow
  <2>3. scans' = [scans EXCEPT ![s] = row] /\ scene' = scene
    BY <1>7, <1>0 DEF CancelScan
  <2>4. QED
    BY <2>1, <2>2, <2>3, <1>b
<1>8. CASE Enricher \/ EnricherStops \/ FeedChanges \/ CacheExpires
  BY <1>8, <1>a DEF Enricher, EnrichScan, fetchEPSSBatched, loadKEVCatalog, Enriched, Upsert,
       EnricherStarts, EnricherStops, FeedChanges, CacheExpires, EnricherStep
<1>9. CASE Client \/ GateFails
  BY <1>9, <1>a DEF Client, pollUntilDone, CountFindings, ListPage, ReadDetail, EvaluatePolicy,
       GateFails, ClientStep
<1>10. CASE \/ \E r \in Rules : CreateSuppression(r) \/ UpdateSuppression(r) \/ DeleteSuppression(r)
            \/ \E i \in Images : DeleteImage(i)
  BY <1>10, <1>a DEF CreateSuppression, UpdateSuppression, DeleteSuppression, SetRule, DeleteImage
<1>11. CASE UNCHANGED vars
  BY <1>11, <1>a DEF vars
<1>12. QED
  BY <1>1, <1>2, <1>3, <1>4, <1>5, <1>6, <1>7, <1>8, <1>9, <1>10, <1>11 DEF Next, Worker

LEMMA SameFindings ==
    ASSUME Stored' = Stored
    PROVE  /\ \A s \in Scans : FindingsOf(s)' = FindingsOf(s)
           /\ Findings' = Findings
<1>1. ASSUME NEW s \in Scans
      PROVE  scans'[s].version = scans[s].version /\ scans'[s].vulns = scans[s].vulns
  <2>1. Stored'[s] = Stored[s]
    OBVIOUS
  <2>2. <<scans'[s].version, scans'[s].vulns>> = <<scans[s].version, scans[s].vulns>>
    BY <2>1 DEF Stored
  <2>3. QED
    BY <2>2
<1>2. \A s \in Scans : FindingsOf(s)' = FindingsOf(s)
  BY <1>1 DEF FindingsOf
<1>3. QED
  BY <1>2 DEF Findings

LEMMA OtherFindings ==
    ASSUME ScansInv, NEW s \in Scans, PersistScanResults(s)
    PROVE  \A r \in Scans \ {s} : FindingsOf(r)' = FindingsOf(r)
<1>1. \A r \in Scans \ {s} : scans'[r] = scans[r]
  BY DEF PersistScanResults, ScansInv
<1>2. QED
  BY <1>1 DEF FindingsOf

(* Whose finding a finding is. *)
LEMMA FindingIsOf ==
    ASSUME NEW f \in Findings
    PROVE  ScanOf(f) \in Scans /\ f \in FindingsOf(ScanOf(f))
<1>1. PICK s \in Scans : f \in FindingsOf(s)
  BY DEF Findings
<1>2. ScanOf(f) = s
  BY <1>1 DEF FindingsOf, ScanOf
<1>3. QED
  BY <1>1, <1>2

-----------------------------------------------------------------------------
(* The rest of the state that no property is about.                          *)

LEMMA CountStep ==
    ASSUME RestInv, Fault \/ UNCHANGED faults, Change \/ UNCHANGED changes, scene' = scene
    PROVE  (scene \in Scenes /\ changes \in 0..scene.changes /\ faults \in 0..scene.faults)'
<1>1. scene.changes \in Nat /\ scene.faults \in Nat
  BY SceneFacts DEF RestInv
<1>2. faults' \in 0..scene.faults
  BY <1>1 DEF RestInv, Fault
<1>3. changes' \in 0..scene.changes
  BY <1>1 DEF RestInv, Change
<1>4. QED
  BY <1>2, <1>3 DEF RestInv

LEMMA RestStep ==
    ASSUME Inv, [Next]_vars
    PROVE  RestInv'
<1>0. RestInv
  BY DEF Inv
<1>1. scene' = scene
  BY ScansStep
<1> DEFINE Counted2 == (Fault \/ UNCHANGED faults) /\ (Change \/ UNCHANGED changes)
           Goal == RestInv'
<1>a. ASSUME Counted2, live' \subseteq Images, lost' \in BOOLEAN, events' \in Seq(Scans),
             rules' \in [Rules -> {"absent", "active", "expired"}]
      PROVE  Goal
  BY <1>a, <1>0, <1>1, CountStep DEF RestInv
<1>b. ASSUME Counted2, UNCHANGED <<live, rules>>, lost' \in BOOLEAN, events' \in Seq(Scans)
      PROVE  Goal
  BY <1>a, <1>b, <1>0 DEF RestInv
<1>2. ASSUME NEW s \in Scans, Start(s) \/ PersistScanResults(s) \/ Fail(s) \/ Redeliver(s)
      PROVE  Goal
  BY <1>2, <1>b, <1>0 DEF Start, PersistScanResults, Fail, Redeliver, WorkerStep, RestInv
<1>3. ASSUME NEW s \in Scans, publishScanEvent(s)
      PROVE  Goal
  <2>1. Counted2 /\ UNCHANGED <<live, rules>> /\ lost' \in BOOLEAN
    BY <1>3, <1>0 DEF publishScanEvent, WorkerStep, RestInv
  <2>2. events' = events \/ events' = Append(events, s)
    BY <1>3 DEF publishScanEvent
  <2>3. events' \in Seq(Scans)
    BY <2>2, <1>0 DEF RestInv
  <2>4. QED
    BY <2>1, <2>3, <1>b
<1>4. ASSUME NEW s \in Scans, LoseJob(s)
      PROVE  Goal
  <2>1. lost' \in BOOLEAN
    BY <1>4, <1>0 DEF LoseJob, RestInv
  <2>2. QED
    BY <2>1, <1>4, <1>b, <1>0 DEF LoseJob, WorkerStep, RestInv
<1>5. ASSUME NEW s \in Scans, CancelScan(s)
      PROVE  Goal
  BY <1>5, <1>b, <1>0 DEF CancelScan, RestInv
<1>6. CASE EnrichScan
  <2>1. Counted2 /\ UNCHANGED <<live, rules>> /\ lost' \in BOOLEAN
    BY <1>6, <1>0 DEF EnrichScan, EnricherStep, RestInv
  <2>2. events' \in Seq(Scans)
    BY <1>6, <1>0 DEF EnrichScan, RestInv
  <2>3. QED
    BY <2>1, <2>2, <1>b
<1>7. CASE fetchEPSSBatched \/ loadKEVCatalog \/ Enriched \/ EnricherStarts \/ CacheExpires
  BY <1>7, <1>b, <1>0 DEF fetchEPSSBatched, loadKEVCatalog, Enriched, EnricherStarts,
       CacheExpires, EnricherStep, RestInv
<1>8. ASSUME NEW f \in enr.todo, Upsert(f)
      PROVE  Goal
  <2>1. UNCHANGED <<live, rules, events, changes>> /\ (Fault \/ UNCHANGED faults)
        /\ (lost' = TRUE \/ UNCHANGED lost)
    BY <1>8 DEF Upsert
  <2>2. QED
    BY <2>1, <1>b, <1>0 DEF RestInv
<1>9. CASE EnricherStops
  <2>1. lost' \in BOOLEAN /\ events' \in Seq(Scans)
    BY <1>9, <1>0 DEF EnricherStops, RestInv
  <2>2. QED
    BY <2>1, <1>9, <1>b, <1>0 DEF EnricherStops, EnricherStep, RestInv
<1>10. CASE FeedChanges
  BY <1>10, <1>b, <1>0 DEF FeedChanges, RestInv
<1>11. CASE Client \/ GateFails
  BY <1>11, <1>b, <1>0 DEF Client, pollUntilDone, CountFindings, ListPage, ReadDetail,
       EvaluatePolicy, GateFails, ClientStep, RestInv
<1>12. ASSUME NEW r \in Rules, CreateSuppression(r) \/ UpdateSuppression(r) \/ DeleteSuppression(r)
       PROVE  Goal
  <2>1. PICK old \in SUBSET {"absent", "active", "expired"}, new \in {"absent", "active", "expired"} :
            SetRule(r, old, new)
    BY <1>12 DEF CreateSuppression, UpdateSuppression, DeleteSuppression
  <2>2. /\ rules' = [rules EXCEPT ![r] = new] /\ Change
        /\ UNCHANGED <<live, events, lost, faults>>
    BY <2>1 DEF SetRule
  <2>3. rules' \in [Rules -> {"absent", "active", "expired"}]
    BY <2>2, <1>0 DEF RestInv
  <2>4. QED
    BY <2>2, <2>3, <1>a, <1>0 DEF RestInv
<1>13. ASSUME NEW i \in Images, DeleteImage(i)
       PROVE  Goal
  BY <1>13, <1>a, <1>0 DEF DeleteImage, RestInv
<1>14. CASE UNCHANGED vars
  BY <1>14, <1>b, <1>0 DEF vars, RestInv
<1>15. QED
  BY <1>2, <1>3, <1>4, <1>5, <1>6, <1>7, <1>8, <1>9, <1>10, <1>11, <1>12, <1>13, <1>14
  DEF Next, Worker, Enricher

-----------------------------------------------------------------------------
(* The enricher and the catalogue.                                           *)

EnrichersOwn == EnrichScan \/ fetchEPSSBatched \/ loadKEVCatalog \/ Enriched
                \/ EnricherStarts \/ EnricherStops

LEMMA EnricherFrame ==
    ASSUME [Next]_vars
    PROVE  \/ UNCHANGED <<enr, kev>>
           \/ EnrichersOwn \/ FeedChanges \/ CacheExpires
           \/ \E f \in enr.todo : Upsert(f)
<1> DEFINE Goal == \/ UNCHANGED <<enr, kev>>
                   \/ EnrichersOwn \/ FeedChanges \/ CacheExpires
                   \/ \E f \in enr.todo : Upsert(f)
<1>1. ASSUME NEW s \in Scans, Worker(s) \/ LoseJob(s) \/ Redeliver(s) \/ CancelScan(s)
      PROVE  Goal
  BY <1>1 DEF Worker, Start, PersistScanResults, publishScanEvent, Fail, LoseJob, Redeliver,
       CancelScan, WorkerStep
<1>2. CASE Client \/ GateFails
  BY <1>2 DEF Client, pollUntilDone, CountFindings, ListPage, ReadDetail, EvaluatePolicy,
       GateFails, ClientStep
<1>3. CASE \/ \E r \in Rules : CreateSuppression(r) \/ UpdateSuppression(r) \/ DeleteSuppression(r)
           \/ \E i \in Images : DeleteImage(i)
  BY <1>3 DEF CreateSuppression, UpdateSuppression, DeleteSuppression, SetRule, DeleteImage
<1>4. CASE UNCHANGED vars
  BY <1>4 DEF vars
<1>5. QED
  BY <1>1, <1>2, <1>3, <1>4 DEF Next, Enricher, EnrichersOwn

LEMMA KevStep ==
    ASSUME Inv, [Next]_vars
    PROVE  KevInv'
<1> DEFINE Row == [feed : {"good", "malformed", "down"}, cache : {"none", "good", "malformed"},
                   tainted : BOOLEAN]
           Goal == KevInv'
<1>0. kev \in Row /\ ("malformed" \in {kev.feed, kev.cache} => kev.tainted)
  BY DEF Inv, KevInv
<1>1. CASE kev' = kev
  BY <1>1, <1>0 DEF KevInv
<1>2. CASE loadKEVCatalog
  <2> DEFINE answer == IF kev.cache # "none" THEN kev.cache ELSE kev.feed
             cache == IF ~ Cacheable(answer) THEN kev.cache
                      ELSE IF answer = "good" THEN "good" ELSE "malformed"
  <2>1. kev' = [kev EXCEPT !.cache = cache]
    BY <1>2 DEF loadKEVCatalog
  <2>2. cache \in {"none", "good", "malformed"}
    BY <1>0
  <2>3. cache = "malformed" => "malformed" \in {kev.feed, kev.cache}
    BY <1>0 DEF Cacheable
  <2> HIDE DEF cache
  <2>4. kev' \in Row /\ kev'.feed = kev.feed /\ kev'.cache = cache /\ kev'.tainted = kev.tainted
    BY <2>1, <2>2, <1>0
  <2>5. QED
    BY <2>3, <2>4, <1>0 DEF KevInv
<1>3. CASE FeedChanges
  <2>1. PICK feed \in {"good", "malformed", "down"} \ {kev.feed} :
            kev' = [kev EXCEPT !.feed = feed,
                        !.tainted = feed = "malformed" \/ (kev.tainted /\ kev.cache # "none")]
    BY <1>3 DEF FeedChanges
  <2> DEFINE bad == feed = "malformed" \/ (kev.tainted /\ kev.cache # "none")
  <2>2. bad \in BOOLEAN /\ (feed = "malformed" => bad) /\ (kev.cache = "malformed" => bad)
    BY <1>0
  <2>b. kev' = [kev EXCEPT !.feed = feed, !.tainted = bad]
    BY <2>1
  <2> HIDE DEF bad
  <2>3. kev' \in Row /\ kev'.feed = feed /\ kev'.cache = kev.cache /\ kev'.tainted = bad
    BY <2>b, <2>2, <1>0
  <2>4. QED
    BY <2>2, <2>3 DEF KevInv
<1>4. CASE CacheExpires
  <2> DEFINE bad == kev.feed = "malformed"
  <2>1. kev' = [kev EXCEPT !.cache = "none", !.tainted = bad]
    BY <1>4 DEF CacheExpires
  <2>2. bad \in BOOLEAN /\ (kev.feed = "malformed" => bad)
    OBVIOUS
  <2> HIDE DEF bad
  <2>3. kev' \in Row /\ kev'.feed = kev.feed /\ kev'.cache = "none" /\ kev'.tainted = bad
    BY <2>1, <2>2, <1>0
  <2>4. QED
    BY <2>2, <2>3 DEF KevInv
<1>5. CASE EnrichersOwn /\ ~ loadKEVCatalog
  BY <1>5, <1>1 DEF EnrichersOwn, EnrichScan, fetchEPSSBatched, Enriched, EnricherStarts,
       EnricherStops
<1>6. ASSUME NEW f \in enr.todo, Upsert(f)
      PROVE  Goal
  BY <1>6, <1>1 DEF Upsert
<1>7. QED
  BY <1>1, <1>2, <1>3, <1>4, <1>5, <1>6, EnricherFrame

LEMMA EnrStep ==
    ASSUME Inv, [Next]_vars
    PROVE  EnrInv'
<1> DEFINE Row == [pc : {"idle", "away", "epss", "kev", "upsert"}, todo : SUBSET FindingIds,
                   scored : SUBSET CVEs, listed : SUBSET CVEs, sound : BOOLEAN]
           Goal == EnrInv'
<1>0. /\ enr \in Row
      /\ enr.sound => kev.feed = "good" /\ ~ kev.tainted
      /\ enr.sound /\ enr.pc = "upsert" => enr.listed = Exploited
      /\ ScansInv /\ RestInv /\ KevInv
  BY DEF Inv, EnrInv
<1>1. CASE UNCHANGED <<enr, kev>>
  BY <1>1, <1>0 DEF EnrInv
<1>2. CASE EnrichScan
  <2>1. CASE UNCHANGED <<enr, kev>>
    BY <2>1, <1>1
  <2>2. CASE ~ UNCHANGED <<enr, kev>>
    <3> DEFINE findings == ListFindingsByScan(Head(events))
               ok == kev.feed = "good" /\ ~ kev.tainted
               pc == IF findings = {} THEN "idle" ELSE "epss"
    <3>1. enr' = [enr EXCEPT !.pc = pc, !.todo = findings, !.sound = ok] /\ kev' = kev
      BY <1>2, <2>2 DEF EnrichScan
    <3>2. Head(events) \in Scans
      BY <1>2, <1>0 DEF EnrichScan, RestInv
    <3>3. findings \subseteq FindingIds
      BY <3>2, <1>0, FindingsFacts DEF ListFindingsByScan
    <3>4. pc \in {"idle", "epss"} /\ ok \in BOOLEAN /\ (ok => kev.feed = "good" /\ ~ kev.tainted)
      OBVIOUS
    <3> HIDE DEF findings, ok, pc
    <3>5. enr' \in Row /\ enr'.pc = pc /\ enr'.sound = ok
      BY <3>1, <3>3, <3>4, <1>0
    <3>6. QED
      BY <3>1, <3>4, <3>5 DEF EnrInv
  <2>3. QED
    BY <2>1, <2>2
<1>3. CASE fetchEPSSBatched
  <2> DEFINE asked == {Vuln(f).cve : f \in enr.todo}
  <2>1. PICK some \in SUBSET asked : enr' = [enr EXCEPT !.pc = "kev", !.scored = some]
    BY <1>3 DEF fetchEPSSBatched
  <2>2. asked \subseteq CVEs
    BY <1>0 DEF FindingIds, Vuln, CVEs
  <2>3. kev' = kev
    BY <1>3 DEF fetchEPSSBatched
  <2> HIDE DEF asked
  <2>4. enr' \in Row /\ enr'.pc = "kev" /\ enr'.sound = enr.sound
    BY <2>1, <2>2, <1>0
  <2>5. QED
    BY <2>3, <2>4, <1>0 DEF EnrInv
<1>4. CASE loadKEVCatalog
  <2> DEFINE answer == IF kev.cache # "none" THEN kev.cache ELSE kev.feed
             list == IF answer = "good" THEN Exploited ELSE {}
  <2>1. enr' = [enr EXCEPT !.pc = "upsert", !.listed = list]
    BY <1>4 DEF loadKEVCatalog
  <2>2. list \subseteq CVEs
    BY ConstantFacts
  <2>3. enr.sound => list = Exploited
    BY <1>0 DEF KevInv
  <2>4. kev'.feed = kev.feed /\ kev'.tainted = kev.tainted
    BY <1>4, <1>0 DEF loadKEVCatalog, KevInv
  <2> HIDE DEF list
  <2>5. enr' \in Row /\ enr'.listed = list /\ enr'.sound = enr.sound
    BY <2>1, <2>2, <1>0
  <2>6. QED
    BY <2>3, <2>4, <2>5, <1>0 DEF EnrInv
<1>5. CASE Enriched
  <2>1. enr' \in Row /\ enr'.sound = FALSE
    BY <1>5, <1>0 DEF Enriched
  <2>2. QED
    BY <2>1 DEF EnrInv
<1>6. CASE EnricherStarts
  <2>1. enr' \in Row /\ enr'.sound = enr.sound /\ enr'.pc = "idle" /\ kev' = kev
    BY <1>6, <1>0 DEF EnricherStarts
  <2>2. QED
    BY <2>1, <1>0 DEF EnrInv
<1>7. CASE EnricherStops
  <2>1. enr' \in Row /\ enr'.sound = FALSE
    BY <1>7 DEF EnricherStops
  <2>2. QED
    BY <2>1 DEF EnrInv
<1>8. CASE FeedChanges
  <2>1. PICK feed \in {"good", "malformed", "down"} \ {kev.feed} :
            /\ kev' = [kev EXCEPT !.feed = feed,
                        !.tainted = feed = "malformed" \/ (kev.tainted /\ kev.cache # "none")]
            /\ enr' = [enr EXCEPT !.sound = enr.sound /\ feed = "good"]
    BY <1>8 DEF FeedChanges
  <2> DEFINE bad == feed = "malformed" \/ (kev.tainted /\ kev.cache # "none")
             ok == enr.sound /\ feed = "good"
  <2>2. bad \in BOOLEAN /\ ok \in BOOLEAN
        /\ (ok => feed = "good" /\ ~ bad /\ enr.sound)
    BY <1>0
  <2>3. kev' = [kev EXCEPT !.feed = feed, !.tainted = bad] /\ enr' = [enr EXCEPT !.sound = ok]
    BY <2>1
  <2> HIDE DEF bad, ok
  <2>4. kev'.feed = feed /\ kev'.tainted = bad
    BY <2>3, <1>0 DEF KevInv
  <2>5. enr' \in Row /\ enr'.sound = ok /\ enr'.pc = enr.pc /\ enr'.listed = enr.listed
    BY <2>2, <2>3, <1>0
  <2>6. QED
    BY <2>2, <2>4, <2>5, <1>0 DEF EnrInv
<1>9. CASE CacheExpires
  <2> DEFINE bad == kev.feed = "malformed"
  <2>1. kev' = [kev EXCEPT !.cache = "none", !.tainted = bad] /\ enr' = enr
    BY <1>9 DEF CacheExpires, EnricherStep
  <2>2. kev.feed = "good" => ~ bad
    OBVIOUS
  <2> HIDE DEF bad
  <2>3. kev'.feed = kev.feed /\ kev'.tainted = bad
    BY <2>1, <1>0 DEF KevInv
  <2>4. QED
    BY <2>1, <2>2, <2>3, <1>0 DEF EnrInv
<1>10. ASSUME NEW f \in enr.todo, Upsert(f)
       PROVE  Goal
  <2>1. enr' = [enr EXCEPT !.todo = @ \ {f}] /\ kev' = kev
    BY <1>10 DEF Upsert
  <2>2. enr' \in Row /\ enr'.sound = enr.sound /\ enr'.pc = enr.pc /\ enr'.listed = enr.listed
    BY <2>1, <1>0
  <2>3. QED
    BY <2>1, <2>2, <1>0 DEF EnrInv
<1>11. QED
  BY <1>1, <1>2, <1>3, <1>4, <1>5, <1>6, <1>7, <1>8, <1>9, <1>10, EnricherFrame DEF EnrichersOwn

LEMMA EnrichedFrame ==
    ASSUME [Next]_vars
    PROVE  \/ enriched' = enriched
           \/ \E s \in Scans : PersistScanResults(s)
           \/ \E f \in enr.todo : Upsert(f)
<1> DEFINE Goal == \/ enriched' = enriched
                   \/ \E s \in Scans : PersistScanResults(s)
                   \/ \E f \in enr.todo : Upsert(f)
<1>1. ASSUME NEW s \in Scans, Worker(s) \/ LoseJob(s) \/ Redeliver(s) \/ CancelScan(s)
      PROVE  Goal
  BY <1>1 DEF Worker, Start, publishScanEvent, Fail, LoseJob, Redeliver, CancelScan
<1>2. CASE Enricher \/ EnricherStops \/ FeedChanges \/ CacheExpires
  BY <1>2 DEF Enricher, EnrichScan, fetchEPSSBatched, loadKEVCatalog, Enriched, EnricherStarts,
       EnricherStops, FeedChanges, CacheExpires
<1>3. CASE Client \/ GateFails
  BY <1>3 DEF Client, pollUntilDone, CountFindings, ListPage, ReadDetail, EvaluatePolicy,
       GateFails, ClientStep
<1>4. CASE \/ \E r \in Rules : CreateSuppression(r) \/ UpdateSuppression(r) \/ DeleteSuppression(r)
           \/ \E i \in Images : DeleteImage(i)
  BY <1>4 DEF CreateSuppression, UpdateSuppression, DeleteSuppression, SetRule, DeleteImage
<1>5. CASE UNCHANGED vars
  BY <1>5 DEF vars
<1>6. QED
  BY <1>1, <1>2, <1>3, <1>4, <1>5 DEF Next

LEMMA EnrichedStep ==
    ASSUME Inv, [Next]_vars
    PROVE  EnrichedInv'
<1> DEFINE Goal == EnrichedInv'
<1>0. ScansInv /\ EnrichedInv /\ EnrInv
  BY DEF Inv
<1>1. ASSUME NEW s \in Scans, PersistScanResults(s)
      PROVE  Goal
  <2>1. enriched' = [f \in Kept(s) |-> enriched[f]]
    BY <1>1 DEF PersistScanResults
  <2>2. ASSUME NEW f \in Kept(s)
        PROVE  f \in Findings' /\ f \in DOMAIN enriched
    <3>1. f \in DOMAIN enriched /\ f \in Findings /\ ScanOf(f) # s
      BY <1>0 DEF Kept, EnrichedInv
    <3>2. ScanOf(f) \in Scans \ {s} /\ f \in FindingsOf(ScanOf(f))
      BY <3>1, FindingIsOf
    <3>3. f \in FindingsOf(ScanOf(f))'
      BY <3>2, <1>0, <1>1, OtherFindings
    <3>4. QED
      BY <3>1, <3>2, <3>3 DEF Findings
  <2>3. QED
    BY <2>1, <2>2, <1>0 DEF EnrichedInv, ListedIsFlagged
<1>2. ASSUME NEW f \in enr.todo, Upsert(f)
      PROVE  Goal
  <2>1. enr.pc = "upsert" /\ Findings' = Findings
    BY <1>2 DEF Upsert, Findings, FindingsOf
  <2>2. CASE enriched' = enriched
    BY <2>1, <2>2, <1>0 DEF EnrichedInv, ListedIsFlagged
  <2>3. CASE enriched' # enriched
    <3> DEFINE row == [kev |-> Vuln(f).cve \in enr.listed, epss |-> Vuln(f).cve \in enr.scored,
                       sound |-> enr.sound]
    <3>1. /\ f \in Findings
          /\ enriched' = [g \in DOMAIN enriched \cup {f} |-> IF g = f THEN row ELSE enriched[g]]
      BY <1>2, <2>3 DEF Upsert
    <3>2. row \in Known /\ row.sound = enr.sound /\ row.kev = (Vuln(f).cve \in enr.listed)
      BY <1>0 DEF EnrInv, Known
    <3>3. enr.sound => enr.listed = Exploited
      BY <1>0, <2>1 DEF EnrInv
    <3> HIDE DEF row
    <3>4. DOMAIN enriched' = DOMAIN enriched \cup {f}
          /\ \A g \in DOMAIN enriched' : enriched'[g] = IF g = f THEN row ELSE enriched[g]
      BY <3>1
    <3>5. \A g \in DOMAIN enriched' : enriched'[g] \in Known
      BY <3>2, <3>4, <1>0 DEF EnrichedInv
    <3>6. ListedIsFlagged'
      BY <3>2, <3>3, <3>4, <1>0 DEF EnrichedInv, ListedIsFlagged
    <3>7. QED
      BY <2>1, <3>1, <3>4, <3>5, <3>6, <1>0 DEF EnrichedInv
  <2>4. QED
    BY <2>2, <2>3
<1>3. ASSUME enriched' = enriched, Stored' = Stored
      PROVE  Goal
  BY <1>3, <1>0, SameFindings DEF EnrichedInv, ListedIsFlagged
<1>4. QED
  BY <1>1, <1>2, <1>3, ScansStep, EnrichedFrame

-----------------------------------------------------------------------------
(* The client.                                                               *)

LEMMA SameQueries ==
    ASSUME UNCHANGED <<rules, enriched, scene>>, Stored' = Stored, scene.gate \in Scans
    PROVE  /\ FindingsOf(Mine)' = FindingsOf(Mine)
           /\ ListFindingsForScan(Mine)' = ListFindingsForScan(Mine)
           /\ \A f : KEVListed(f)' = KEVListed(f)
           /\ \A f : Suppressed(f, rules)' = Suppressed(f, rules)
<1>1. FindingsOf(scene.gate)' = FindingsOf(scene.gate)
  <2>1. Stored'[scene.gate] = Stored[scene.gate]
    OBVIOUS
  <2>2. <<scans'[scene.gate].version, scans'[scene.gate].vulns>> =
        <<scans[scene.gate].version, scans[scene.gate].vulns>>
    BY <2>1 DEF Stored
  <2>3. scene' = scene
    OBVIOUS
  <2>4. QED
    BY <2>2, <2>3 DEF FindingsOf
<1>2. \A f : Suppressed(f, rules)' = Suppressed(f, rules)
  BY DEF Suppressed, Matches
<1>3. \A f : KEVListed(f)' = KEVListed(f)
  BY DEF KEVListed
<1>4. FindingsOf(Mine)' = FindingsOf(Mine)
  BY <1>1 DEF Mine
<1>5. ListFindingsForScan(Mine)' = ListFindingsForScan(Mine)
  BY <1>2, <1>4 DEF ListFindingsForScan
<1>6. QED
  BY <1>2, <1>3, <1>4, <1>5

(* What the queries of the client may answer. *)
LEMMA QueryFacts ==
    ASSUME ScansInv, RestInv
    PROVE  /\ Mine \in Scans /\ scene.gate \in Scans
           /\ FindingsOf(Mine) \subseteq FindingIds
           /\ ListFindingsForScan(Mine) \subseteq FindingsOf(Mine)
           /\ IsFiniteSet(ListFindingsForScan(Mine))
           /\ Cardinality(ListFindingsForScan(Mine)) \in Nat
           /\ OnePage => Cardinality(ListFindingsForScan(Mine)) <= PerPage
<1>1. Mine \in Scans /\ Cardinality(scene.found) \in Nat /\ PerPage \in Nat
  BY SceneFacts, ConstantFacts DEF RestInv, Mine
<1>2. /\ FindingsOf(Mine) \subseteq FindingIds /\ IsFiniteSet(FindingsOf(Mine))
      /\ Cardinality(FindingsOf(Mine)) <= Cardinality(scene.found)
      /\ Cardinality(FindingsOf(Mine)) \in Nat
  BY <1>1, FindingsFacts
<1>3. ListFindingsForScan(Mine) \subseteq FindingsOf(Mine)
  BY DEF ListFindingsForScan
<1>4. /\ IsFiniteSet(ListFindingsForScan(Mine))
      /\ Cardinality(ListFindingsForScan(Mine)) <= Cardinality(FindingsOf(Mine))
  BY <1>2, <1>3, FS_Subset
<1>5. Cardinality(ListFindingsForScan(Mine)) \in Nat
  BY <1>4, FS_CardinalityType
<1>6. QED
  BY <1>1, <1>2, <1>3, <1>4, <1>5 DEF OnePage, Mine

(* If everything fits in one page, the first page has everything. *)
LEMMA PageIsAll ==
    ASSUME NEW all, IsFiniteSet(all), Cardinality(all) <= PerPage, gate.count = 0,
           NEW batch \in Page(all)
    PROVE  batch = all
<1>1. Cardinality(all) \in Nat /\ PerPage \in Nat
  BY FS_CardinalityType, ConstantFacts
<1>2. batch \subseteq all /\ Cardinality(batch) = Cardinality(all)
  BY <1>1 DEF Page
<1>3. QED
  BY <1>2, FS_Subset

(* Of a rule. *)
States == {"absent", "active", "expired"}

LEMMA GateFrame ==
    ASSUME [Next]_vars
    PROVE  \/ UNCHANGED <<gate, rules, enriched>>
           \/ Client \/ GateFails
           \/ \E s \in Scans : PersistScanResults(s)
           \/ \E f \in enr.todo : Upsert(f)
           \/ \E r \in Rules, old \in SUBSET States, new \in States : SetRule(r, old, new)
<1> DEFINE Goal == \/ UNCHANGED <<gate, rules, enriched>>
                   \/ Client \/ GateFails
                   \/ \E s \in Scans : PersistScanResults(s)
                   \/ \E f \in enr.todo : Upsert(f)
                   \/ \E r \in Rules, old \in SUBSET States, new \in States : SetRule(r, old, new)
<1>1. ASSUME NEW s \in Scans, Worker(s) \/ LoseJob(s) \/ Redeliver(s) \/ CancelScan(s)
      PROVE  Goal
  BY <1>1 DEF Worker, Start, publishScanEvent, Fail, LoseJob, Redeliver, CancelScan, WorkerStep
<1>2. CASE Enricher \/ EnricherStops \/ FeedChanges \/ CacheExpires
  BY <1>2 DEF Enricher, EnrichScan, fetchEPSSBatched, loadKEVCatalog, Enriched, EnricherStarts,
       EnricherStops, FeedChanges, CacheExpires, EnricherStep
<1>3. ASSUME NEW r \in Rules, CreateSuppression(r) \/ UpdateSuppression(r) \/ DeleteSuppression(r)
      PROVE  Goal
  <2>1. PICK old \in SUBSET States, new \in States : SetRule(r, old, new)
    BY <1>3 DEF CreateSuppression, UpdateSuppression, DeleteSuppression, States
  <2>2. QED
    BY <2>1
<1>4. CASE \E i \in Images : DeleteImage(i)
  BY <1>4 DEF DeleteImage
<1>5. CASE UNCHANGED vars
  BY <1>5 DEF vars
<1>6. QED
  BY <1>1, <1>2, <1>3, <1>4, <1>5 DEF Next

(* Steps of the client. *)
LEMMA ClientKeeps ==
    ASSUME Inv, Client \/ GateFails
    PROVE  GateInv'
<1> DEFINE Goal == GateInv'
           All == ListFindingsForScan(Mine)
<1>0. ScansInv /\ RestInv /\ GateInv /\ gate \in GateRow
  BY DEF Inv, GateInv
<1>c. ClientStep
  BY DEF Client, GateFails, pollUntilDone, CountFindings, ListPage, ReadDetail, EvaluatePolicy
<1>s. /\ All' = All /\ FindingsOf(Mine)' = FindingsOf(Mine)
      /\ \A f : KEVListed(f)' = KEVListed(f)
      /\ \A f : Suppressed(f, rules)' = Suppressed(f, rules)
      /\ scene' = scene /\ OnePage' = OnePage
  <2>1. UNCHANGED <<rules, enriched, scene>> /\ Stored' = Stored
    BY <1>c DEF ClientStep, Stored
  <2>2. QED
    BY <2>1, <1>0, SameQueries, QueryFacts DEF OnePage
<1>q. /\ FindingsOf(Mine) \subseteq FindingIds /\ All \subseteq FindingsOf(Mine)
      /\ IsFiniteSet(All) /\ Cardinality(All) \in Nat
      /\ OnePage => Cardinality(All) <= PerPage
  BY <1>0, QueryFacts
<1>1. CASE pollUntilDone
  <2>1. gate.pc = "poll" /\ gate.got = {} /\ gate.count = 0 /\ gate.shown = {}
    BY <1>1, <1>0 DEF pollUntilDone, GateInv
  <2>2. CASE gate' = [gate EXCEPT !.pc = "failed"]
    <3>1. /\ gate' \in GateRow /\ gate'.pc = "failed" /\ gate'.shown = {} /\ gate'.got = {}
          /\ gate'.hidden = gate.hidden
      BY <2>1, <2>2, <1>0 DEF GateRow, Ended
    <3>2. QED
      BY <3>1, <1>0, <1>s DEF GateInv, GateIgnoresSuppressed, GateMissesNothing
  <2>3. CASE gate' # [gate EXCEPT !.pc = "failed"]
    <3> DEFINE hidden == {f \in FindingsOf(Mine) : Suppressed(f, rules)}
               flagged == {f \in FindingsOf(Mine) : KEVListed(f)}
    <3>1. gate' = [gate EXCEPT !.pc = "count", !.shown = All, !.hidden = hidden, !.flagged = flagged]
      BY <1>1, <2>3 DEF pollUntilDone, ListFindingsForScan
    <3>2. /\ All \in SUBSET FindingIds /\ hidden \in SUBSET FindingIds
          /\ flagged \in SUBSET FindingIds
      BY <1>q
    <3>3. /\ \A f \in hidden : Suppressed(f, rules)
          /\ \A f \in flagged : KEVListed(f)
      OBVIOUS
    <3> HIDE DEF hidden, flagged, All
    <3>4. /\ gate' \in GateRow /\ gate'.pc = "count" /\ gate'.shown = All /\ gate'.got = {}
          /\ gate'.hidden = hidden /\ gate'.flagged = flagged /\ gate'.count = 0
      BY <3>1, <3>2, <2>1, <1>0 DEF GateRow, Ended
    <3>5. gate'.shown \subseteq ListFindingsForScan(Mine)'
      BY <3>4, <1>s DEF All
    <3>6. QED
      BY <3>3, <3>4, <3>5, <1>s DEF GateInv, GateIgnoresSuppressed, GateMissesNothing
  <2>4. QED
    BY <2>2, <2>3
<1>2. CASE CountFindings
  <2> DEFINE n == Cardinality(All)
  <2>1. gate.pc = "count" /\ gate' = [gate EXCEPT !.pc = "page", !.total = n]
    BY <1>2 DEF CountFindings
  <2>2. n \in Nat /\ (OnePage => n <= PerPage)
    BY <1>q
  <2> HIDE DEF n
  <2>3. /\ gate' \in GateRow /\ gate'.pc = "page" /\ gate'.total = n /\ gate'.count = gate.count
        /\ gate'.shown = gate.shown /\ gate'.hidden = gate.hidden /\ gate'.got = gate.got
        /\ gate'.flagged = gate.flagged
    BY <2>1, <2>2, <1>0 DEF GateRow, Ended
  <2>4. gate'.shown \subseteq ListFindingsForScan(Mine)'
    BY <2>3, <1>0, <1>s DEF GateInv
  <2>5. QED
    BY <2>1, <2>2, <2>3, <2>4, <1>0, <1>s DEF GateInv, GateIgnoresSuppressed, GateMissesNothing
<1>3. CASE ListPage
  <2>1. PICK batch \in Page(All) :
            LET n == Cardinality(batch)
                next == IF ~ LastPage(n) THEN "count" ELSE "details"
            IN  gate' = [gate EXCEPT !.pc = next, !.count = gate.count + n,
                                     !.got = gate.got \cup batch,
                                     !.todo = IF next = "details" /\ scene.kev
                                              THEN gate.got \cup batch ELSE {}]
    BY <1>3 DEF ListPage
  <2> DEFINE n == Cardinality(batch)
             next == IF ~ LastPage(n) THEN "count" ELSE "details"
             count == gate.count + n
             todo == IF next = "details" /\ scene.kev THEN gate.got \cup batch ELSE {}
  <2>2. gate' = [gate EXCEPT !.pc = next, !.count = count, !.got = gate.got \cup batch,
                             !.todo = todo]
    BY <2>1
  <2>3. gate.pc = "page"
    BY <1>3 DEF ListPage
  <2>4. batch \subseteq All /\ n \in Nat
    BY <1>q, FS_Subset, FS_CardinalityType DEF Page
  <2>5. count \in Nat /\ next \in {"count", "details"}
    BY <2>4, <1>0 DEF GateRow
  <2>6. todo \in SUBSET FindingIds /\ gate.got \cup batch \in SUBSET FindingIds
    BY <2>4, <1>q, <1>0 DEF GateRow
  <2>7. OnePage => batch = All /\ next = "details"
    <3> SUFFICES ASSUME OnePage
                 PROVE  batch = All /\ next = "details"
      OBVIOUS
    <3>1. gate.count = 0 /\ gate.total <= PerPage /\ gate.total \in Nat
      BY <2>3, <1>0 DEF GateInv, GateRow
    <3>2. batch = All
      BY <3>1, <1>q, PageIsAll
    <3>3. n < PerPage \/ gate.count + n >= gate.total
      BY <3>1, <3>2, <2>4, <1>q, ConstantFacts
    <3>4. QED
      BY <3>2, <3>3 DEF LastPage
  <2>8. next = "details" /\ scene.kev => todo = gate.got \cup batch
    OBVIOUS
  <2> HIDE DEF n, next, count, todo, All
  <2>9. /\ gate' \in GateRow /\ gate'.pc = next /\ gate'.got = gate.got \cup batch
        /\ gate'.todo = todo /\ gate'.shown = gate.shown /\ gate'.hidden = gate.hidden
        /\ gate'.flagged = gate.flagged
    BY <2>2, <2>5, <2>6, <1>0 DEF GateRow, Ended
  <2>10. gate'.shown \subseteq ListFindingsForScan(Mine)' /\ gate.shown \subseteq All
    BY <2>9, <1>0, <1>s DEF GateInv, All
  <2>11. GateIgnoresSuppressed'
    <3>1. \A f \in batch : ~ Suppressed(f, rules)
      BY <2>4 DEF All, ListFindingsForScan
    <3>2. \A f \in gate.hidden : Suppressed(f, rules)
      BY <1>0 DEF GateInv
    <3>3. gate.got \cap gate.hidden = {}
      BY <1>0 DEF GateInv, GateIgnoresSuppressed
    <3>4. QED
      BY <3>1, <3>2, <3>3, <2>9 DEF GateIgnoresSuppressed
  <2>12. GateMissesNothing'
    BY <2>5, <2>9 DEF GateMissesNothing
  <2>13. OnePage' => /\ gate'.pc = "details" /\ gate'.shown \subseteq gate'.got
                     /\ scene'.kev => gate'.shown \subseteq gate'.todo
    BY <2>7, <2>8, <2>9, <2>10, <1>s
  <2>14. QED
    BY <2>5, <2>9, <2>10, <2>11, <2>12, <2>13, <1>0, <1>s DEF GateInv
<1>4. ASSUME NEW f \in gate.todo, ReadDetail(f)
      PROVE  Goal
  <2>1. gate.pc = "details" /\ f \in FindingIds
    BY <1>4, <1>0 DEF ReadDetail, GateRow
  <2>2. CASE gate' = [gate EXCEPT !.pc = "error"]
    <3>1. /\ gate' \in GateRow /\ gate'.pc = "error" /\ gate'.got = gate.got
          /\ gate'.shown = gate.shown /\ gate'.hidden = gate.hidden
          /\ gate'.flagged = gate.flagged
      BY <2>2, <1>0 DEF GateRow, Ended
    <3>2. gate'.shown \subseteq ListFindingsForScan(Mine)'
      BY <3>1, <1>0, <1>s DEF GateInv
    <3>3. QED
      BY <3>1, <3>2, <1>0, <1>s DEF GateInv, GateIgnoresSuppressed, GateMissesNothing
  <2>3. CASE gate' # [gate EXCEPT !.pc = "error"]
    <3> DEFINE read == IF KEVListed(f) THEN gate.read \cup {f} ELSE gate.read
    <3>1. gate' = [gate EXCEPT !.todo = gate.todo \ {f}, !.read = read]
      BY <1>4, <2>3 DEF ReadDetail
    <3>2. read \in SUBSET FindingIds /\ gate.read \subseteq read /\ (KEVListed(f) => f \in read)
      BY <2>1, <1>0 DEF GateRow
    <3> HIDE DEF read
    <3>3. /\ gate' \in GateRow /\ gate'.pc = "details" /\ gate'.got = gate.got
          /\ gate'.shown = gate.shown /\ gate'.hidden = gate.hidden
          /\ gate'.flagged = gate.flagged /\ gate'.todo = gate.todo \ {f} /\ gate'.read = read
      BY <3>1, <3>2, <2>1, <1>0 DEF GateRow, Ended
    <3>4. gate'.shown \subseteq ListFindingsForScan(Mine)'
      BY <3>3, <1>0, <1>s DEF GateInv
    <3>5. gate.shown \cap gate.flagged \subseteq gate.todo \cup gate.read =>
              gate'.shown \cap gate'.flagged \subseteq gate'.todo \cup gate'.read
      BY <3>2, <3>3, <1>0 DEF GateInv
    <3>6. QED
      BY <3>3, <3>4, <3>5, <2>1, <1>0, <1>s DEF GateInv, GateIgnoresSuppressed, GateMissesNothing
  <2>4. QED
    BY <2>2, <2>3
<1>5. CASE EvaluatePolicy
  <2> DEFINE pc == IF Violations = {} THEN "pass" ELSE "block"
  <2>1. gate.pc = "details" /\ gate.todo = {} /\ gate' = [gate EXCEPT !.pc = pc]
    BY <1>5 DEF EvaluatePolicy
  <2>2. pc \in {"pass", "block"}
    OBVIOUS
  <2>3. pc = "pass" => gate.read = {} /\ \A f \in gate.got : ~ MeetsFailThreshold(f)
    BY DEF Violations
  <2> HIDE DEF pc
  <2>4. /\ gate' \in GateRow /\ gate'.pc = pc /\ gate'.got = gate.got
        /\ gate'.shown = gate.shown /\ gate'.hidden = gate.hidden
        /\ gate'.flagged = gate.flagged
    BY <2>1, <2>2, <1>0 DEF GateRow, Ended
  <2>5. gate'.shown \subseteq ListFindingsForScan(Mine)'
    BY <2>4, <1>0, <1>s DEF GateInv
  <2>6. GateMissesNothing'
    <3> SUFFICES ASSUME pc = "pass", OnePage
                 PROVE  \A f \in gate.shown :
                            ~ MeetsFailThreshold(f) /\ (scene.kev => f \notin gate.flagged)
      BY <2>4, <1>s DEF GateMissesNothing, OnePage
    <3>1. gate.shown \subseteq gate.got
      BY <2>1, <1>0 DEF GateInv
    <3>2. scene.kev => gate.shown \cap gate.flagged = {}
      BY <2>1, <2>3, <1>0 DEF GateInv
    <3>3. QED
      BY <3>1, <3>2, <2>3
  <2>7. QED
    BY <2>2, <2>4, <2>5, <2>6, <1>0, <1>s DEF GateInv, GateIgnoresSuppressed
<1>6. CASE GateFails
  <2>1. /\ gate' \in GateRow /\ gate'.pc = "error" /\ gate'.got = gate.got
        /\ gate'.shown = gate.shown /\ gate'.hidden = gate.hidden
        /\ gate'.flagged = gate.flagged
    BY <1>6, <1>0 DEF GateRow, Ended, GateFails
  <2>2. gate'.shown \subseteq ListFindingsForScan(Mine)'
    BY <2>1, <1>0, <1>s DEF GateInv
  <2>3. QED
    BY <2>1, <2>2, <1>0, <1>s DEF GateInv, GateIgnoresSuppressed, GateMissesNothing
<1>7. QED
  BY <1>1, <1>2, <1>3, <1>4, <1>5, <1>6 DEF Client

LEMMA GateStep ==
    ASSUME Inv, [Next]_vars
    PROVE  GateInv'
<1> DEFINE Goal == GateInv'
           All == ListFindingsForScan(Mine)
<1>0. ScansInv /\ RestInv /\ GateInv /\ gate \in GateRow /\ scene.gate \in Scans
  BY QueryFacts DEF Inv, GateInv
<1>s. scene' = scene /\ OnePage' = OnePage
  BY ScansStep DEF OnePage
<1>1. ASSUME UNCHANGED <<gate, rules, enriched>>, Stored' = Stored
      PROVE  Goal
  <2>1. /\ All' = All /\ \A f : KEVListed(f)' = KEVListed(f)
        /\ \A f : Suppressed(f, rules)' = Suppressed(f, rules)
    BY <1>1, <1>0, <1>s, SameQueries
  <2> HIDE DEF All
  <2>2. gate'.shown \subseteq ListFindingsForScan(Mine)'
    BY <2>1, <1>0, <1>1 DEF GateInv, All
  <2>3. QED
    BY <2>1, <2>2, <1>0, <1>1, <1>s DEF GateInv, GateIgnoresSuppressed, GateMissesNothing
<1>2. CASE Client \/ GateFails
  BY <1>2, ClientKeeps
<1>3. ASSUME NEW s \in Scans, PersistScanResults(s)
      PROVE  Goal
  <2> DEFINE shown == {f \in gate.shown : ScanOf(f) # s}
  <2>1. /\ gate' = [gate EXCEPT !.shown = shown]
        /\ enriched' = [f \in Kept(s) |-> enriched[f]] /\ rules' = rules
    BY <1>3 DEF PersistScanResults, WorkerStep
  <2>2. shown \in SUBSET FindingIds /\ shown \subseteq gate.shown
    BY <1>0 DEF GateRow
  <2>3. \A f \in shown : f \in All /\ ScanOf(f) # s
    BY <1>0 DEF GateInv
  <2> HIDE DEF shown
  <2>4. /\ gate' \in GateRow /\ gate'.shown = shown /\ gate'.pc = gate.pc /\ gate'.got = gate.got
        /\ gate'.count = gate.count /\ gate'.total = gate.total /\ gate'.todo = gate.todo
        /\ gate'.read = gate.read /\ gate'.hidden = gate.hidden /\ gate'.flagged = gate.flagged
    BY <2>1, <2>2, <1>0 DEF GateRow
  <2>5. ASSUME NEW f \in shown
        PROVE  f \in ListFindingsForScan(Mine)'
    <3>1. f \in FindingsOf(scene.gate) /\ ~ Suppressed(f, rules) /\ ScanOf(f) # s
      BY <2>3 DEF ListFindingsForScan, Mine
    <3>2. ScanOf(f) = scene.gate
      BY <3>1, <1>0, FindingsFacts
    <3>3. PICK r \in Scans \ {s} : r = scene.gate
      BY <3>1, <3>2, <1>0
    <3>4. f \in FindingsOf(r)'
      BY <3>1, <3>3, <1>0, <1>3, OtherFindings
    <3>g. r = Mine'
      BY <3>3, <1>s DEF Mine
    <3>5. ~ Suppressed(f, rules)'
      BY <3>1, <2>1 DEF Suppressed, Matches
    <3>h. f \in FindingsOf(Mine)'
      BY <3>4, <3>g DEF FindingsOf
    <3>6. QED
      BY <3>h, <3>5 DEF ListFindingsForScan
  <2>6. ASSUME NEW f \in shown \cap gate.flagged
        PROVE  KEVListed(f)'
    <3>1. KEVListed(f) /\ ScanOf(f) # s
      BY <2>2, <2>3, <1>0 DEF GateInv
    <3>2. f \in Kept(s)
      BY <3>1 DEF KEVListed, Kept
    <3>3. QED
      BY <3>1, <3>2, <2>1 DEF KEVListed
  <2>7. \A f \in gate'.hidden : Suppressed(f, rules)'
    BY <2>1, <2>4, <1>0 DEF GateInv, Suppressed, Matches
  <2>8. \A f \in gate'.shown \cap gate'.flagged : KEVListed(f)'
    BY <2>4, <2>6
  <2>9. gate'.shown \subseteq ListFindingsForScan(Mine)'
    BY <2>4, <2>5
  <2>10. GateIgnoresSuppressed' /\ GateMissesNothing'
    BY <2>2, <2>4, <1>0, <1>s DEF GateInv, GateIgnoresSuppressed, GateMissesNothing
  <2>11. gate'.pc = "poll" => gate'.got = {} /\ gate'.count = 0 /\ gate'.shown = {}
    BY <2>2, <2>4, <1>0 DEF GateInv
  <2>12. OnePage' =>
           /\ gate'.pc \in {"count", "page"} => gate'.count = 0
           /\ gate'.pc = "page" => gate'.total <= PerPage
           /\ gate'.pc = "details" =>
                  /\ gate'.shown \subseteq gate'.got
                  /\ scene'.kev => gate'.shown \cap gate'.flagged \subseteq gate'.todo \cup gate'.read
    BY <2>2, <2>4, <1>0, <1>s DEF GateInv
  <2>13. QED
    BY <2>4, <2>7, <2>8, <2>9, <2>10, <2>11, <2>12 DEF GateInv
<1>4. ASSUME NEW f \in enr.todo, Upsert(f)
      PROVE  Goal
  <2>1. Stored' = Stored /\ UNCHANGED <<rules, scans, live>>
    BY <1>4 DEF Upsert, Stored
  <2>2. CASE UNCHANGED <<gate, enriched>>
    BY <2>1, <2>2, <1>1
  <2>3. CASE ~ UNCHANGED <<gate, enriched>>
    <3> DEFINE listed == Vuln(f).cve \in enr.listed
               flagged == IF listed THEN gate.flagged ELSE gate.flagged \ {f}
    <3>1. /\ gate' = [gate EXCEPT !.flagged = flagged]
          /\ enriched' = [g \in DOMAIN enriched \cup {f} |->
                            IF g = f THEN [kev |-> listed, epss |-> Vuln(f).cve \in enr.scored,
                                           sound |-> enr.sound]
                            ELSE enriched[g]]
      BY <1>4, <2>3 DEF Upsert
    <3>2. flagged \in SUBSET FindingIds /\ flagged \subseteq gate.flagged
          /\ (f \in flagged => listed)
      BY <1>0 DEF GateRow
    <3>3. \A g : (KEVListed(g) /\ g # f) => KEVListed(g)'
      BY <3>1 DEF KEVListed
    <3>4. listed => KEVListed(f)'
      BY <3>1 DEF KEVListed
    <3> HIDE DEF flagged, listed
    <3>5. /\ gate' \in GateRow /\ gate'.flagged = flagged /\ gate'.shown = gate.shown
          /\ gate'.pc = gate.pc /\ gate'.got = gate.got
          /\ gate'.count = gate.count /\ gate'.total = gate.total /\ gate'.todo = gate.todo
          /\ gate'.read = gate.read /\ gate'.hidden = gate.hidden
      BY <3>1, <3>2, <1>0 DEF GateRow
    <3>6. \A g \in gate'.hidden : Suppressed(g, rules)'
      BY <2>1, <3>5, <1>0 DEF GateInv, Suppressed, Matches
    <3>7. \A g \in gate'.shown \cap gate'.flagged : KEVListed(g)'
      BY <3>2, <3>3, <3>4, <3>5, <1>0 DEF GateInv
    <3>8. gate'.shown \subseteq ListFindingsForScan(Mine)'
      BY <2>1, <3>5, <1>0, <1>s
      DEF GateInv, ListFindingsForScan, FindingsOf, Mine, Suppressed, Matches
    <3>9. GateIgnoresSuppressed' /\ GateMissesNothing'
      BY <3>2, <3>5, <1>0, <1>s DEF GateInv, GateIgnoresSuppressed, GateMissesNothing
    <3>10. OnePage' =>
           /\ gate'.pc \in {"count", "page"} => gate'.count = 0
           /\ gate'.pc = "page" => gate'.total <= PerPage
           /\ gate'.pc = "details" =>
                  /\ gate'.shown \subseteq gate'.got
                  /\ scene'.kev => gate'.shown \cap gate'.flagged \subseteq gate'.todo \cup gate'.read
      BY <3>2, <3>5, <1>0, <1>s DEF GateInv
    <3>11. QED
      BY <3>5, <3>6, <3>7, <3>8, <3>9, <3>10, <1>0 DEF GateInv
  <2>4. QED
    BY <2>2, <2>3
<1>5. ASSUME NEW r \in Rules, NEW old \in SUBSET States, NEW new \in States, SetRule(r, old, new)
      PROVE  Goal
  <2> DEFINE shown == {f \in gate.shown : ~ Suppressed(f, rules')}
             hidden == {f \in gate.hidden : Suppressed(f, rules')}
  <2>1. gate' = [gate EXCEPT !.shown = shown, !.hidden = hidden] /\ UNCHANGED <<scans, enriched>>
    BY <1>5 DEF SetRule, Watch
  <2>2. shown \subseteq gate.shown /\ hidden \subseteq gate.hidden
    OBVIOUS
  <2>3. (\A f \in shown : ~ Suppressed(f, rules)') /\ (\A f \in hidden : Suppressed(f, rules)')
    BY DEF Suppressed, Matches
  <2> HIDE DEF shown, hidden
  <2>4. /\ gate' \in GateRow /\ gate'.shown = shown /\ gate'.hidden = hidden
        /\ gate'.pc = gate.pc /\ gate'.got = gate.got
        /\ gate'.count = gate.count /\ gate'.total = gate.total /\ gate'.todo = gate.todo
        /\ gate'.read = gate.read /\ gate'.flagged = gate.flagged
    BY <2>1, <2>2, <1>0 DEF GateRow
  <2>5. \A f \in gate'.shown \cap gate'.flagged : KEVListed(f)'
    BY <2>1, <2>2, <2>4, <1>0 DEF GateInv, KEVListed
  <2>6. gate'.shown \subseteq ListFindingsForScan(Mine)'
    <3>1. FindingsOf(Mine)' = FindingsOf(Mine)
      BY <2>1, <1>s DEF FindingsOf, Mine
    <3>2. gate.shown \subseteq FindingsOf(Mine)
      BY <1>0 DEF GateInv, ListFindingsForScan
    <3>3. QED
      BY <3>1, <3>2, <2>2, <2>3, <2>4 DEF ListFindingsForScan
  <2>7. GateIgnoresSuppressed' /\ GateMissesNothing'
    BY <2>2, <2>4, <1>0, <1>s DEF GateInv, GateIgnoresSuppressed, GateMissesNothing
  <2>8. OnePage' =>
           /\ gate'.pc \in {"count", "page"} => gate'.count = 0
           /\ gate'.pc = "page" => gate'.total <= PerPage
           /\ gate'.pc = "details" =>
                  /\ gate'.shown \subseteq gate'.got
                  /\ scene'.kev => gate'.shown \cap gate'.flagged \subseteq gate'.todo \cup gate'.read
    BY <2>2, <2>4, <1>0, <1>s DEF GateInv
  <2>9. gate'.pc = "poll" => gate'.got = {} /\ gate'.count = 0 /\ gate'.shown = {}
    BY <2>2, <2>4, <1>0 DEF GateInv
  <2>10. QED
    BY <2>3, <2>4, <2>5, <2>6, <2>7, <2>8, <2>9 DEF GateInv
<1>6. QED
  <2>1. Stored' = Stored \/ \E s \in Scans : PersistScanResults(s)
    BY ScansStep
  <2>2. QED
    BY <2>1, <1>1, <1>2, <1>3, <1>4, <1>5, GateFrame

-----------------------------------------------------------------------------
(* The theorems.                                                             *)

LEMMA InvHolds == Spec => []Inv
<1>1. Inv /\ [Next]_vars => Inv'
  BY ScansStep, EnrichedStep, KevStep, EnrStep, RestStep, GateStep DEF Inv
<1>2. QED
  BY <1>1, InitInv, PTL DEF Spec

(* The state is well formed: jobs never begin an attempt too many, and the   *)
(* rows of enrichments are of findings that are there.                       *)
THEOREM GateTypeCorrect == Spec => []TypeOK
BY InvHolds, InvTypeOK, PTL

(* A CVE of CISA's catalogue is stored as not listed only by a run of the    *)
(* enricher (EnrichScan, loadKEVCatalog) during which CISA did not serve the *)
(* catalogue, or that could find a body in Redis that cannot be parsed.      *)
THEOREM ListedIsFlaggedCorrect == Spec => []ListedIsFlagged
<1>1. Inv => ListedIsFlagged
  BY DEF Inv, EnrichedInv
<1>2. QED
  BY <1>1, InvHolds, PTL

(* Whatever rules users set while vullify-cli scan reads, in pages of any    *)
(* size, it reports and objects to no finding that was suppressed all along. *)
THEOREM GateIgnoresSuppressedCorrect == Spec => []GateIgnoresSuppressed
<1>1. Inv => GateIgnoresSuppressed
  BY DEF Inv, GateInv
<1>2. QED
  BY <1>1, InvHolds, PTL

(* vullify-cli scan passes no finding that its policy objects to and that    *)
(* was there, shown and, for --fail-on-kev, listed all along, as long as the *)
(* findings fit in one page; whatever the worker stores again, the enricher  *)
(* writes and users suppress meanwhile.                                      *)
THEOREM GateMissesNothingCorrect == Spec => []GateMissesNothing
<1>1. Inv => GateMissesNothing
  BY DEF Inv, GateInv
<1>2. QED
  BY <1>1, InvHolds, PTL
=============================================================================
