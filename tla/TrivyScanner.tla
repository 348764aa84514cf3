---------------------------- MODULE TrivyScanner ----------------------------
(***************************************************************************)
(* The goroutines of one worker scan images with one TrivyScanner.  Each   *)
(* stores the credentials of its job in the scanner's field ExtraEnv,      *)
(* reads the field back and passes what it read to three runs of Trivy,    *)
(* without a lock.  A slice is an array and a length, two words of memory  *)
(* that are stored and loaded one at a time and in any order.              *)
(*                                                                         *)
(* Sources: internal/scanner/trivy.go and scanner.go, internal/worker/     *)
(* runner.go and worker.go, internal/scanqueue/scanqueue.go.               *)
(***************************************************************************)
EXTENDS Integers, FiniteSets

CONSTANTS
    Goroutines, Jobs,
    Type,        \* Type[j]: of the registry of the job's image
    Private,     \* the jobs whose image needs the credentials of its registry
    MaxRetries,
    MaxFaults    \* bound on runs that fail for another reason

Nil == <<>>

ASSUME ScannerAssumption ==
    /\ Nil \notin Jobs
    /\ Type \in [Jobs -> STRING] /\ Private \subseteq Jobs
    /\ MaxRetries \in Nat \ {0} /\ MaxFaults \in Nat

VARIABLES
    ExtraEnv,  \* the field: the job whose array it points to, and a length
    run,       \* what each goroutine is doing
    outcome,   \* of each job
    met,       \* pairs of jobs between whose first store and last load the
               \* other had one of its own
    faults

vars == <<ExtraEnv, run, outcome, met, faults>>

Words == {"array", "length"}

\* Only of these types; the registry of a "generic" type has none, whatever its
\* row says, since it goes by another name here.
CredentialsFromRegistryJSON(j) == Type[j] \in {"ghcr", "dockerhub", "generic_v2"}

\* Mutated form of extraEnv: the variables of one type are left out.
extraEnvOfGHCR(j) ==
    IF Type[j] = "ghcr" THEN [array |-> j, length |-> 2] ELSE [array |-> Nil, length |-> 0]

\* TRIVY_USERNAME and TRIVY_PASSWORD, or no array at all.
extraEnv(j) ==
    IF CredentialsFromRegistryJSON(j) THEN [array |-> j, length |-> 2]
    ELSE [array |-> Nil, length |-> 0]

NoEnv == [array |-> Nil, length |-> 0]
Idle == [pc |-> "idle", job |-> Nil, attempt |-> 0, store |-> {}, load |-> {}, extra |-> NoEnv]

Init ==
    /\ ExtraEnv = NoEnv
    /\ run = [g \in Goroutines |-> Idle]
    /\ outcome = [j \in Jobs |-> "waiting"]
    /\ met = {} /\ faults = 0

Phases == {"json", "cyclonedx", "spdx"}
At(g, pc) == run[g].pc = pc
Go(g, r) == run' = [run EXCEPT ![g] = r]

Claim(g) ==
    /\ At(g, "idle")
    /\ \E j \in Jobs :
           /\ outcome[j] = "waiting"
           /\ outcome' = [outcome EXCEPT ![j] = "claimed"]
           /\ Go(g, [Idle EXCEPT !.pc = "opts", !.job = j])
    /\ UNCHANGED <<ExtraEnv, met, faults>>

\* Mutated form of WordsToStore: the field is left alone without credentials.
WordsOfCredentials(j) == IF CredentialsFromRegistryJSON(j) THEN Words ELSE {}

WordsToStore(j) == Words

ScanImage(g) ==
    /\ At(g, "opts")
    /\ Go(g, [run[g] EXCEPT !.pc = "env", !.attempt = @ + 1,
                            !.store = WordsToStore(run[g].job), !.load = Words])
    /\ UNCHANGED <<ExtraEnv, outcome, met, faults>>

\* Between its first store and its last load.
InWindow(g) == At(g, "env") /\ run[g].store # Words

StoreWord(g, w) ==
    /\ At(g, "env") /\ w \in run[g].store
    /\ ExtraEnv' = [ExtraEnv EXCEPT ![w] = extraEnv(run[g].job)[w]]
    /\ Go(g, [run[g] EXCEPT !.store = @ \ {w}])
    /\ met' = met \cup UNION {{<<run[g].job, run[h].job>>, <<run[h].job, run[g].job>>} :
                                 h \in {k \in Goroutines \ {g} : InWindow(k)}}
    /\ UNCHANGED <<outcome, faults>>

execFn(g, w) ==
    /\ At(g, "env") /\ run[g].store = {} /\ w \in run[g].load
    /\ Go(g, [run[g] EXCEPT !.load = @ \ {w}, !.extra[w] = ExtraEnv[w],
                            !.pc = IF run[g].load = {w} THEN "json" ELSE "env"])
    /\ UNCHANGED <<ExtraEnv, outcome, met, faults>>

Used(g) == run[g].extra.array
Torn(g) == run[g].extra.length > 0 /\ Used(g) = Nil

\* What the registry answers to Trivy, run with two variables or with none.
Refused(g) ==
    /\ run[g].job \in Private
    /\ run[g].extra.length > 0 => Type[Used(g)] # Type[run[g].job]

\* A public image is also served, or not, to one with the wrong credentials.
MayRefuse(g) == Refused(g) \/ (run[g].extra.length > 0 /\ Used(g) # run[g].job)

NextPhase == [json |-> "cyclonedx", cyclonedx |-> "spdx", spdx |-> "done"]

Finish(g, result) ==
    /\ outcome' = [outcome EXCEPT ![run[g].job] = result]
    /\ Go(g, Idle)

Trivy(g) ==
    /\ run[g].pc \in Phases /\ ~ Torn(g) /\ ~ Refused(g)
    /\ IF At(g, "spdx") THEN Finish(g, "scanned")
       ELSE Go(g, [run[g] EXCEPT !.pc = NextPhase[@]]) /\ UNCHANGED outcome
    /\ UNCHANGED <<ExtraEnv, met, faults>>

\* Mutated form of Final: what the registry refused is tried again.
FinalIfLast(g, kind) == kind = "scan" /\ run[g].attempt >= MaxRetries

\* processJobWithRetry does not try again what could not be pulled.
Final(g, kind) == kind = "pull" \/ run[g].attempt >= MaxRetries

Failed(g, kind, result) ==
    /\ IF Final(g, kind) THEN Finish(g, result)
       ELSE Go(g, [Idle EXCEPT !.pc = "opts", !.job = run[g].job, !.attempt = run[g].attempt])
            /\ UNCHANGED outcome
    /\ UNCHANGED <<ExtraEnv, met>>

\* classifyTrivyFailure goes by what Trivy wrote: a refusal in words that it
\* does not know counts as a failure of the scan and is tried again.
TrivyRefused(g) ==
    /\ run[g].pc \in Phases /\ ~ Torn(g) /\ MayRefuse(g)
    /\ \E kind \in {"pull", "scan"} : Failed(g, kind, "refused")
    /\ UNCHANGED faults

\* A registry that cannot be reached counts as a failure to pull; all else, and
\* output that cannot be parsed, as one of the scan.
TrivyFails(g) ==
    /\ run[g].pc \in Phases /\ ~ Torn(g)
    /\ faults < MaxFaults /\ faults' = faults + 1
    /\ Failed(g, "pull", "unreachable") \/ Failed(g, "scan", "failed")

\* append copies two strings from no array: the process dies with all its jobs
\* and starts again.
Panic(g) ==
    /\ At(g, "json") /\ Torn(g)
    /\ outcome' = [j \in Jobs |-> IF outcome[j] = "claimed" THEN "lost" ELSE outcome[j]]
    /\ run' = [h \in Goroutines |-> Idle]
    /\ ExtraEnv' = NoEnv
    /\ UNCHANGED <<met, faults>>

Step(g) ==
    \/ Claim(g) \/ ScanImage(g) \/ Trivy(g) \/ TrivyRefused(g) \/ Panic(g)
    \/ \E w \in Words : StoreWord(g, w) \/ execFn(g, w)

Next == \E g \in Goroutines : Step(g) \/ TrivyFails(g)

Spec == Init /\ [][Next]_vars

-----------------------------------------------------------------------------
(* Properties *)

Env == [array : Jobs \cup {Nil}, length : {0, 2}]

\* The state is well formed, and a job that was claimed is some goroutine's.
TypeOK ==
    /\ ExtraEnv \in Env
    /\ run \in [Goroutines -> [pc : {"idle", "opts", "env"} \cup Phases,
                               job : Jobs \cup {Nil}, attempt : 0..MaxRetries,
                               store : SUBSET Words, load : SUBSET Words, extra : Env]]
    /\ outcome \in [Jobs -> {"waiting", "claimed", "scanned", "refused", "unreachable",
                             "failed", "lost"}]
    /\ \A j \in Jobs : outcome[j] = "claimed" <=> \E g \in Goroutines : run[g].job = j
    /\ met \subseteq Jobs \X Jobs /\ faults \in 0..MaxFaults

\* Trivy runs with the variables of its own job, word by word, or with words of
\* a job that stored and loaded its own at the same time; never with what an
\* earlier job has left, and a goroutine alone always has its own.
CredentialsStay ==
    \A g \in Goroutines : run[g].pc \in Phases =>
        \A w \in Words :
            \/ run[g].extra[w] = extraEnv(run[g].job)[w]
            \/ \E j \in Jobs : <<run[g].job, j>> \in met /\ run[g].extra[w] = extraEnv(j)[w]

\* A job is refused for good only if it has no credentials for a private image
\* or if it met a job with other variables, and the process dies only if a job
\* with and one without credentials met.
FailureExplained ==
    \A j \in Jobs :
        /\ outcome[j] = "refused" =>
               \/ j \in Private /\ ~ CredentialsFromRegistryJSON(j)
               \/ \E k \in Jobs : <<j, k>> \in met /\ extraEnv(k) # extraEnv(j)
        /\ outcome[j] = "lost" =>
               \E a, b \in Jobs : /\ <<a, b>> \in met
                                  /\ CredentialsFromRegistryJSON(a)
                                  /\ ~ CredentialsFromRegistryJSON(b)
=============================================================================
