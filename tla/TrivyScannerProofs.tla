------------------------- MODULE TrivyScannerProofs -------------------------
(* Theorems about TrivyScanner, for any number of goroutines and jobs, of   *)
(* any types, and any number of retries and failures.                       *)
EXTENDS TrivyScanner, TLAPS

-----------------------------------------------------------------------------
(* The variables of a job.                                                   *)

LEMMA EnvFacts ==
    ASSUME NEW j \in Jobs
    PROVE  /\ extraEnv(j) \in Env
           /\ CredentialsFromRegistryJSON(j) =>
                  extraEnv(j).array = j /\ extraEnv(j).length = 2
           /\ ~ CredentialsFromRegistryJSON(j) =>
                  extraEnv(j).array = Nil /\ extraEnv(j).length = 0
BY DEF extraEnv, Env

LEMMA NoEnvFacts == NoEnv \in Env
BY DEF NoEnv, Env

(* Both words of a slice, by name. *)
LEMMA EnvWords ==
    ASSUME NEW e \in Env, NEW f \in Env, \A w \in Words : e[w] = f[w]
    PROVE  e.array = f.array /\ e.length = f.length
BY DEF Words, Env

-----------------------------------------------------------------------------
(* What the records of the goroutines say beyond their types: a goroutine   *)
(* has a job unless it is idle, no two have the same, and an attempt that    *)
(* is to begin is not beyond the retries.                                    *)

Records == [pc : {"idle", "opts", "env"} \cup Phases, job : Jobs \cup {Nil},
            attempt : 0..MaxRetries, store : SUBSET Words, load : SUBSET Words,
            extra : Env]

Outcomes == {"waiting", "claimed", "scanned", "refused", "unreachable", "failed", "lost"}

JobShape ==
    \A g \in Goroutines :
        /\ run[g].pc = "idle" <=> run[g].job = Nil
        /\ run[g].pc = "opts" => run[g].attempt < MaxRetries

OneHolder ==
    \A g, h \in Goroutines :
        run[g].job = run[h].job /\ run[g].job # Nil => g = h

TypeInv == TypeOK /\ JobShape /\ OneHolder

LEMMA TypeOKParts ==
    TypeOK <=> /\ ExtraEnv \in Env
               /\ run \in [Goroutines -> Records]
               /\ outcome \in [Jobs -> Outcomes]
               /\ \A j \in Jobs : outcome[j] = "claimed" <=>
                                      \E g \in Goroutines : run[g].job = j
               /\ met \subseteq Jobs \X Jobs /\ faults \in 0..MaxFaults
BY DEF TypeOK, Records, Outcomes

LEMMA IdleFacts == Idle \in Records /\ Idle.job = Nil /\ Idle.pc = "idle"
BY NoEnvFacts, ScannerAssumption DEF Idle, Records, Words

(* The record of a job that is about to be scanned. *)
LEMMA ClaimRecord ==
    ASSUME NEW j \in Jobs, NEW r, r = [Idle EXCEPT !.pc = "opts", !.job = j]
    PROVE  r \in Records /\ r.job = j /\ r.pc = "opts" /\ r.attempt = 0
BY IdleFacts DEF Records, Idle

(* A goroutine goes on with its job. *)
LEMMA SameJob ==
    ASSUME TypeInv, NEW g \in Goroutines, NEW r \in Records, Go(g, r),
           r.job = run[g].job, run[g].pc # "idle", r.pc # "idle",
           r.pc = "opts" => r.attempt < MaxRetries,
           ExtraEnv' \in Env, UNCHANGED outcome,
           met' \subseteq Jobs \X Jobs, faults' \in 0..MaxFaults
    PROVE  TypeInv'
<1>1. /\ run' \in [Goroutines -> Records]
      /\ run'[g] = r
      /\ \A h \in Goroutines \ {g} : run'[h] = run[h]
  BY TypeOKParts DEF TypeInv, Go
<1>2. \A h \in Goroutines : run'[h].job = run[h].job
  BY <1>1
<1>3. \A j \in Jobs : outcome'[j] = "claimed" <=> \E h \in Goroutines : run'[h].job = j
  BY <1>2, TypeOKParts DEF TypeInv
<1>4. TypeOK'
  BY <1>1, <1>3, TypeOKParts DEF TypeInv, TypeOK, Records, Outcomes
<1>5. JobShape'
  BY <1>1, <1>2 DEF TypeInv, JobShape
<1>6. OneHolder'
  BY <1>2 DEF TypeInv, OneHolder
<1>7. QED
  BY <1>4, <1>5, <1>6 DEF TypeInv

(* A goroutine is done with its job. *)
LEMMA FinishFacts ==
    ASSUME TypeInv, NEW g \in Goroutines, run[g].pc # "idle",
           NEW result \in Outcomes \ {"claimed"}, Finish(g, result),
           ExtraEnv' \in Env, UNCHANGED met, faults' \in 0..MaxFaults
    PROVE  /\ TypeInv'
           /\ outcome'[run[g].job] = result
           /\ \A j \in Jobs : j # run[g].job => outcome'[j] = outcome[j]
<1>1. /\ run' \in [Goroutines -> Records]
      /\ run'[g] = Idle
      /\ \A h \in Goroutines \ {g} : run'[h] = run[h]
  BY TypeOKParts, IdleFacts DEF TypeInv, Finish, Go
<1>2. run[g].job \in Jobs
  BY TypeOKParts DEF TypeInv, JobShape, Records
<1>3. /\ outcome' \in [Jobs -> Outcomes]
      /\ outcome'[run[g].job] = result
      /\ \A j \in Jobs : j # run[g].job => outcome'[j] = outcome[j]
  BY <1>2, TypeOKParts DEF TypeInv, Finish
<1>4. \A j \in Jobs : outcome'[j] = "claimed" <=> \E h \in Goroutines : run'[h].job = j
  <2> SUFFICES ASSUME NEW j \in Jobs
               PROVE  outcome'[j] = "claimed" <=> \E h \in Goroutines : run'[h].job = j
    OBVIOUS
  <2>1. CASE j = run[g].job
    <3>1. outcome'[j] # "claimed"
      BY <1>3, <2>1
    <3>2. ASSUME NEW h \in Goroutines, run'[h].job = j PROVE FALSE
      <4>1. h # g
        BY <1>1, <3>2, IdleFacts, ScannerAssumption
      <4>2. run[h].job = run[g].job /\ run[g].job # Nil
        BY <1>1, <1>2, <2>1, <3>2, <4>1, ScannerAssumption
      <4>3. QED
        BY <4>1, <4>2 DEF TypeInv, OneHolder
    <3>3. QED
      BY <3>1, <3>2
  <2>2. CASE j # run[g].job
    <3>1. \A h \in Goroutines : run'[h].job = j <=> run[h].job = j
      BY <1>1, <2>2, IdleFacts, ScannerAssumption
    <3>2. QED
      BY <1>3, <2>2, <3>1, TypeOKParts DEF TypeInv
  <2>3. QED
    BY <2>1, <2>2
<1>5. TypeOK'
  BY <1>1, <1>3, <1>4, TypeOKParts DEF TypeInv, TypeOK, Records, Outcomes
<1>6. JobShape'
  BY <1>1, IdleFacts DEF TypeInv, JobShape
<1>7. OneHolder'
  BY <1>1, IdleFacts DEF TypeInv, OneHolder
<1>8. QED
  BY <1>3, <1>5, <1>6, <1>7 DEF TypeInv

LEMMA InitType == Init => TypeInv
<1> SUFFICES ASSUME Init PROVE TypeInv
  OBVIOUS
<1>1. \A g \in Goroutines : run[g] = Idle
  BY DEF Init
<1>2. /\ run \in [Goroutines -> Records]
      /\ \A j \in Jobs : outcome[j] # "claimed" /\ \A g \in Goroutines : run[g].job # j
  BY <1>1, IdleFacts, ScannerAssumption DEF Init
<1>3. TypeOK
  BY <1>2, TypeOKParts, NoEnvFacts, ScannerAssumption DEF Init, Outcomes
<1>4. JobShape /\ OneHolder
  BY <1>1, IdleFacts DEF JobShape, OneHolder
<1>5. QED
  BY <1>3, <1>4 DEF TypeInv

LEMMA ClaimType == ASSUME TypeInv, NEW g \in Goroutines, Claim(g) PROVE TypeInv'
<1>1. PICK j \in Jobs :
          /\ outcome[j] = "waiting"
          /\ outcome' = [outcome EXCEPT ![j] = "claimed"]
          /\ Go(g, [Idle EXCEPT !.pc = "opts", !.job = j])
  BY DEF Claim
<1> DEFINE r == [Idle EXCEPT !.pc = "opts", !.job = j]
<1>2. r \in Records /\ r.job = j /\ r.pc = "opts" /\ r.attempt = 0
  BY ClaimRecord
<1>3. /\ run' \in [Goroutines -> Records]
      /\ run'[g] = r
      /\ \A h \in Goroutines \ {g} : run'[h] = run[h]
  BY <1>1, <1>2, TypeOKParts DEF TypeInv, Go
<1> HIDE DEF r
<1>4. run[g].job = Nil
  BY DEF TypeInv, JobShape, Claim, At
<1>5. \A h \in Goroutines : run[h].job # j
  BY <1>1, TypeOKParts DEF TypeInv
<1>6. /\ outcome' \in [Jobs -> Outcomes]
      /\ outcome'[j] = "claimed"
      /\ \A k \in Jobs \ {j} : outcome'[k] = outcome[k]
  BY <1>1, TypeOKParts DEF TypeInv, Outcomes
<1>7. \A k \in Jobs : outcome'[k] = "claimed" <=> \E h \in Goroutines : run'[h].job = k
  <2> SUFFICES ASSUME NEW k \in Jobs
               PROVE  outcome'[k] = "claimed" <=> \E h \in Goroutines : run'[h].job = k
    OBVIOUS
  <2>1. CASE k = j
    BY <1>2, <1>3, <1>6, <2>1
  <2>2. CASE k # j
    <3>1. \A h \in Goroutines : run'[h].job = k <=> run[h].job = k
      BY <1>2, <1>3, <1>4, <2>2, ScannerAssumption
    <3>2. QED
      BY <1>6, <2>2, <3>1, TypeOKParts DEF TypeInv
  <2>3. QED
    BY <2>1, <2>2
<1>8. TypeOK'
  BY <1>3, <1>6, <1>7, TypeOKParts DEF TypeInv, TypeOK, Records, Outcomes, Claim
<1>9. JobShape'
  BY <1>2, <1>3, ScannerAssumption DEF TypeInv, JobShape
<1>10. OneHolder'
  BY <1>2, <1>3, <1>5 DEF TypeInv, OneHolder
<1>11. QED
  BY <1>8, <1>9, <1>10 DEF TypeInv

LEMMA ScanImageType == ASSUME TypeInv, NEW g \in Goroutines, ScanImage(g) PROVE TypeInv'
<1> DEFINE r == [run[g] EXCEPT !.pc = "env", !.attempt = @ + 1,
                               !.store = WordsToStore(run[g].job), !.load = Words]
<1>1. run[g] \in Records /\ run[g].pc = "opts" /\ run[g].attempt < MaxRetries
  BY TypeOKParts DEF TypeInv, JobShape, ScanImage, At
<1>2. r \in Records /\ r.job = run[g].job /\ r.pc = "env"
  <2>1. run[g].attempt + 1 \in 0..MaxRetries
    BY <1>1, ScannerAssumption DEF Records
  <2>2. WordsToStore(run[g].job) = Words
    BY DEF WordsToStore
  <2>3. QED
    BY <1>1, <2>1, <2>2 DEF Records
<1>3. QED
  BY <1>1, <1>2, SameJob, TypeOKParts DEF ScanImage, TypeInv

(* What a store and a load do to the word w and to the other. *)
LEMMA StoreFacts ==
    ASSUME TypeInv, NEW g \in Goroutines, NEW w \in Words, StoreWord(g, w)
    PROVE  /\ run[g] \in Records /\ run[g].pc = "env" /\ run[g].job \in Jobs
           /\ run'[g] = [run[g] EXCEPT !.store = @ \ {w}]
           /\ \A h \in Goroutines \ {g} : run'[h] = run[h]
           /\ ExtraEnv' \in Env
           /\ ExtraEnv'[w] = extraEnv(run[g].job)[w]
           /\ \A v \in Words \ {w} : ExtraEnv'[v] = ExtraEnv[v]
           /\ met' \subseteq Jobs \X Jobs
<1>1. run[g] \in Records /\ run[g].pc = "env" /\ run[g].job \in Jobs
  BY TypeOKParts DEF TypeInv, JobShape, StoreWord, At, Records
<1>2. /\ run'[g] = [run[g] EXCEPT !.store = @ \ {w}]
      /\ \A h \in Goroutines \ {g} : run'[h] = run[h]
  BY TypeOKParts DEF TypeInv, StoreWord, Go
<1>3. extraEnv(run[g].job) \in Env /\ ExtraEnv \in Env
  BY <1>1, EnvFacts, TypeOKParts DEF TypeInv
<1>4. ExtraEnv' = [ExtraEnv EXCEPT ![w] = extraEnv(run[g].job)[w]]
  BY DEF StoreWord
<1>5. /\ ExtraEnv' \in Env
      /\ ExtraEnv'[w] = extraEnv(run[g].job)[w]
      /\ \A v \in Words \ {w} : ExtraEnv'[v] = ExtraEnv[v]
  <2>1. CASE w = "array"
    BY <1>3, <1>4, <2>1 DEF Env, Words
  <2>2. CASE w = "length"
    BY <1>3, <1>4, <2>2 DEF Env, Words
  <2>3. QED
    BY <2>1, <2>2 DEF Words
<1>6. ASSUME NEW h \in Goroutines \ {g}, InWindow(h) PROVE run[h].job \in Jobs
  BY <1>6, TypeOKParts DEF TypeInv, JobShape, InWindow, At, Records
<1>7. met' \subseteq Jobs \X Jobs
  BY <1>1, <1>6, TypeOKParts DEF TypeInv, StoreWord
<1>8. QED
  BY <1>1, <1>2, <1>5, <1>7

LEMMA StoreType ==
    ASSUME TypeInv, NEW g \in Goroutines, NEW w \in Words, StoreWord(g, w) PROVE TypeInv'
<1> DEFINE r == [run[g] EXCEPT !.store = @ \ {w}]
<1>1. r \in Records /\ r.job = run[g].job /\ r.pc = "env"
  BY StoreFacts DEF Records
<1>2. QED
  BY <1>1, StoreFacts, SameJob, TypeOKParts DEF StoreWord, TypeInv

LEMMA LoadFacts ==
    ASSUME TypeInv, NEW g \in Goroutines, NEW w \in Words, execFn(g, w)
    PROVE  /\ run[g] \in Records /\ run[g].pc = "env" /\ run[g].store = {}
           /\ run' \in [Goroutines -> Records]
           /\ run'[g].job = run[g].job /\ run'[g].store = {}
           /\ run'[g].load = run[g].load \ {w}
           /\ run'[g].pc = (IF run[g].load = {w} THEN "json" ELSE "env")
           /\ run'[g].extra[w] = ExtraEnv[w]
           /\ \A v \in Words \ {w} : run'[g].extra[v] = run[g].extra[v]
           /\ \A h \in Goroutines \ {g} : run'[h] = run[h]
<1> DEFINE r == [run[g] EXCEPT !.load = @ \ {w}, !.extra[w] = ExtraEnv[w],
                               !.pc = IF run[g].load = {w} THEN "json" ELSE "env"]
<1>1. run[g] \in Records /\ run[g].pc = "env" /\ run[g].store = {} /\ ExtraEnv \in Env
  BY TypeOKParts DEF TypeInv, execFn, At
<1>2. /\ r \in Records /\ r.job = run[g].job /\ r.store = {}
      /\ r.load = run[g].load \ {w}
      /\ r.pc = IF run[g].load = {w} THEN "json" ELSE "env"
      /\ r.extra[w] = ExtraEnv[w]
      /\ \A v \in Words \ {w} : r.extra[v] = run[g].extra[v]
  <2>1. CASE w = "array"
    BY <1>1, <2>1 DEF Records, Env, Words, Phases
  <2>2. CASE w = "length"
    BY <1>1, <2>2 DEF Records, Env, Words, Phases
  <2>3. QED
    BY <2>1, <2>2 DEF Words
<1>3. run'[g] = r /\ \A h \in Goroutines \ {g} : run'[h] = run[h]
  BY TypeOKParts DEF TypeInv, execFn, Go
<1>4. run' \in [Goroutines -> Records]
  BY <1>2, TypeOKParts DEF TypeInv, execFn, Go
<1>5. QED
  BY <1>1, <1>2, <1>3, <1>4

LEMMA LoadType ==
    ASSUME TypeInv, NEW g \in Goroutines, NEW w \in Words, execFn(g, w) PROVE TypeInv'
<1>1. run'[g] \in Records /\ run'[g].job = run[g].job /\ run'[g].pc \in {"json", "env"}
  BY LoadFacts
<1>2. Go(g, run'[g])
  <2>1. run' = [run EXCEPT ![g] = [run[g] EXCEPT
                    !.load = @ \ {w}, !.extra[w] = ExtraEnv[w],
                    !.pc = IF run[g].load = {w} THEN "json" ELSE "env"]]
    BY DEF execFn, Go
  <2>2. DOMAIN run = Goroutines
    BY TypeOKParts DEF TypeInv
  <2>3. QED
    BY <2>1, <2>2, Zenon DEF Go
<1>3. QED
  BY <1>1, <1>2, LoadFacts, SameJob, TypeOKParts DEF execFn, TypeInv

LEMMA TrivyType == ASSUME TypeInv, NEW g \in Goroutines, Trivy(g) PROVE TypeInv'
<1>1. run[g] \in Records /\ run[g].pc \in Phases
  BY TypeOKParts DEF TypeInv, Trivy
<1>2. CASE At(g, "spdx")
  BY <1>1, <1>2, FinishFacts, TypeOKParts DEF TypeInv, Trivy, Outcomes, Phases
<1>3. CASE ~ At(g, "spdx")
  <2> DEFINE r == [run[g] EXCEPT !.pc = NextPhase[@]]
  <2>1. r \in Records /\ r.job = run[g].job /\ r.pc \in Phases
    BY <1>1, <1>3 DEF Records, Phases, NextPhase, At
  <2>2. QED
    BY <1>1, <1>3, <2>1, SameJob, TypeOKParts DEF TypeInv, Trivy, Phases
<1>4. QED
  BY <1>2, <1>3

LEMMA FailedFacts ==
    ASSUME TypeInv, NEW g \in Goroutines, run[g].pc \in Phases, NEW kind \in {"pull", "scan"},
           NEW result \in Outcomes \ {"claimed"}, Failed(g, kind, result),
           faults' \in 0..MaxFaults
    PROVE  /\ TypeInv'
           /\ \A h \in Goroutines \ {g} : run'[h] = run[h]
           /\ run'[g].pc \in {"idle", "opts"}
           /\ \/ outcome' = outcome
              \/ outcome' = [outcome EXCEPT ![run[g].job] = result]
<1>1. run[g] \in Records /\ ExtraEnv' \in Env /\ run[g].pc \notin {"idle", "opts"}
  BY TypeOKParts DEF TypeInv, Failed, Phases
<1>2. CASE Final(g, kind)
  <2>1. Finish(g, result)
    BY <1>2 DEF Failed
  <2>2. TypeInv'
    BY <1>1, <2>1, FinishFacts DEF Failed
  <2>3. run'[g] = Idle /\ \A h \in Goroutines \ {g} : run'[h] = run[h]
    BY <2>1, TypeOKParts DEF TypeInv, Finish, Go
  <2>4. QED
    BY <2>1, <2>2, <2>3, IdleFacts DEF Finish
<1>3. CASE ~ Final(g, kind)
  <2> DEFINE r == [Idle EXCEPT !.pc = "opts", !.job = run[g].job, !.attempt = run[g].attempt]
  <2>1. run[g].attempt \in 0..MaxRetries /\ run[g].attempt < MaxRetries
    BY <1>1, <1>3, ScannerAssumption DEF Records, Final
  <2>2. run[g].job \in Jobs \cup {Nil}
    BY <1>1 DEF Records
  <2>3. r \in Records /\ r.job = run[g].job /\ r.pc = "opts" /\ r.attempt < MaxRetries
    BY <2>1, <2>2, IdleFacts DEF Records, Idle
  <2>4. Go(g, r) /\ outcome' = outcome /\ met' = met
    BY <1>3 DEF Failed
  <2> HIDE DEF r
  <2>5. TypeInv'
    BY <1>1, <2>3, <2>4, SameJob, TypeOKParts DEF TypeInv
  <2>6. run'[g] = r /\ \A h \in Goroutines \ {g} : run'[h] = run[h]
    BY <2>4, TypeOKParts DEF TypeInv, Go
  <2>7. QED
    BY <2>3, <2>4, <2>5, <2>6
<1>4. QED
  BY <1>2, <1>3

LEMMA TrivyFailsResult ==
    ASSUME TypeInv, NEW g \in Goroutines, TrivyFails(g)
    PROVE  /\ run[g].pc \in Phases /\ faults' \in 0..MaxFaults
           /\ \E kind \in {"pull", "scan"}, result \in {"unreachable", "failed"} :
                  Failed(g, kind, result)
<1>1. faults' \in 0..MaxFaults
  BY TypeOKParts, ScannerAssumption DEF TypeInv, TrivyFails
<1>2. Failed(g, "pull", "unreachable") \/ Failed(g, "scan", "failed")
  BY DEF TrivyFails
<1>3. QED
  BY <1>1, <1>2 DEF TrivyFails

LEMMA PanicType == ASSUME TypeInv, NEW g \in Goroutines, Panic(g) PROVE TypeInv'
<1>1. \A h \in Goroutines : run'[h] = Idle
  BY DEF Panic
<1>2. /\ run' \in [Goroutines -> Records]
      /\ outcome' \in [Jobs -> Outcomes]
      /\ \A j \in Jobs : outcome'[j] # "claimed" /\ \A h \in Goroutines : run'[h].job # j
  BY <1>1, IdleFacts, TypeOKParts, ScannerAssumption DEF TypeInv, Panic, Outcomes
<1>3. TypeOK'
  BY <1>2, TypeOKParts, NoEnvFacts DEF TypeInv, TypeOK, Panic, Records, Outcomes
<1>4. JobShape' /\ OneHolder'
  BY <1>1, IdleFacts DEF JobShape, OneHolder
<1>5. QED
  BY <1>3, <1>4 DEF TypeInv

LEMMA TypeStep == TypeInv /\ [Next]_vars => TypeInv'
<1> SUFFICES ASSUME TypeInv, [Next]_vars PROVE TypeInv'
  OBVIOUS
<1>1. ASSUME NEW g \in Goroutines, Claim(g) PROVE TypeInv'
  BY <1>1, ClaimType
<1>2. ASSUME NEW g \in Goroutines, ScanImage(g) PROVE TypeInv'
  BY <1>2, ScanImageType
<1>3. ASSUME NEW g \in Goroutines, Trivy(g) PROVE TypeInv'
  BY <1>3, TrivyType
<1>4. ASSUME NEW g \in Goroutines, TrivyRefused(g) PROVE TypeInv'
  <2>1. PICK kind \in {"pull", "scan"} : Failed(g, kind, "refused")
    BY <1>4 DEF TrivyRefused
  <2>2. QED
    BY <1>4, <2>1, FailedFacts, TypeOKParts DEF TypeInv, TrivyRefused, Outcomes
<1>5. ASSUME NEW g \in Goroutines, Panic(g) PROVE TypeInv'
  BY <1>5, PanicType
<1>6. ASSUME NEW g \in Goroutines, NEW w \in Words, StoreWord(g, w) PROVE TypeInv'
  BY <1>6, StoreType
<1>7. ASSUME NEW g \in Goroutines, NEW w \in Words, execFn(g, w) PROVE TypeInv'
  BY <1>7, LoadType
<1>8. ASSUME NEW g \in Goroutines, TrivyFails(g) PROVE TypeInv'
  BY <1>8, TrivyFailsResult, FailedFacts DEF Outcomes
<1>9. CASE UNCHANGED vars
  BY <1>9 DEF vars, TypeInv, TypeOK, JobShape, OneHolder
<1>10. QED
  BY <1>1, <1>2, <1>3, <1>4, <1>5, <1>6, <1>7, <1>8, <1>9 DEF Next, Step

(* The state of the scanner, its goroutines and jobs is well formed, and a  *)
(* job is claimed exactly while a goroutine has it.                         *)
THEOREM ScannerTypeCorrect == Spec => []TypeOK
<1>1. TypeInv => TypeOK
  BY DEF TypeInv
<1>2. QED
  BY <1>1, InitType, TypeStep, PTL DEF Spec

-----------------------------------------------------------------------------
(* Whose words a goroutine has: what it has stored so far is still its own  *)
(* or that of a job it met, until it has loaded it; so is what it loaded.   *)

(* v is the word w of the job of g or of a job that it met. *)
Mixed(g, v, w) ==
    \/ v = extraEnv(run[g].job)[w]
    \/ \E j \in Jobs : <<run[g].job, j>> \in met /\ v = extraEnv(j)[w]

WordsMixed ==
    \A g \in Goroutines, w \in Words :
        /\ run[g].pc = "env" /\ w \notin run[g].store => Mixed(g, ExtraEnv[w], w)
        /\ run[g].pc = "env" /\ w \notin run[g].load => Mixed(g, run[g].extra[w], w)
        /\ run[g].pc \in Phases => Mixed(g, run[g].extra[w], w)

(* A goroutine loads only what it has stored. *)
StoredFirst ==
    \A g \in Goroutines :
        run[g].pc = "env" => run[g].load = Words \/ run[g].store = {}

MetBothWays == \A a, b \in Jobs : <<a, b>> \in met => <<b, a>> \in met

EnvInv == TypeInv /\ WordsMixed /\ StoredFirst /\ MetBothWays

LEMMA InitEnv == Init => EnvInv
<1> SUFFICES ASSUME Init PROVE EnvInv
  OBVIOUS
<1>1. \A g \in Goroutines : run[g].pc = "idle"
  BY IdleFacts DEF Init
<1>2. QED
  BY <1>1, InitType DEF Init, EnvInv, WordsMixed, StoredFirst, MetBothWays, Phases

(* A goroutine that keeps its record keeps its words if the field does.     *)
LEMMA OthersMixed ==
    ASSUME EnvInv, NEW g \in Goroutines, NEW w \in Words,
           run'[g] = run[g], ExtraEnv'[w] = ExtraEnv[w], met \subseteq met'
    PROVE  /\ run'[g].pc = "env" /\ w \notin run'[g].store => Mixed(g, ExtraEnv[w], w)'
           /\ run'[g].pc = "env" /\ w \notin run'[g].load => Mixed(g, run[g].extra[w], w)'
           /\ run'[g].pc \in Phases => Mixed(g, run[g].extra[w], w)'
<1>1. ASSUME NEW v, Mixed(g, v, w)
      PROVE  \/ v = extraEnv(run'[g].job)[w]
             \/ \E j \in Jobs : <<run'[g].job, j>> \in met' /\ v = extraEnv(j)[w]
  BY <1>1 DEF Mixed
<1>2. QED
  BY <1>1 DEF EnvInv, WordsMixed, Mixed

(* Jobs that have met stay met.                                             *)
LEMMA MixedStays ==
    ASSUME NEW h, NEW u, NEW w, Mixed(h, u, w),
           run'[h].job = run[h].job, met \subseteq met'
    PROVE  \/ u = extraEnv(run'[h].job)[w]
           \/ \E j \in Jobs : <<run'[h].job, j>> \in met' /\ u = extraEnv(j)[w]
BY DEF Mixed

(* Nothing is stored, and one goroutine goes on to where it has no words or *)
(* keeps those it has.                                                      *)
LEMMA NoStore ==
    ASSUME EnvInv, TypeInv', NEW g \in Goroutines,
           \A h \in Goroutines \ {g} : run'[h] = run[h],
           UNCHANGED ExtraEnv, UNCHANGED met,
           \/ run'[g].pc \in {"idle", "opts"}
           \/ /\ run'[g].pc = "env" /\ run'[g].store = Words /\ run'[g].load = Words
           \/ /\ run[g].pc \in Phases /\ run'[g].pc \in Phases
              /\ run'[g].job = run[g].job /\ run'[g].extra = run[g].extra
    PROVE  EnvInv'
<1>1. StoredFirst' /\ MetBothWays'
  BY DEF EnvInv, StoredFirst, MetBothWays, Phases
<1>2. ASSUME NEW h \in Goroutines, NEW w \in Words
      PROVE  /\ run'[h].pc = "env" /\ w \notin run'[h].store => Mixed(h, ExtraEnv[w], w)'
             /\ run'[h].pc = "env" /\ w \notin run'[h].load => Mixed(h, run[h].extra[w], w)'
             /\ run'[h].pc \in Phases => Mixed(h, run[h].extra[w], w)'
  <2>1. CASE h # g
    BY <2>1, OthersMixed
  <2>2. CASE h = g
    <3>1. CASE run'[g].pc \in {"idle", "opts"}
      BY <2>2, <3>1 DEF Phases
    <3>2. CASE run'[g].pc = "env" /\ run'[g].store = Words /\ run'[g].load = Words
      BY <2>2, <3>2 DEF Phases
    <3>3. CASE /\ run[g].pc \in Phases /\ run'[g].pc \in Phases
               /\ run'[g].job = run[g].job /\ run'[g].extra = run[g].extra
      BY <2>2, <3>3 DEF EnvInv, WordsMixed, Mixed, Phases
    <3>4. QED
      BY <3>1, <3>2, <3>3
  <2>3. QED
    BY <2>1, <2>2
<1>3. WordsMixed'
  BY <1>2 DEF WordsMixed
<1>4. QED
  BY <1>1, <1>3 DEF EnvInv

LEMMA StoreMet ==
    ASSUME EnvInv, NEW g \in Goroutines, NEW w \in Words, StoreWord(g, w)
    PROVE  /\ met \subseteq met' /\ MetBothWays'
           /\ \A h \in Goroutines \ {g} :
                  InWindow(h) => <<run[h].job, run[g].job>> \in met'
<1> DEFINE near == {h \in Goroutines \ {g} : InWindow(h)}
           pairs(h) == {<<run[g].job, run[h].job>>, <<run[h].job, run[g].job>>}
<1>1. met' = met \cup UNION {pairs(h) : h \in near}
  BY DEF StoreWord
<1>2. ASSUME NEW a, NEW b
      PROVE  <<a, b>> \in met' <=>
                 \/ <<a, b>> \in met
                 \/ \E h \in near : \/ a = run[g].job /\ b = run[h].job
                                    \/ a = run[h].job /\ b = run[g].job
  BY <1>1
<1>3. MetBothWays'
  BY <1>2 DEF EnvInv, MetBothWays
<1>4. QED
  BY <1>1, <1>2, <1>3

LEMMA StoreEnv ==
    ASSUME EnvInv, NEW g \in Goroutines, NEW w \in Words, StoreWord(g, w)
    PROVE  EnvInv'
<1>1. TypeInv'
  BY StoreType DEF EnvInv
<1>2. /\ run[g] \in Records /\ run[g].pc = "env" /\ run[g].job \in Jobs
      /\ run'[g] = [run[g] EXCEPT !.store = @ \ {w}]
      /\ \A h \in Goroutines \ {g} : run'[h] = run[h]
      /\ ExtraEnv'[w] = extraEnv(run[g].job)[w]
      /\ \A v \in Words \ {w} : ExtraEnv'[v] = ExtraEnv[v]
  BY StoreFacts DEF EnvInv
<1>3. /\ run'[g].pc = "env" /\ run'[g].job = run[g].job
      /\ run'[g].store = run[g].store \ {w}
      /\ run'[g].load = run[g].load /\ run'[g].extra = run[g].extra
  BY <1>2 DEF Records
<1>4. met \subseteq met'
  BY StoreMet
<1>5. w \in run[g].store
  BY DEF StoreWord
<1>6. StoredFirst'
  BY <1>2, <1>3, <1>5 DEF EnvInv, StoredFirst
<1>7. ASSUME NEW h \in Goroutines, NEW v \in Words
      PROVE  /\ run'[h].pc = "env" /\ v \notin run'[h].store => Mixed(h, ExtraEnv[v], v)'
             /\ run'[h].pc = "env" /\ v \notin run'[h].load => Mixed(h, run[h].extra[v], v)'
             /\ run'[h].pc \in Phases => Mixed(h, run[h].extra[v], v)'
  <2>1. CASE h = g /\ v = w
    <3>1. run'[g].load = Words
      BY <1>2, <1>3, <1>5 DEF EnvInv, StoredFirst
    <3>2. QED
      BY <1>2, <1>3, <2>1, <3>1 DEF Mixed, Phases
  <2>2. CASE h = g /\ v # w
    <3>1. /\ v \notin run'[g].store => Mixed(g, ExtraEnv[v], v)
          /\ v \notin run'[g].load => Mixed(g, run[g].extra[v], v)
      BY <1>2, <1>3, <2>2 DEF EnvInv, WordsMixed
    <3>2. v \notin run'[g].store => Mixed(g, ExtraEnv[v], v)'
      <4> SUFFICES ASSUME Mixed(g, ExtraEnv[v], v), ExtraEnv'[v] = ExtraEnv[v]
                   PROVE  Mixed(g, ExtraEnv[v], v)'
        BY <1>2, <2>2, <3>1
      <4>1. \/ ExtraEnv[v] = extraEnv(run'[g].job)[v]
            \/ \E j \in Jobs : <<run'[g].job, j>> \in met' /\ ExtraEnv[v] = extraEnv(j)[v]
        BY <1>3, <1>4, MixedStays
      <4>2. QED
        BY <4>1, Zenon DEF Mixed
    <3>3. v \notin run'[g].load => Mixed(g, run[g].extra[v], v)'
      <4> SUFFICES ASSUME Mixed(g, run[g].extra[v], v) PROVE Mixed(g, run[g].extra[v], v)'
        BY <3>1
      <4>1. \/ run[g].extra[v] = extraEnv(run'[g].job)[v]
            \/ \E j \in Jobs : <<run'[g].job, j>> \in met' /\ run[g].extra[v] = extraEnv(j)[v]
        BY <1>3, <1>4, ZenonT(30) DEF Mixed
      <4>2. QED
        BY <1>3, <4>1 DEF Mixed
    <3>4. QED
      BY <1>3, <2>2, <3>2, <3>3 DEF Phases
  <2>3. CASE h # g /\ v = w
    <3>1. run'[h] = run[h]
      BY <1>2, <2>3
    <3>2. run'[h].pc = "env" /\ v \notin run'[h].store => Mixed(h, ExtraEnv[v], v)'
      <4> SUFFICES ASSUME run[h].pc = "env", w \notin run[h].store
                   PROVE  Mixed(h, ExtraEnv[w], w)'
        BY <2>3, <3>1
      <4>1. InWindow(h)
        BY DEF InWindow, At
      <4>2. <<run'[h].job, run[g].job>> \in met'
        BY <2>3, <3>1, <4>1, StoreMet
      <4>3. QED
        BY <1>2, <4>2 DEF Mixed
    <3>3. Mixed(h, run[h].extra[v], v) => Mixed(h, run[h].extra[v], v)'
      <4> SUFFICES ASSUME Mixed(h, run[h].extra[v], v) PROVE Mixed(h, run[h].extra[v], v)'
        OBVIOUS
      <4>1. \/ run[h].extra[v] = extraEnv(run'[h].job)[v]
            \/ \E j \in Jobs : <<run'[h].job, j>> \in met' /\ run[h].extra[v] = extraEnv(j)[v]
        BY <1>4, <3>1, MixedStays
      <4>2. QED
        BY <3>1, <4>1 DEF Mixed
    <3>4. /\ run'[h].pc = "env" /\ v \notin run'[h].load => Mixed(h, run[h].extra[v], v)'
          /\ run'[h].pc \in Phases => Mixed(h, run[h].extra[v], v)'
      <4>1. /\ run[h].pc = "env" /\ v \notin run[h].load => Mixed(h, run[h].extra[v], v)
            /\ run[h].pc \in Phases => Mixed(h, run[h].extra[v], v)
        BY DEF EnvInv, WordsMixed
      <4>2. QED
        BY <3>1, <3>3, <4>1
    <3>5. QED
      BY <3>2, <3>4
  <2>4. CASE h # g /\ v # w
    BY <1>2, <1>4, <2>4, OthersMixed
  <2>5. QED
    BY <2>1, <2>2, <2>3, <2>4
<1>8. WordsMixed'
  BY <1>7 DEF WordsMixed
<1>9. QED
  BY <1>1, <1>6, <1>8, StoreMet DEF EnvInv

LEMMA LoadEnv ==
    ASSUME EnvInv, NEW g \in Goroutines, NEW w \in Words, execFn(g, w)
    PROVE  EnvInv'
<1>1. TypeInv'
  BY LoadType DEF EnvInv
<1>2. /\ run[g] \in Records /\ run[g].pc = "env" /\ run[g].store = {}
      /\ run'[g].job = run[g].job /\ run'[g].store = {}
      /\ run'[g].load = run[g].load \ {w}
      /\ run'[g].pc = (IF run[g].load = {w} THEN "json" ELSE "env")
      /\ run'[g].extra[w] = ExtraEnv[w]
      /\ \A v \in Words \ {w} : run'[g].extra[v] = run[g].extra[v]
      /\ \A h \in Goroutines \ {g} : run'[h] = run[h]
  BY LoadFacts DEF EnvInv
<1>3. ExtraEnv' = ExtraEnv /\ met' = met
  BY DEF execFn
<1>4. ASSUME NEW h \in Goroutines, NEW v \in Words
      PROVE  /\ run'[h].pc = "env" /\ v \notin run'[h].store => Mixed(h, ExtraEnv[v], v)'
             /\ run'[h].pc = "env" /\ v \notin run'[h].load => Mixed(h, run[h].extra[v], v)'
             /\ run'[h].pc \in Phases => Mixed(h, run[h].extra[v], v)'
  <2>1. CASE h # g
    BY <1>2, <1>3, <2>1, OthersMixed
  <2>2. CASE h = g /\ v = w
    <3>1. Mixed(g, ExtraEnv[w], w)
      BY <1>2 DEF EnvInv, WordsMixed
    <3>2. \/ ExtraEnv[w] = extraEnv(run'[g].job)[w]
          \/ \E j \in Jobs : <<run'[g].job, j>> \in met' /\ ExtraEnv[w] = extraEnv(j)[w]
      BY <1>2, <1>3, <3>1, MixedStays
    <3>3. Mixed(g, ExtraEnv[w], w)' /\ Mixed(g, run[g].extra[w], w)'
      BY <1>2, <1>3, <3>2 DEF Mixed
    <3>4. QED
      BY <2>2, <3>3
  <2>3. CASE h = g /\ v # w
    <3>1. Mixed(g, ExtraEnv[v], v)
      BY <1>2 DEF EnvInv, WordsMixed
    <3>2. v \notin run'[g].load \/ run'[g].pc \in Phases => v \notin run[g].load
      BY <1>2, <2>3 DEF Phases
    <3>3. v \notin run[g].load => Mixed(g, run[g].extra[v], v)
      BY <1>2 DEF EnvInv, WordsMixed
    <3>4. QED
      BY <1>2, <1>3, <2>3, <3>1, <3>2, <3>3 DEF Mixed
  <2>4. QED
    BY <2>1, <2>2, <2>3
<1>5. WordsMixed'
  BY <1>4 DEF WordsMixed
<1>6. StoredFirst' /\ MetBothWays'
  BY <1>2, <1>3 DEF EnvInv, StoredFirst, MetBothWays
<1>7. QED
  BY <1>1, <1>5, <1>6 DEF EnvInv

LEMMA EnvStep == EnvInv /\ [Next]_vars => EnvInv'
<1> SUFFICES ASSUME EnvInv, [Next]_vars PROVE EnvInv'
  OBVIOUS
<1>1. TypeInv /\ TypeInv'
  BY TypeStep DEF EnvInv
<1>2. ASSUME NEW g \in Goroutines, Claim(g) PROVE EnvInv'
  <2>1. PICK j \in Jobs : Go(g, [Idle EXCEPT !.pc = "opts", !.job = j])
    BY <1>2 DEF Claim
  <2> DEFINE r == [Idle EXCEPT !.pc = "opts", !.job = j]
  <2>2. r.pc = "opts"
    BY ClaimRecord
  <2>3. run'[g] = r /\ \A h \in Goroutines \ {g} : run'[h] = run[h]
    BY <1>1, <2>1, TypeOKParts DEF TypeInv, Go
  <2>4. run'[g].pc = "opts"
    BY <2>2, <2>3
  <2>5. QED
    BY <1>1, <1>2, <2>3, <2>4, NoStore DEF Claim
<1>3. ASSUME NEW g \in Goroutines, ScanImage(g) PROVE EnvInv'
  <2>1. run[g] \in Records /\ WordsToStore(run[g].job) = Words
    BY <1>1, TypeOKParts DEF TypeInv, WordsToStore
  <2>2. /\ run'[g] = [run[g] EXCEPT !.pc = "env", !.attempt = @ + 1,
                                    !.store = WordsToStore(run[g].job), !.load = Words]
        /\ \A h \in Goroutines \ {g} : run'[h] = run[h]
    BY <1>1, <1>3, TypeOKParts DEF TypeInv, ScanImage, Go
  <2>3. run'[g].pc = "env" /\ run'[g].store = Words /\ run'[g].load = Words
    BY <2>1, <2>2 DEF Records
  <2>4. QED
    BY <1>1, <1>3, <2>2, <2>3, NoStore DEF ScanImage
<1>4. ASSUME NEW g \in Goroutines, Trivy(g) PROVE EnvInv'
  <2>1. \A h \in Goroutines \ {g} : run'[h] = run[h]
    BY <1>1, <1>4, TypeOKParts DEF TypeInv, Trivy, Finish, Go
  <2>2. CASE At(g, "spdx")
    <3>1. run'[g] = Idle
      BY <1>1, <1>4, <2>2, TypeOKParts DEF TypeInv, Trivy, Finish, Go
    <3>2. QED
      BY <1>1, <1>4, <2>1, <3>1, IdleFacts, NoStore DEF Trivy
  <2>3. CASE ~ At(g, "spdx")
    <3>1. run[g] \in Records /\ run[g].pc \in {"json", "cyclonedx"}
      BY <1>1, <1>4, <2>3, TypeOKParts DEF TypeInv, Trivy, At, Phases
    <3>2. run'[g] = [run[g] EXCEPT !.pc = NextPhase[@]]
      BY <1>1, <1>4, <2>3, TypeOKParts DEF TypeInv, Trivy, Go
    <3>3. /\ run[g].pc \in Phases /\ run'[g].pc \in Phases
          /\ run'[g].job = run[g].job /\ run'[g].extra = run[g].extra
      BY <3>1, <3>2 DEF Records, Phases, NextPhase
    <3>4. QED
      BY <1>1, <1>4, <2>1, <3>3, NoStore DEF Trivy
  <2>4. QED
    BY <2>2, <2>3
<1>5. ASSUME NEW g \in Goroutines, TrivyRefused(g) PROVE EnvInv'
  <2>1. PICK kind \in {"pull", "scan"} : Failed(g, kind, "refused")
    BY <1>5 DEF TrivyRefused
  <2>2. /\ \A h \in Goroutines \ {g} : run'[h] = run[h]
        /\ run'[g].pc \in {"idle", "opts"}
    BY <1>1, <1>5, <2>1, FailedFacts, TypeOKParts DEF TypeInv, TrivyRefused, Outcomes
  <2>3. QED
    BY <1>1, <2>1, <2>2, NoStore DEF Failed
<1>6. ASSUME NEW g \in Goroutines, Panic(g) PROVE EnvInv'
  <2>1. \A h \in Goroutines : run'[h].pc = "idle"
    BY <1>6, IdleFacts DEF Panic
  <2>2. met' = met
    BY <1>6 DEF Panic
  <2>3. QED
    BY <1>1, <2>1, <2>2 DEF EnvInv, WordsMixed, StoredFirst, MetBothWays, Phases
<1>7. ASSUME NEW g \in Goroutines, NEW w \in Words, StoreWord(g, w) PROVE EnvInv'
  BY <1>7, StoreEnv
<1>8. ASSUME NEW g \in Goroutines, NEW w \in Words, execFn(g, w) PROVE EnvInv'
  BY <1>8, LoadEnv
<1>9. ASSUME NEW g \in Goroutines, TrivyFails(g) PROVE EnvInv'
  <2>1. PICK kind \in {"pull", "scan"}, result \in {"unreachable", "failed"} :
            Failed(g, kind, result)
    BY <1>1, <1>9, TrivyFailsResult
  <2>2. /\ \A h \in Goroutines \ {g} : run'[h] = run[h]
        /\ run'[g].pc \in {"idle", "opts"}
    BY <1>1, <1>9, <2>1, TrivyFailsResult, FailedFacts DEF Outcomes
  <2>3. QED
    BY <1>1, <2>1, <2>2, NoStore DEF Failed
<1>10. CASE UNCHANGED vars
  BY <1>1, <1>10 DEF vars, EnvInv, WordsMixed, Mixed, StoredFirst, MetBothWays
<1>11. QED
  BY <1>2, <1>3, <1>4, <1>5, <1>6, <1>7, <1>8, <1>9, <1>10 DEF Next, Step

(* Trivy is run, by runTrivy of internal/scanner/trivy.go, with variables    *)
(* whose words are those of the goroutine's own job or of jobs that it met   *)
(* while it stored and loaded its own; never with what an earlier job left.  *)
THEOREM CredentialsStayCorrect == Spec => []CredentialsStay
<1>1. EnvInv => CredentialsStay
  BY DEF EnvInv, WordsMixed, Mixed, CredentialsStay
<1>2. QED
  BY <1>1, InitEnv, EnvStep, PTL DEF Spec

-----------------------------------------------------------------------------
(* What a refusal and the death of the process take.                         *)

(* The two conjuncts of FailureExplained for a job. *)
RefusalExplained(j) ==
    \/ j \in Private /\ ~ CredentialsFromRegistryJSON(j)
    \/ \E k \in Jobs : <<j, k>> \in met /\ extraEnv(k) # extraEnv(j)

Clash == \E a, b \in Jobs : /\ <<a, b>> \in met
                            /\ CredentialsFromRegistryJSON(a)
                            /\ ~ CredentialsFromRegistryJSON(b)

FailInv == EnvInv /\ FailureExplained

(* Trivy is run with the variables of its job unless the job met another    *)
(* with other variables.                                                     *)
LEMMA OwnOrMet ==
    ASSUME EnvInv, NEW g \in Goroutines, run[g].pc \in Phases
    PROVE  /\ run[g] \in Records /\ run[g].job \in Jobs
           /\ \/ /\ run[g].extra.array = extraEnv(run[g].job).array
                 /\ run[g].extra.length = extraEnv(run[g].job).length
              \/ \E k \in Jobs : <<run[g].job, k>> \in met /\ extraEnv(k) # extraEnv(run[g].job)
<1>1. run[g] \in Records /\ run[g].job \in Jobs
  BY TypeOKParts DEF EnvInv, TypeInv, JobShape, Records, Phases
<1>2. \A w \in Words : Mixed(g, run[g].extra[w], w)
  BY DEF EnvInv, WordsMixed
<1>3. CASE \A w \in Words : run[g].extra[w] = extraEnv(run[g].job)[w]
  BY <1>1, <1>3 DEF Words, Records, Env, extraEnv
<1>4. CASE \E w \in Words : run[g].extra[w] # extraEnv(run[g].job)[w]
  <2>1. PICK w \in Words : run[g].extra[w] # extraEnv(run[g].job)[w]
    BY <1>4
  <2>2. PICK k \in Jobs : <<run[g].job, k>> \in met /\ run[g].extra[w] = extraEnv(k)[w]
    BY <1>2, <2>1 DEF Mixed
  <2>3. extraEnv(k) # extraEnv(run[g].job)
    BY <2>1, <2>2
  <2>4. QED
    BY <1>1, <2>2, <2>3
<1>5. QED
  BY <1>3, <1>4

LEMMA RefusalFacts ==
    ASSUME EnvInv, NEW g \in Goroutines, run[g].pc \in Phases, MayRefuse(g)
    PROVE  run[g].job \in Jobs /\ RefusalExplained(run[g].job)
<1>1. run[g].job \in Jobs
  BY OwnOrMet
<1>2. CASE \E k \in Jobs : <<run[g].job, k>> \in met /\ extraEnv(k) # extraEnv(run[g].job)
  BY <1>1, <1>2 DEF RefusalExplained
<1>3. CASE /\ run[g].extra.array = extraEnv(run[g].job).array
           /\ run[g].extra.length = extraEnv(run[g].job).length
  <2>1. ~ CredentialsFromRegistryJSON(run[g].job)
    <3> SUFFICES ASSUME CredentialsFromRegistryJSON(run[g].job) PROVE FALSE
      OBVIOUS
    <3>1. run[g].extra.array = run[g].job /\ run[g].extra.length = 2
      BY <1>1, <1>3, EnvFacts
    <3>2. QED
      BY <3>1 DEF MayRefuse, Refused, Used
  <2>2. run[g].extra.length = 0
    BY <1>1, <1>3, <2>1, EnvFacts
  <2>3. run[g].job \in Private
    BY <2>2 DEF MayRefuse, Refused
  <2>4. QED
    BY <1>1, <2>1, <2>3 DEF RefusalExplained
<1>4. QED
  BY <1>2, <1>3, OwnOrMet

LEMMA TornFacts ==
    ASSUME EnvInv, NEW g \in Goroutines, run[g].pc \in Phases, Torn(g)
    PROVE  Clash
<1>1. /\ run[g].job \in Jobs
      /\ run[g].extra.length > 0 /\ run[g].extra.array = Nil
  BY OwnOrMet DEF Torn, Used
<1>2. Mixed(g, run[g].extra["array"], "array") /\ Mixed(g, run[g].extra["length"], "length")
  BY DEF EnvInv, WordsMixed, Words
<1>3. CASE CredentialsFromRegistryJSON(run[g].job)
  <2>1. extraEnv(run[g].job).array # Nil
    BY <1>1, <1>3, EnvFacts, ScannerAssumption
  <2>2. PICK k \in Jobs : <<run[g].job, k>> \in met /\ extraEnv(k).array = Nil
    BY <1>1, <1>2, <2>1 DEF Mixed
  <2>3. ~ CredentialsFromRegistryJSON(k)
    BY <2>2, EnvFacts, ScannerAssumption
  <2>4. QED
    BY <1>1, <1>3, <2>2, <2>3 DEF Clash
<1>4. CASE ~ CredentialsFromRegistryJSON(run[g].job)
  <2>1. extraEnv(run[g].job).length = 0
    BY <1>1, <1>4, EnvFacts
  <2>2. PICK k \in Jobs : <<run[g].job, k>> \in met /\ extraEnv(k).length = run[g].extra.length
    BY <1>1, <1>2, <2>1 DEF Mixed
  <2>3. CredentialsFromRegistryJSON(k)
    BY <1>1, <2>2, EnvFacts
  <2>4. <<k, run[g].job>> \in met
    BY <1>1, <2>2 DEF EnvInv, MetBothWays
  <2>5. QED
    BY <1>1, <1>4, <2>3, <2>4 DEF Clash
<1>5. QED
  BY <1>3, <1>4

(* An explanation stays, and a step that refuses or loses nothing more       *)
(* needs none.                                                               *)
LEMMA ExplainedStays ==
    ASSUME FailureExplained, met \subseteq met',
           \A j \in Jobs : \/ outcome'[j] = outcome[j]
                           \/ outcome'[j] = "refused" /\ RefusalExplained(j)
                           \/ outcome'[j] = "lost" /\ Clash
                           \/ outcome'[j] \notin {"refused", "lost"}
    PROVE  FailureExplained'
<1> SUFFICES ASSUME NEW j \in Jobs
             PROVE  /\ outcome'[j] = "refused" => RefusalExplained(j)'
                    /\ outcome'[j] = "lost" => Clash'
  BY DEF FailureExplained, RefusalExplained, Clash
<1>1. RefusalExplained(j) => RefusalExplained(j)'
  BY DEF RefusalExplained
<1>2. Clash => Clash'
  BY DEF Clash
<1>3. /\ outcome[j] = "refused" => RefusalExplained(j)
      /\ outcome[j] = "lost" => Clash
  BY DEF FailureExplained, RefusalExplained, Clash
<1>4. QED
  BY <1>1, <1>2, <1>3

LEMMA FailStep == FailInv /\ [Next]_vars => FailInv'
<1> SUFFICES ASSUME FailInv, [Next]_vars PROVE FailInv'
  OBVIOUS
<1>1. EnvInv /\ EnvInv' /\ FailureExplained
  BY EnvStep DEF FailInv
<1>2. outcome \in [Jobs -> Outcomes]
  BY <1>1, TypeOKParts DEF EnvInv, TypeInv
<1>3. ASSUME NEW g \in Goroutines, Claim(g) PROVE FailureExplained'
  <2>1. met \subseteq met' /\ \A j \in Jobs : outcome'[j] \in {outcome[j], "claimed"}
    BY <1>2, <1>3 DEF Claim
  <2>2. QED
    BY <1>1, <2>1, ExplainedStays
<1>4. ASSUME NEW g \in Goroutines, Trivy(g) PROVE FailureExplained'
  <2>1. met \subseteq met' /\ \A j \in Jobs : outcome'[j] \in {outcome[j], "scanned"}
    BY <1>2, <1>4 DEF Trivy, Finish
  <2>2. QED
    BY <1>1, <2>1, ExplainedStays
<1>5. ASSUME NEW g \in Goroutines, TrivyRefused(g) PROVE FailureExplained'
  <2>1. run[g].job \in Jobs /\ RefusalExplained(run[g].job)
    BY <1>1, <1>5, RefusalFacts DEF TrivyRefused
  <2>2. /\ outcome' \in {outcome, [outcome EXCEPT ![run[g].job] = "refused"]}
        /\ met' = met
    BY <1>5 DEF TrivyRefused, Failed, Finish
  <2>3. \A j \in Jobs : \/ outcome'[j] = outcome[j]
                        \/ outcome'[j] = "refused" /\ RefusalExplained(j)
    <3> TAKE j \in Jobs
    <3>1. CASE j = run[g].job
      <4>1. RefusalExplained(j)
        BY <2>1, <3>1, Zenon
      <4>2. outcome'[j] \in {outcome[j], "refused"}
        BY <1>2, <2>2, <3>1
      <4>3. QED
        BY <4>1, <4>2
    <3>2. CASE j # run[g].job
      <4>1. outcome'[j] = outcome[j]
        BY <1>2, <2>1, <2>2, <3>2
      <4>2. QED
        BY <4>1
    <3>3. QED
      BY <3>1, <3>2
  <2>4. QED
    BY <1>1, <2>2, <2>3, ExplainedStays
<1>6. ASSUME NEW g \in Goroutines, Panic(g) PROVE FailureExplained'
  <2>1. Clash
    BY <1>1, <1>6, TornFacts DEF Panic, At, Phases
  <2>2. met \subseteq met' /\ \A j \in Jobs : outcome'[j] \in {outcome[j], "lost"}
    BY <1>2, <1>6 DEF Panic
  <2>3. QED
    BY <1>1, <2>1, <2>2, ExplainedStays
<1>7. ASSUME NEW g \in Goroutines, TrivyFails(g) PROVE FailureExplained'
  <2>1. PICK kind \in {"pull", "scan"}, result \in {"unreachable", "failed"} :
            Failed(g, kind, result)
    BY <1>1, <1>7, TrivyFailsResult DEF EnvInv
  <2>2. outcome' = outcome \/ outcome' = [outcome EXCEPT ![run[g].job] = result]
    BY <2>1 DEF Failed, Finish
  <2>3. \A j \in Jobs : outcome'[j] \in {outcome[j], "unreachable", "failed"}
    BY <1>2, <2>2
  <2>4. QED
    BY <1>1, <2>1, <2>3, ExplainedStays DEF Failed
<1>8. ASSUME outcome' = outcome, met' = met PROVE FailureExplained'
  BY <1>1, <1>8 DEF FailureExplained
<1>9. ASSUME NEW g \in Goroutines, NEW w \in Words, StoreWord(g, w) PROVE FailureExplained'
  BY <1>1, <1>9, StoreMet, ExplainedStays DEF StoreWord
<1>10. ASSUME NEW g \in Goroutines, ScanImage(g) \/ \E w \in Words : execFn(g, w)
       PROVE  FailureExplained'
  BY <1>8, <1>10 DEF ScanImage, execFn
<1>11. FailureExplained'
  <2>1. CASE UNCHANGED vars
    BY <1>8, <2>1 DEF vars
  <2>2. CASE Next
    BY <1>3, <1>4, <1>5, <1>6, <1>7, <1>9, <1>10, <2>2 DEF Next, Step
  <2>3. QED
    BY <2>1, <2>2
<1>12. QED
  BY <1>1, <1>11 DEF FailInv

(* A job is refused for good, by processJobWithRetry of internal/worker,     *)
(* only without credentials for a private image or after a meeting with a    *)
(* job that has other variables; append panics only after a meeting of a job *)
(* with credentials and one without.                                         *)
THEOREM FailureExplainedCorrect == Spec => []FailureExplained
<1>1. Init => FailInv
  BY InitEnv DEF FailInv, FailureExplained, Init
<1>2. FailInv => FailureExplained
  BY DEF FailInv
<1>3. QED
  BY <1>1, <1>2, FailStep, PTL DEF Spec
=============================================================================
