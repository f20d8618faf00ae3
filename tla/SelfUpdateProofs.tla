-------------------------- MODULE SelfUpdateProofs --------------------------
(***************************************************************************)
(* Proofs about SelfUpdate.  What each action does to the fields that the  *)
(* invariants speak of is stated once (the lemmas named ...Effect, which   *)
(* also give type correctness); the invariants follow from those.          *)
(***************************************************************************)
EXTENDS SelfUpdate, TLAPS

-----------------------------------------------------------------------------
(* What a step keeps, and how one ends the job.                             *)
SameWeb == web'.check = web.check /\ web'.alone = web.alone
SameStore == worker'.store = worker.store /\ worker'.failed = worker.failed
SameOriginal == original'.state = original.state /\ original'.image = original.image
SameCandidate == candidate'.state = candidate.state /\ candidate'.detached = candidate.detached
WebEnded == web'.check = "idle" /\ web'.alone = 0
Ended(status, outcome) ==
    /\ job'.number = job.number /\ job'.target = job.target
    /\ settings'.lifted = settings.lifted
    /\ ~Updating => job' = job /\ settings' = settings
    /\ Updating => /\ job'.status = status /\ job'.outcome = outcome
                   /\ settings'.failed = IF status = "failed" THEN job.target ELSE None

(* A web process begins with nothing to do.                                 *)
LEMMA IdleFields == Idle \in Web /\ Idle.check = "idle" /\ Idle.alone = 0
<1>1. 0 \in 0..MaxJobs
  BY BoundsAssumption
<1> QED
  BY <1>1 DEF Idle, Web

(* The worker goes to another step, and only that.                          *)
LEMMA GotoFields ==
    ASSUME worker \in Worker, NEW step \in WorkerSteps, Goto(step)
    PROVE  /\ worker' \in Worker
           /\ worker'.at = step /\ SameStore
  BY DEF Worker, Goto, SameStore

(* A step of the rollback that fails is remembered and spends a fault.      *)
LEMMA FailingFields ==
    ASSUME worker \in Worker, faults \in 0..MaxFaults, NEW next \in WorkerSteps, Failing(next)
    PROVE  /\ worker' \in Worker
           /\ worker'.at = next /\ worker'.store = worker.store /\ worker'.failed = TRUE
           /\ faults' \in 0..MaxFaults /\ faults' = faults + 1
<1>1. worker' \in Worker /\ worker'.at = next /\ worker'.store = worker.store
  BY DEF Worker, Failing
<1>2. worker'.failed = TRUE
  BY DEF Worker, Failing
<1>3. faults' \in 0..MaxFaults /\ faults' = faults + 1
  BY BoundsAssumption DEF Failing
<1> QED
  BY <1>1, <1>2, <1>3

(* FinishSelfUpdateOutcome changes an active job, and otherwise nothing.    *)
LEMMA FinishFields ==
    ASSUME job \in Job, settings \in Settings, NEW status \in {"succeeded", "failed"},
           NEW review \in BOOLEAN, Finish(status, review)
    PROVE  /\ job' \in Job /\ settings' \in Settings
           /\ Ended(status, IF review THEN "recovery_required"
                            ELSE IF status = "failed" THEN "failed" ELSE "verified")
<1>1. CASE Updating
  <2>1. job' \in Job /\ settings' \in Settings
    BY ZenonT(40), <1>1 DEF Job, Settings, Finish, Updating, None
  <2>2. /\ job'.number = job.number /\ job'.target = job.target
        /\ settings'.lifted = settings.lifted
    BY <1>1 DEF Job, Settings, Finish, Updating, None
  <2>3. /\ job'.status = status
        /\ job'.outcome = IF review THEN "recovery_required"
                          ELSE IF status = "failed" THEN "failed" ELSE "verified"
        /\ settings'.failed = IF status = "failed" THEN job.target ELSE None
    BY <1>1 DEF Job, Settings, Finish, Updating, None
  <2> QED
    BY <1>1, <2>1, <2>2, <2>3 DEF Ended
<1>2. CASE ~Updating
  BY <1>2 DEF Finish, Ended
<1> QED
  BY <1>1, <1>2

-----------------------------------------------------------------------------
(* The web process.                                                         *)
LEMMA SetSettingsEffect ==
    ASSUME TypeOK, NEW enabled \in BOOLEAN, SetSettings(enabled)
    PROVE  /\ TypeOK'
           /\ UNCHANGED <<latest, job, web, worker, original,
                          candidate, database, snapshot, mishaps, faults>>
           /\ settings'.lifted \/ (~settings.lifted /\ settings'.failed = settings.failed)
<1>1. UNCHANGED <<latest, job, web, worker, original, candidate, database, snapshot,
                  mishaps, faults>>
  BY DEF SetSettings, yards, files, incidents
<1>2. CASE enabled
  <2>1. settings' = [automatic |-> TRUE, failed |-> None, lifted |-> TRUE]
    BY <1>2 DEF SetSettings
  <2> QED
    BY <1>1, <2>1 DEF TypeOK, Settings, None
<1>3. CASE ~enabled
  <2>1. settings' = [automatic |-> FALSE, failed |-> settings.failed, lifted |-> settings.lifted]
    BY <1>3 DEF SetSettings, TypeOK, Settings
  <2>2. settings' \in Settings
    BY <2>1 DEF TypeOK, Settings
  <2>3. settings'.lifted = settings.lifted /\ settings'.failed = settings.failed
    BY <2>1
  <2>4. TypeOK'
    BY <1>1, <2>2 DEF TypeOK
  <2> QED
    BY <1>1, <2>3, <2>4
<1> QED
  BY <1>2, <1>3

(* A manual check is asked for.                                             *)
LEMMA CheckNowEffect ==
    ASSUME TypeOK, CheckNow
    PROVE  /\ TypeOK'
           /\ UNCHANGED <<latest, settings, job, worker, original,
                          candidate, database, snapshot, mishaps, faults>>
           /\ SameWeb
<1>1. web' \in Web /\ SameWeb
  BY DEF TypeOK, Web, CheckNow, SameWeb
<1> QED
  BY <1>1 DEF TypeOK, CheckNow, yards, files, incidents

(* What Admit does to the fields.                                           *)
Admitted ==
    /\ job.outcome # "recovery_required"
    /\ latest # OwnImage
    /\ job'.status = "updating" /\ job'.outcome = "" /\ job'.target = latest
    /\ job'.automatic => settings.failed # latest
    /\ settings'.failed = settings.failed
    /\ web'.check = "pulling"
    /\ worker'.at = "none" /\ worker'.store = "open" /\ worker'.failed = FALSE
    /\ original'.image = OwnImage /\ original'.state = "up" /\ candidate'.state = "gone"
    /\ candidate'.detached = FALSE /\ mishaps' = {}
    /\ database' = "original" /\ snapshot' = "none"

(* The row of a new job, and the absent one, are rows.                      *)
LEMMA NewJob ==
    ASSUME NEW n \in 0..MaxJobs, NEW status \in {"none", "updating"},
           NEW release \in Releases, NEW automatic \in BOOLEAN
    PROVE  [number |-> n, status |-> status, outcome |-> "", target |-> release,
            automatic |-> automatic] \in Job
  BY DEF Job

(* A new job begins with the running container as its original.             *)
LEMMA AdmitEffect ==
    ASSUME TypeOK, NEW manual \in BOOLEAN, Admit(manual), web.check = "idle"
    PROVE  /\ TypeOK' /\ Admitted
           /\ web'.alone = web.alone /\ UNCHANGED <<latest, faults>>
<1>1. OwnImage \in Releases /\ original'.health \in Healths
  BY DEF TypeOK, OwnImage, Job, Original, Candidate, Healths, Admit
<1>2. /\ job' \in Job /\ job'.status = "updating" /\ job'.outcome = "" /\ job'.target = latest
      /\ job'.number = job.number + 1
  <2>1. job.number \in 0..MaxJobs
    BY DEF TypeOK, Job
  <2>2. job.number < MaxJobs
    BY DEF Admit
  <2>3. job' = [number |-> job.number + 1, status |-> "updating", outcome |-> "",
                target |-> latest, automatic |-> ~manual]
    BY DEF Admit
  <2>4. latest \in Releases /\ (~manual) \in BOOLEAN
    BY DEF TypeOK
  <2>5. job.number + 1 \in 0..MaxJobs
    BY <2>1, <2>2, BoundsAssumption
  <2>6. job' \in Job
    BY <2>3, <2>4, <2>5, NewJob, Zenon
  <2> QED
    BY <2>3, <2>6
<1>3. settings' \in Settings /\ settings'.failed = settings.failed
  BY DEF TypeOK, Settings, Admit
<1>4. web' \in Web /\ web'.check = "pulling" /\ web'.alone = web.alone
  BY DEF TypeOK, Web, Admit
<1>5. /\ worker' \in Worker /\ worker'.at = "none" /\ worker'.store = "open"
      /\ worker'.failed = FALSE
  BY DEF Worker, WorkerSteps, Admit
<1>6. /\ original' \in Original /\ original'.image = OwnImage /\ original'.state = "up"
  BY <1>1 DEF Original, States, Admit
<1>7. candidate' \in Candidate /\ candidate'.state = "gone" /\ candidate'.detached = FALSE
  BY DEF NoCandidate, Candidate, States, Healths, Admit
<1>8. job'.automatic => settings.failed # latest
  BY DEF Admit
<1>9. /\ job.outcome # "recovery_required" /\ latest # OwnImage
      /\ database' = "original" /\ snapshot' = "none" /\ mishaps' = {}
      /\ UNCHANGED <<latest, faults>>
  BY DEF Admit, Locked
<1> QED
  BY <1>2, <1>3, <1>4, <1>5, <1>6, <1>7, <1>8, <1>9 DEF TypeOK, Admitted

(* A check begins a job, or lifts the fence, or changes nothing.            *)
LEMMA CheckEffect ==
    ASSUME TypeOK, NEW manual \in BOOLEAN, Check(manual)
    PROVE  /\ TypeOK'
           /\ Runs /\ ~Updating /\ ~WorkerRuns /\ web.check = "idle"
           /\ web'.alone = web.alone /\ UNCHANGED <<latest, faults>>
           /\ \/ Admitted
              \/ /\ UNCHANGED <<job, worker, original, candidate, database, snapshot, mishaps>>
                 /\ web'.check = "idle"
                 /\ settings' = settings \/ settings'.lifted
<1>1. Runs /\ ~Updating /\ ~WorkerRuns /\ web.check = "idle"
  BY DEF Check
<1>2. CASE Admit(manual)
  BY <1>1, <1>2, AdmitEffect
<1>3. CASE ~Admit(manual)
  <2>1. /\ settings' = IF latest = OwnImage
                        THEN [settings EXCEPT !.failed = None, !.lifted = TRUE] ELSE settings
        /\ web' = [web EXCEPT !.asked = web.asked /\ ~manual]
        /\ UNCHANGED <<latest, job, worker, original, candidate, database, snapshot,
                       mishaps, faults>>
    BY <1>3 DEF Check, yards, files, incidents
  <2>2. settings' \in Settings /\ (settings' = settings \/ settings'.lifted)
    BY <2>1 DEF TypeOK, Settings, None
  <2>3. web' \in Web /\ SameWeb
    BY <2>1 DEF TypeOK, Web, SameWeb
  <2> QED
    BY <1>1, <2>1, <2>2, <2>3 DEF TypeOK, SameWeb
<1> QED
  BY <1>2, <1>3

(* A failed pull ends the job.                                              *)
LEMMA PullEffect ==
    ASSUME TypeOK, Pull
    PROVE  /\ TypeOK'
           /\ UNCHANGED <<latest, worker, original, candidate, database, snapshot,
                          mishaps, faults>>
           /\ web.check = "pulling" /\ web'.alone = web.alone
           /\ \/ Updating /\ web'.check = "launching" /\ UNCHANGED <<job, settings>>
              \/ web'.check = "idle" /\ Ended("failed", "failed")
<1>1. UNCHANGED <<latest, worker, original, candidate, database, snapshot, mishaps, faults>>
  BY DEF Pull, yards, files, incidents
<1>2. web.check = "pulling"
  BY DEF Pull
<1>3. CASE Updating /\ web' = [web EXCEPT !.check = "launching"] /\ UNCHANGED <<job, settings>>
  <2>1. web' \in Web /\ web'.check = "launching" /\ web'.alone = web.alone
    BY <1>3 DEF TypeOK, Web
  <2> QED
    BY <1>1, <1>2, <1>3, <2>1 DEF TypeOK
<1>4. CASE FailJob
  <2>1. web' \in Web /\ web'.check = "idle" /\ web'.alone = web.alone
    BY <1>4 DEF TypeOK, Web, FailJob
  <2>2. job' \in Job /\ settings' \in Settings /\ Ended("failed", "failed")
    BY <1>4, FinishFields DEF TypeOK, FailJob
  <2> QED
    BY <1>1, <1>2, <2>1, <2>2 DEF TypeOK
<1> QED
  BY <1>3, <1>4 DEF Pull

(* The worker is created, perhaps, or the job ended.                        *)
LEMMA LaunchWorkerEffect ==
    ASSUME TypeOK, LaunchWorker
    PROVE  /\ TypeOK'
           /\ UNCHANGED <<latest, original, candidate, database, snapshot, mishaps, faults>>
           /\ web.check = "launching" /\ web'.alone = web.alone /\ SameStore
           /\ \/ /\ Updating /\ worker'.at = "created" /\ web'.check = "starting"
                 /\ UNCHANGED <<job, settings>>
              \/ /\ Updating /\ worker'.at \in {worker.at, "created"} /\ web'.check = "idle"
                 /\ UNCHANGED <<job, settings>>
              \/ worker' = worker /\ web'.check = "idle" /\ Ended("failed", "failed")
<1>1. UNCHANGED <<latest, original, candidate, database, snapshot, mishaps, faults>>
  BY DEF LaunchWorker, yards, files, incidents
<1>2. web.check = "launching"
  BY DEF LaunchWorker
<1>3. CASE /\ Updating /\ Goto("created") /\ web' = [web EXCEPT !.check = "starting"]
           /\ UNCHANGED <<job, settings>>
  <2>1. web' \in Web /\ web'.check = "starting" /\ web'.alone = web.alone
    BY <1>3 DEF TypeOK, Web
  <2>2. worker' \in Worker /\ worker'.at = "created" /\ SameStore
    BY <1>3, GotoFields DEF TypeOK, WorkerSteps
  <2> QED
    BY <1>1, <1>2, <1>3, <2>1, <2>2 DEF TypeOK
<1>4. CASE /\ Updating /\ worker' \in {worker, [worker EXCEPT !.at = "created"]}
           /\ web' = [web EXCEPT !.check = "idle"]
           /\ UNCHANGED <<job, settings>>
  <2>1. web' \in Web /\ web'.check = "idle" /\ web'.alone = web.alone
    BY <1>4 DEF TypeOK, Web
  <2>2. worker' \in Worker /\ worker'.at \in {worker.at, "created"} /\ SameStore
    BY <1>4 DEF TypeOK, Worker, WorkerSteps, SameStore
  <2> QED
    BY <1>1, <1>2, <1>4, <2>1, <2>2 DEF TypeOK
<1>5. CASE FailJob /\ UNCHANGED worker
  <2>1. web' \in Web /\ web'.check = "idle" /\ web'.alone = web.alone
    BY <1>5 DEF TypeOK, Web, FailJob
  <2>2. job' \in Job /\ settings' \in Settings /\ Ended("failed", "failed")
    BY <1>5, FinishFields DEF TypeOK, FailJob
  <2> QED
    BY <1>1, <1>2, <1>5, <2>1, <2>2 DEF TypeOK, SameStore
<1> QED
  BY <1>3, <1>4, <1>5 DEF LaunchWorker

(* The worker is started, perhaps.                                          *)
LEMMA StartWorkerEffect ==
    ASSUME TypeOK, StartWorker
    PROVE  /\ TypeOK'
           /\ UNCHANGED <<latest, settings, job, original,
                          candidate, database, snapshot, mishaps, faults>>
           /\ web.check = "starting" /\ web'.check = "idle" /\ web'.alone = web.alone
           /\ worker'.at \in {worker.at, "started"} /\ SameStore
<1>1. web' \in Web /\ web.check = "starting" /\ web'.check = "idle" /\ web'.alone = web.alone
  BY DEF TypeOK, Web, StartWorker
<1>2. worker' \in Worker /\ worker'.at \in {worker.at, "started"} /\ SameStore
  BY DEF TypeOK, Worker, WorkerSteps, SameStore, StartWorker
<1> QED
  BY <1>1, <1>2 DEF TypeOK, StartWorker, yards, files, incidents

(* The reconciler finds no worker.                                          *)
LEMMA FindAloneEffect ==
    ASSUME TypeOK, FindAlone
    PROVE  /\ TypeOK'
           /\ UNCHANGED <<latest, settings, job, worker, original,
                          candidate, database, snapshot, mishaps, faults>>
           /\ Runs /\ Updating /\ ~WorkerRuns /\ Ticks
           /\ web'.check = web.check /\ web'.alone = job.number
<1>1. web' \in Web /\ web'.check = web.check /\ web'.alone = job.number
  BY DEF TypeOK, Web, Job, FindAlone
<1> QED
  BY <1>1 DEF TypeOK, FindAlone, yards, files, incidents

(* The reconciler resolves the job that it looked at by the image of its own *)
(* container.                                                                *)
Resolved(status, outcome) ==
    /\ web.alone = job.number /\ Ended(status, outcome)
    /\ mishaps' = IF Updating /\ Committed THEN mishaps \cup {"raced"} ELSE mishaps

LEMMA ResolveAsFields ==
    ASSUME TypeOK, NEW status \in {"succeeded", "failed"}, NEW review \in BOOLEAN,
           web.alone = job.number, ResolveAs(status, review)
    PROVE  /\ job' \in Job /\ settings' \in Settings /\ mishaps' \subseteq Mishaps
           /\ Resolved(status, IF review THEN "recovery_required"
                               ELSE IF status = "failed" THEN "failed" ELSE "verified")
  BY FinishFields DEF TypeOK, ResolveAs, Resolved, Mishaps

(* What Resolve changes.                                                    *)
LEMMA ResolveEffect ==
    ASSUME TypeOK, Resolve
    PROVE  /\ TypeOK'
           /\ UNCHANGED <<latest, worker, original, candidate, database, snapshot, faults>>
           /\ Runs /\ web.alone # 0 /\ web'.check = web.check /\ web'.alone = 0
           /\ \/ OwnImage # job.target /\ Resolved("failed", "failed")
              \/ OwnImage = job.target /\ Resolved("succeeded", "verified")
              \/ OwnImage = job.target /\ Resolved("failed", "recovery_required")
              \/ UNCHANGED <<job, settings, mishaps>>
<1>1. web' \in Web /\ web.alone # 0 /\ web'.check = web.check /\ web'.alone = 0
  BY BoundsAssumption DEF TypeOK, Web, Resolve
<1>2. Runs /\ UNCHANGED <<latest, worker, original, candidate, database, snapshot, faults>>
  BY DEF Resolve, yards, files
<1>3. CASE UNCHANGED <<job, settings, mishaps>>
  BY <1>1, <1>2, <1>3 DEF TypeOK
<1>4. CASE web.alone = job.number /\ OwnImage # job.target
  <2>1. ResolveAs("failed", FALSE)
    BY <1>4 DEF Resolve
  <2>2. /\ job' \in Job /\ settings' \in Settings /\ mishaps' \subseteq Mishaps
        /\ Resolved("failed", "failed")
    BY <1>4, <2>1, ResolveAsFields
  <2> QED
    BY <1>1, <1>2, <1>4, <2>2 DEF TypeOK
<1>5. CASE web.alone = job.number /\ OwnImage = job.target /\ candidate.health = "healthy"
  <2>1. ResolveAs("succeeded", FALSE)
    BY <1>5 DEF Resolve
  <2>2. /\ job' \in Job /\ settings' \in Settings /\ mishaps' \subseteq Mishaps
        /\ Resolved("succeeded", "verified")
    BY <1>5, <2>1, ResolveAsFields
  <2> QED
    BY <1>1, <1>2, <1>5, <2>2 DEF TypeOK
<1>6. CASE /\ web.alone = job.number /\ OwnImage = job.target
           /\ candidate.health \notin {"healthy", "starting"}
  <2>1. ResolveAs("failed", TRUE)
    BY <1>6 DEF Resolve
  <2>2. /\ job' \in Job /\ settings' \in Settings /\ mishaps' \subseteq Mishaps
        /\ Resolved("failed", "recovery_required")
    BY <1>6, <2>1, ResolveAsFields
  <2> QED
    BY <1>1, <1>2, <1>6, <2>2 DEF TypeOK
<1>7. CASE \/ web.alone # job.number
           \/ OwnImage = job.target /\ candidate.health = "starting"
  <2>1. UNCHANGED <<job, settings, mishaps>>
    BY <1>7 DEF Resolve
  <2> QED
    BY <1>3, <2>1
<1> QED
  BY <1>4, <1>5, <1>6, <1>7

-----------------------------------------------------------------------------
(* The worker, forwards.                                                    *)
LEMMA ClaimEffect ==
    ASSUME TypeOK, Claim \/ Validate
    PROVE  /\ TypeOK'
           /\ UNCHANGED <<latest, web, original, candidate, database, snapshot, mishaps, faults>>
           /\ worker.at \in {"started", "claimed"} /\ SameStore
           /\ \/ worker'.at \in {"claimed", "validated", "gone"} /\ UNCHANGED <<job, settings>>
              \/ worker'.at = "gone" /\ Ended("failed", "failed")
<1>1. UNCHANGED <<latest, web, original, candidate, database, snapshot, mishaps, faults>>
  BY DEF Claim, Validate, yards, files, incidents
<1>2. worker.at \in {"started", "claimed"}
  BY DEF Claim, Validate
<1>3. CASE Goto("claimed") /\ UNCHANGED <<job, settings>>
  <2>1. worker' \in Worker /\ worker'.at = "claimed" /\ SameStore
    BY <1>3, GotoFields DEF TypeOK, WorkerSteps
  <2> QED
    BY <1>1, <1>2, <1>3, <2>1 DEF TypeOK
<1>4. CASE Goto("validated") /\ UNCHANGED <<job, settings>>
  <2>1. worker' \in Worker /\ worker'.at = "validated" /\ SameStore
    BY <1>4, GotoFields DEF TypeOK, WorkerSteps
  <2> QED
    BY <1>1, <1>2, <1>4, <2>1 DEF TypeOK
<1>5. CASE Claim /\ Goto("gone") /\ UNCHANGED <<job, settings>>
  <2>1. worker' \in Worker /\ worker'.at = "gone" /\ SameStore
    BY <1>5, GotoFields DEF TypeOK, WorkerSteps
  <2> QED
    BY <1>1, <1>2, <1>5, <2>1 DEF TypeOK
<1>6. CASE Goto("gone") /\ Finish("failed", FALSE)
  <2>1. worker' \in Worker /\ worker'.at = "gone" /\ SameStore
    BY <1>6, GotoFields DEF TypeOK, WorkerSteps
  <2>2. job' \in Job /\ settings' \in Settings /\ Ended("failed", "failed")
    BY <1>6, FinishFields DEF TypeOK
  <2> QED
    BY <1>1, <1>2, <2>1, <2>2 DEF TypeOK
<1> QED
  BY <1>3, <1>4, <1>5, <1>6 DEF Claim, Validate

(* A progress is recorded, or the worker goes back.                         *)
LEMMA ProgressEffect ==
    ASSUME TypeOK, NEW step \in WorkerSteps, NEW next \in WorkerSteps, Progress(step, next)
    PROVE  /\ TypeOK'
           /\ UNCHANGED <<latest, settings, job, web, original,
                          candidate, database, snapshot, mishaps, faults>>
           /\ worker.at = step /\ SameStore
           /\ worker'.at = "rollback" \/ (Updating /\ worker'.at = next)
<1>1. /\ worker' \in Worker /\ SameStore
      /\ worker'.at = "rollback" \/ (Updating /\ worker'.at = next)
  BY GotoFields DEF TypeOK, WorkerSteps, Progress, GoBack
<1> QED
  BY <1>1 DEF TypeOK, Progress, yards, files, incidents

(* What RenameOriginal changes.                                             *)
LEMMA RenameOriginalEffect ==
    ASSUME TypeOK, RenameOriginal
    PROVE  /\ TypeOK'
           /\ UNCHANGED <<latest, settings, job, web, candidate, database, snapshot,
                          mishaps, faults>>
           /\ worker.at = "renaming" /\ worker'.at \in {"stopping", "rollback"} /\ SameStore
           /\ SameOriginal
<1>1. worker' \in Worker /\ worker'.at \in {"stopping", "rollback"} /\ SameStore
  BY GotoFields DEF TypeOK, WorkerSteps, RenameOriginal, GoBack
<1>2. original' \in Original /\ SameOriginal
  BY DEF TypeOK, Original, RenameOriginal, SameOriginal
<1> QED
  BY <1>1, <1>2 DEF TypeOK, RenameOriginal, yards, files, incidents

(* What StopOriginal changes.                                               *)
LEMMA StopOriginalEffect ==
    ASSUME TypeOK, StopOriginal
    PROVE  /\ TypeOK'
           /\ UNCHANGED <<latest, settings, job, candidate, database, snapshot, mishaps, faults>>
           /\ worker.at = "stopping" /\ worker'.at \in {"backup", "rollback"} /\ SameStore
           /\ original'.image = original.image
           /\ \/ original'.state = "down" /\ WebEnded
              \/ SameOriginal /\ SameWeb /\ worker'.at = "rollback"
<1>1. worker' \in Worker /\ worker'.at \in {"backup", "rollback"} /\ SameStore
  BY GotoFields DEF TypeOK, WorkerSteps, StopOriginal, GoBack
<1>2. CASE original' = [original EXCEPT !.state = "down"] /\ web' = Idle
  <2>1. original' \in Original /\ original'.image = original.image /\ original'.state = "down"
    BY <1>2 DEF TypeOK, Original, States
  <2>2. web' \in Web /\ WebEnded
    BY <1>2, BoundsAssumption DEF Web, Idle, WebEnded
  <2> QED
    BY <1>1, <2>1, <2>2 DEF TypeOK, StopOriginal, files, incidents
<1>3. CASE UNCHANGED <<original, web>> /\ GoBack
  <2>1. worker'.at = "rollback"
    BY <1>3, GotoFields DEF TypeOK, WorkerSteps, GoBack
  <2> QED
    BY <1>1, <1>3, <2>1 DEF TypeOK, StopOriginal, files, incidents, SameOriginal, SameWeb
<1> QED
  BY <1>1, <1>2, <1>3 DEF TypeOK, StopOriginal, yards, files, incidents

(* What BackupForSelfUpdate changes.                                        *)
LEMMA BackupForSelfUpdateEffect ==
    ASSUME TypeOK, BackupForSelfUpdate
    PROVE  /\ TypeOK'
           /\ UNCHANGED <<latest, settings, job, web, original, candidate, database,
                          mishaps, faults>>
           /\ worker.at = "backup" /\ worker'.at \in {"creating", "rollback"} /\ SameStore
           /\ IF worker'.at = "creating" THEN snapshot' = "taken" ELSE UNCHANGED snapshot
<1>1. worker' \in Worker /\ worker'.at \in {"creating", "rollback"} /\ SameStore
  BY GotoFields DEF TypeOK, WorkerSteps, BackupForSelfUpdate, GoBack
<1>2. IF worker'.at = "creating" THEN snapshot' = "taken" ELSE UNCHANGED snapshot
  BY GotoFields DEF TypeOK, WorkerSteps, BackupForSelfUpdate, GoBack
<1> QED
  BY <1>1, <1>2 DEF TypeOK, BackupForSelfUpdate, yards, files, incidents

(* What CreateCandidate changes.                                            *)
LEMMA CreateCandidateEffect ==
    ASSUME TypeOK, CreateCandidate
    PROVE  /\ TypeOK'
           /\ UNCHANGED <<latest, settings, job, web, original, database, snapshot,
                          mishaps, faults>>
           /\ worker.at = "creating" /\ worker'.at \in {"starting", "rollback"} /\ SameStore
           /\ candidate'.detached = candidate.detached
           /\ candidate'.state = "down" \/ (UNCHANGED candidate /\ worker'.at = "rollback")
<1>1. worker' \in Worker /\ worker'.at \in {"starting", "rollback"} /\ SameStore
  BY GotoFields DEF TypeOK, WorkerSteps, CreateCandidate, GoBack
<1>2. /\ candidate' \in Candidate /\ candidate'.detached = candidate.detached
      /\ candidate'.state = "down" \/ UNCHANGED candidate
  BY DEF TypeOK, Candidate, States, CreateCandidate
<1>3. candidate'.state = "down" \/ (UNCHANGED candidate /\ worker'.at = "rollback")
  BY GotoFields DEF TypeOK, WorkerSteps, CreateCandidate, GoBack, Candidate
<1> QED
  BY <1>1, <1>2, <1>3 DEF TypeOK, CreateCandidate, yards, files, incidents

(* What StartCandidate changes.                                             *)
LEMMA StartCandidateEffect ==
    ASSUME TypeOK, StartCandidate
    PROVE  /\ TypeOK'
           /\ UNCHANGED <<latest, settings, job, web, original, snapshot, mishaps, faults>>
           /\ worker.at = "starting" /\ worker'.at \in {"running", "rollback"} /\ SameStore
           /\ candidate'.detached = candidate.detached
           /\ \/ candidate'.state = "up" /\ database' = "candidate"
              \/ UNCHANGED <<candidate, database>> /\ worker'.at = "rollback"
<1>1. worker' \in Worker /\ worker'.at \in {"running", "rollback"} /\ SameStore
  BY GotoFields DEF TypeOK, WorkerSteps, StartCandidate, GoBack
<1>2. /\ candidate' \in Candidate /\ database' \in {"original", "candidate"}
      /\ candidate'.detached = candidate.detached
  BY DEF TypeOK, Candidate, States, Healths, StartCandidate
<1>3. \/ candidate'.state = "up" /\ database' = "candidate"
      \/ UNCHANGED <<candidate, database>> /\ worker'.at = "rollback"
  BY GotoFields DEF TypeOK, WorkerSteps, StartCandidate, GoBack, Candidate
<1> QED
  BY <1>1, <1>2, <1>3 DEF TypeOK, StartCandidate, yards, files, incidents

(* Only a candidate that runs is found healthy.                             *)
LEMMA WaitHealthyEffect ==
    ASSUME TypeOK, WaitHealthy
    PROVE  /\ TypeOK'
           /\ UNCHANGED <<latest, settings, job, web, original,
                          candidate, database, snapshot, mishaps, faults>>
           /\ worker.at = "waiting" /\ worker'.at \in {"finishing", "rollback"} /\ SameStore
           /\ worker'.at = "finishing" => InCandidate
<1>1. worker' \in Worker /\ worker'.at \in {"finishing", "rollback"} /\ SameStore
  BY GotoFields DEF TypeOK, WorkerSteps, WaitHealthy, GoBack
<1>2. worker'.at = "finishing" => InCandidate
  BY GotoFields DEF TypeOK, WorkerSteps, WaitHealthy, GoBack
<1> QED
  BY <1>1, <1>2 DEF TypeOK, WaitHealthy, yards, files, incidents

(* The success is recorded, or the worker goes back.                        *)
LEMMA SucceedEffect ==
    ASSUME TypeOK, Succeed
    PROVE  /\ TypeOK'
           /\ UNCHANGED <<latest, web, original, candidate, database, snapshot, mishaps, faults>>
           /\ worker.at = "finishing" /\ SameStore
           /\ \/ Updating /\ worker'.at = "removing_old" /\ Ended("succeeded", "verified")
              \/ worker'.at = "rollback" /\ UNCHANGED <<job, settings>>
<1>1. /\ UNCHANGED <<latest, web, original, candidate, database, snapshot, mishaps, faults>>
      /\ worker.at = "finishing"
  BY DEF Succeed, yards, files, incidents
<1>2. CASE Updating /\ Finish("succeeded", FALSE) /\ Goto("removing_old")
  <2>1. worker' \in Worker /\ worker'.at = "removing_old" /\ SameStore
    BY <1>2, GotoFields DEF TypeOK, WorkerSteps
  <2>2. job' \in Job /\ settings' \in Settings /\ Ended("succeeded", "verified")
    BY <1>2, FinishFields DEF TypeOK
  <2> QED
    BY <1>1, <1>2, <2>1, <2>2 DEF TypeOK
<1>3. CASE GoBack /\ UNCHANGED <<job, settings>>
  <2>1. worker' \in Worker /\ worker'.at = "rollback" /\ SameStore
    BY <1>3, GotoFields DEF TypeOK, WorkerSteps, GoBack
  <2> QED
    BY <1>1, <1>3, <2>1 DEF TypeOK
<1> QED
  BY <1>2, <1>3 DEF Succeed

(* What RemoveOriginal changes.                                             *)
LEMMA RemoveOriginalEffect ==
    ASSUME TypeOK, RemoveOriginal
    PROVE  /\ TypeOK'
           /\ UNCHANGED <<latest, settings, job, web, candidate, database, snapshot,
                          mishaps, faults>>
           /\ worker.at = "removing_old" /\ worker'.at \in {"removing_copy"} /\ SameStore
           /\ original'.image = original.image
           /\ original'.state \in {original.state, "gone"}
<1>1. worker' \in Worker /\ worker'.at \in {"removing_copy"} /\ SameStore
  BY GotoFields DEF TypeOK, WorkerSteps, RemoveOriginal, GoBack
<1>2. /\ original' \in Original /\ original'.image = original.image
      /\ original'.state \in {original.state, "gone"}
  BY DEF TypeOK, Original, States, RemoveOriginal
<1> QED
  BY <1>1, <1>2 DEF TypeOK, RemoveOriginal, yards, files, incidents

(* What RemoveCopy changes.                                                 *)
LEMMA RemoveCopyEffect ==
    ASSUME TypeOK, RemoveCopy
    PROVE  /\ TypeOK'
           /\ UNCHANGED <<latest, settings, job, web, original, candidate, database,
                          mishaps, faults>>
           /\ worker.at = "removing_copy" /\ worker'.at \in {"gone"} /\ SameStore
           /\ snapshot' \in {snapshot, "none"}
<1>1. worker' \in Worker /\ worker'.at \in {"gone"} /\ SameStore
  BY GotoFields DEF TypeOK, WorkerSteps, RemoveCopy, GoBack
<1> QED
  BY <1>1 DEF TypeOK, RemoveCopy, yards, files, incidents

-----------------------------------------------------------------------------
(* The worker, backwards.  A step that goes wrong is remembered.            *)
Failed(next) == worker'.at = next /\ worker'.store = worker.store /\ worker'.failed = TRUE

(* A fault is counted up to the bound.                                      *)
LEMMA FaultCounted ==
    ASSUME faults \in 0..MaxFaults, faults < MaxFaults, faults' = faults + 1
    PROVE  faults' \in 0..MaxFaults
  BY BoundsAssumption

(* What RemoveCandidate changes.                                            *)
LEMMA RemoveCandidateEffect ==
    ASSUME TypeOK, RemoveCandidate
    PROVE  LET next == IF snapshot = "taken" THEN "restoring" ELSE "naming"
           IN  /\ TypeOK'
               /\ UNCHANGED <<latest, settings, job, original, database, snapshot, mishaps>>
               /\ worker.at = "rollback"
               /\ WebEnded \/ SameWeb
               /\ candidate'.detached = candidate.detached
               /\ \/ candidate'.state = "gone" /\ worker'.at = next /\ SameStore
                  \/ /\ candidate.state # "gone"
                     /\ candidate'.state \in {candidate.state, "down", "gone"}
                     /\ Failed(next)
<1>. DEFINE next == IF snapshot = "taken" THEN "restoring" ELSE "naming"
<1>1. next \in WorkerSteps
  BY DEF WorkerSteps
<1>2. /\ UNCHANGED <<latest, settings, job, original, database, snapshot, mishaps>>
      /\ worker.at = "rollback"
  BY DEF RemoveCandidate, files
<1>3. web' \in Web /\ (WebEnded \/ SameWeb)
  <2>1. web' = Idle \/ web' = web
    BY DEF RemoveCandidate
  <2> QED
    BY <2>1, IdleFields DEF TypeOK, WebEnded, SameWeb
<1>4. CASE candidate' = [candidate EXCEPT !.state = "gone"] /\ Goto(next) /\ UNCHANGED faults
  <2>1. /\ candidate' \in Candidate /\ candidate'.state = "gone"
        /\ candidate'.detached = candidate.detached
    BY <1>4 DEF TypeOK, Candidate, States
  <2>2. worker' \in Worker /\ worker'.at = next /\ SameStore
    BY <1>1, <1>4, GotoFields DEF TypeOK
  <2> QED
    BY <1>2, <1>3, <1>4, <2>1, <2>2 DEF TypeOK
<1>5. ASSUME NEW left \in {candidate.state, "down", "gone"}, candidate.state # "gone",
             candidate' = [candidate EXCEPT !.state = left], Failing(next)
      PROVE  /\ TypeOK' /\ candidate'.detached = candidate.detached
             /\ candidate'.state \in {candidate.state, "down", "gone"} /\ Failed(next)
  <2>1. left \in States
    BY DEF TypeOK, Candidate, States
  <2>2. candidate' \in Candidate /\ candidate'.state = left
    BY <1>5, <2>1 DEF TypeOK, Candidate
  <2>3. candidate'.detached = candidate.detached
    BY <1>5 DEF TypeOK, Candidate
  <2>4. worker' \in Worker /\ faults' \in 0..MaxFaults /\ Failed(next)
    BY <1>1, <1>5, FailingFields DEF TypeOK, Failed
  <2> QED
    BY <1>2, <1>3, <2>2, <2>3, <2>4 DEF TypeOK
<1>6. \/ candidate' = [candidate EXCEPT !.state = "gone"] /\ Goto(next) /\ UNCHANGED faults
      \/ /\ candidate.state # "gone"
         /\ \E left \in {candidate.state, "down", "gone"} :
                candidate' = [candidate EXCEPT !.state = left]
         /\ Failing(next)
  BY DEF RemoveCandidate
<1>7. CASE /\ candidate.state # "gone"
           /\ \E left \in {candidate.state, "down", "gone"} :
                  candidate' = [candidate EXCEPT !.state = left]
           /\ Failing(next)
  <2>1. PICK left \in {candidate.state, "down", "gone"} :
            candidate' = [candidate EXCEPT !.state = left]
    BY <1>7
  <2>2. /\ TypeOK' /\ candidate'.detached = candidate.detached
        /\ candidate'.state \in {candidate.state, "down", "gone"} /\ Failed(next)
    BY <1>5, <1>7, <2>1
  <2> QED
    BY <1>2, <1>3, <1>7, <2>2
<1> QED
  BY <1>4, <1>6, <1>7

(* What becomes of the containers and the file when the copy is put back.   *)
Restored ==
    /\ database' = "original" /\ snapshot' = "none"
    /\ candidate'.state = candidate.state
    /\ candidate'.detached = (candidate.state = "up")

(* PutBack keeps the types.                                                 *)
LEMMA PutBackFields ==
    ASSUME TypeOK, PutBack
    PROVE  /\ candidate' \in Candidate /\ web' \in Web
           /\ database' \in {"original", "candidate"} /\ snapshot' \in {"none", "taken"}
           /\ Restored /\ (WebEnded \/ SameWeb)
<1>1. /\ candidate' \in Candidate /\ candidate'.state = candidate.state
      /\ candidate'.detached = (candidate.state = "up")
  BY DEF TypeOK, Candidate, PutBack
<1>2. web' \in Web /\ (WebEnded \/ SameWeb)
  <2>1. web' = Idle \/ web' = web
    BY DEF PutBack
  <2> QED
    BY <2>1, IdleFields DEF TypeOK, WebEnded, SameWeb
<1> QED
  BY <1>1, <1>2 DEF PutBack, Restored

(* What RestoreDatabase changes.                                            *)
LEMMA RestoreDatabaseEffect ==
    ASSUME TypeOK, RestoreDatabase
    PROVE  /\ TypeOK'
           /\ UNCHANGED <<latest, settings, job, original, mishaps>>
           /\ worker.at = "restoring" /\ worker'.at = "naming"
           /\ \/ Restored /\ (WebEnded \/ SameWeb) /\ SameStore
              \/ Restored /\ (WebEnded \/ SameWeb) /\ worker'.failed = TRUE
              \/ /\ UNCHANGED <<candidate, web, database, snapshot>>
                 /\ worker'.failed = TRUE
<1>1. /\ UNCHANGED <<latest, settings, job, original, mishaps>>
      /\ worker.at = "restoring"
  BY DEF RestoreDatabase
<1>2. CASE PutBack /\ Goto("naming") /\ UNCHANGED faults
  <2>1. worker' \in Worker /\ worker'.at = "naming" /\ SameStore
    BY <1>2, GotoFields DEF TypeOK, WorkerSteps
  <2> QED
    BY <1>1, <1>2, <2>1, PutBackFields DEF TypeOK
<1>3. CASE /\ PutBack
           /\ faults < MaxFaults /\ faults' = faults + 1
           /\ worker' = [at |-> "naming", store |-> "nil", failed |-> TRUE]
  <2>1. worker' \in Worker /\ worker'.at = "naming" /\ worker'.failed = TRUE
    BY <1>3 DEF Worker, WorkerSteps
  <2>2. faults' \in 0..MaxFaults
    BY <1>3, FaultCounted DEF TypeOK
  <2> QED
    BY <1>1, <1>3, <2>1, <2>2, PutBackFields DEF TypeOK
<1>4. CASE /\ faults < MaxFaults /\ faults' = faults + 1
           /\ worker' = [at |-> "naming", store |-> "closed", failed |-> TRUE]
           /\ UNCHANGED <<files, candidate, web>>
  <2>1. worker' \in Worker /\ worker'.at = "naming" /\ worker'.failed = TRUE
    BY <1>4 DEF Worker, WorkerSteps
  <2>2. faults' \in 0..MaxFaults
    BY <1>4, FaultCounted DEF TypeOK
  <2> QED
    BY <1>1, <1>4, <2>1, <2>2 DEF TypeOK, files
<1> QED
  BY <1>2, <1>3, <1>4 DEF RestoreDatabase

(* What RestoreName changes.                                                *)
LEMMA RestoreNameEffect ==
    ASSUME TypeOK, RestoreName
    PROVE  /\ TypeOK'
           /\ UNCHANGED <<latest, settings, job, web, candidate, database, snapshot, mishaps>>
           /\ worker.at = "naming" /\ SameOriginal
           /\ \/ candidate.state = "gone" /\ worker'.at = "restarting" /\ SameStore
              \/ Failed("restarting")
              \/ Failed("recording")
<1>1. /\ UNCHANGED <<latest, settings, job, web, candidate, database, snapshot, mishaps>>
      /\ worker.at = "naming"
  BY DEF RestoreName, files
<1>2. CASE /\ candidate.state = "gone" /\ original' = [original EXCEPT !.own_name = TRUE]
           /\ Goto("restarting") /\ UNCHANGED faults
  <2>1. original' \in Original /\ SameOriginal
    BY <1>2 DEF TypeOK, Original, SameOriginal
  <2>2. worker' \in Worker /\ worker'.at = "restarting" /\ SameStore
    BY <1>2, GotoFields DEF TypeOK, WorkerSteps
  <2> QED
    BY <1>1, <1>2, <2>1, <2>2 DEF TypeOK
<1>3. CASE /\ candidate.state # "gone" /\ UNCHANGED <<original, faults>>
           /\ worker' = [worker EXCEPT !.failed = TRUE, !.at = "restarting"]
  <2>1. worker' \in Worker /\ Failed("restarting")
    BY <1>3 DEF TypeOK, Worker, WorkerSteps, Failed
  <2> QED
    BY <1>1, <1>3, <2>1 DEF TypeOK, SameOriginal
<1>4. CASE Failing("restarting") /\ UNCHANGED original
  <2>1. worker' \in Worker /\ faults' \in 0..MaxFaults /\ Failed("restarting")
    BY <1>4, FailingFields DEF TypeOK, Failed, WorkerSteps
  <2> QED
    BY <1>1, <1>4, <2>1 DEF TypeOK, SameOriginal
<1>5. CASE Failing("recording") /\ UNCHANGED original
  <2>1. worker' \in Worker /\ faults' \in 0..MaxFaults /\ Failed("recording")
    BY <1>5, FailingFields DEF TypeOK, Failed, WorkerSteps
  <2> QED
    BY <1>1, <1>5, <2>1 DEF TypeOK, SameOriginal
<1> QED
  BY <1>2, <1>3, <1>4, <1>5 DEF RestoreName

(* What Restart changes: one Yard runs where the other does not.            *)
LEMMA RestartEffect ==
    ASSUME TypeOK, Restart
    PROVE  /\ TypeOK'
           /\ UNCHANGED <<latest, settings, job, web, candidate, database, snapshot, mishaps>>
           /\ worker.at = "restarting" /\ original'.image = original.image
           /\ original'.state \in {original.state, "up"}
           /\ original.state = "up" \/ candidate.state # "up" \/ original'.state = original.state
           /\ \/ /\ original'.state = "up" /\ worker'.at \in {"recording", "rewaiting"}
                 /\ SameStore
              \/ Failed("recording")
<1>1. /\ UNCHANGED <<latest, settings, job, web, candidate, database, snapshot, mishaps>>
      /\ worker.at = "restarting"
  BY DEF Restart, files
<1>2. CASE original.state = "up" /\ Goto("recording") /\ UNCHANGED <<original, faults>>
  <2>1. worker' \in Worker /\ worker'.at = "recording" /\ SameStore
    BY <1>2, GotoFields DEF TypeOK, WorkerSteps
  <2> QED
    BY <1>1, <1>2, <2>1 DEF TypeOK
<1>3. CASE /\ original.state = "down" /\ candidate.state # "up"
           /\ original' = [original EXCEPT !.state = "up", !.health = "starting"]
           /\ Goto("rewaiting") /\ UNCHANGED faults
  <2>1. original' \in Original /\ original'.image = original.image /\ original'.state = "up"
    BY <1>3 DEF TypeOK, Original, States, Healths
  <2>2. worker' \in Worker /\ worker'.at = "rewaiting" /\ SameStore
    BY <1>3, GotoFields DEF TypeOK, WorkerSteps
  <2> QED
    BY <1>1, <1>3, <2>1, <2>2 DEF TypeOK
<1>4. CASE /\ original.state = "down" /\ candidate.state # "up"
           /\ original' \in {original, [original EXCEPT !.state = "up", !.health = "starting"]}
           /\ Failing("recording")
  <2>1. /\ original' \in Original /\ original'.image = original.image
        /\ original'.state \in {original.state, "up"}
    BY <1>4 DEF TypeOK, Original, States, Healths
  <2>2. worker' \in Worker /\ faults' \in 0..MaxFaults /\ Failed("recording")
    BY <1>4, FailingFields DEF TypeOK, Failed, WorkerSteps
  <2> QED
    BY <1>1, <1>4, <2>1, <2>2 DEF TypeOK
<1>5. CASE /\ original.state = "down" /\ candidate.state = "up"
           /\ worker' = [worker EXCEPT !.failed = TRUE, !.at = "recording"]
           /\ UNCHANGED <<original, faults>>
  <2>1. worker' \in Worker /\ Failed("recording")
    BY <1>5 DEF TypeOK, Worker, WorkerSteps, Failed
  <2> QED
    BY <1>1, <1>5, <2>1 DEF TypeOK
<1> QED
  BY <1>2, <1>3, <1>4, <1>5 DEF Restart

(* What WaitOriginal changes.                                               *)
LEMMA WaitOriginalEffect ==
    ASSUME TypeOK, WaitOriginal
    PROVE  /\ TypeOK'
           /\ UNCHANGED <<latest, settings, job, web, original,
                          candidate, database, snapshot, mishaps>>
           /\ worker.at = "rewaiting" /\ worker'.at = "recording"
           /\ worker'.store = worker.store /\ (worker.failed => worker'.failed)
<1>1. /\ worker' \in Worker /\ worker'.at = "recording" /\ worker'.store = worker.store
  BY DEF TypeOK, Worker, WorkerSteps, WaitOriginal
<1>2. worker.failed => worker'.failed
  BY DEF TypeOK, Worker, WaitOriginal
<1> QED
  BY <1>1, <1>2 DEF TypeOK, WaitOriginal, yards, files, incidents

(* A failure that is not recorded is a mishap.                              *)
LEMMA UnreportedFields ==
    ASSUME TypeOK, mishaps' = Unreported
    PROVE  /\ mishaps' \subseteq Mishaps /\ mishaps \subseteq mishaps'
           /\ worker.failed => mishaps' # {}
           /\ "retaken" \in mishaps' <=> "retaken" \in mishaps
<1>1. CASE worker.failed
  BY <1>1 DEF TypeOK, Unreported, Mishaps
<1>2. CASE ~worker.failed
  BY <1>2 DEF TypeOK, Unreported
<1> QED
  BY <1>1, <1>2

(* What RecordRollback changes.                                             *)
LEMMA RecordRollbackEffect ==
    ASSUME TypeOK, RecordRollback
    PROVE  /\ TypeOK'
           /\ UNCHANGED <<latest, web, original, candidate, database, snapshot>>
           /\ worker.at = "recording" /\ worker'.at = "gone" /\ SameStore
           /\ \/ /\ worker.store # "open" /\ UNCHANGED <<job, settings>>
                 /\ mishaps' = Unreported
              \/ worker.failed /\ Ended("failed", "recovery_required") /\ mishaps' = mishaps
              \/ ~worker.failed /\ Ended("failed", "failed") /\ mishaps' = mishaps
<1>1. /\ UNCHANGED <<latest, web, original, candidate, database, snapshot, faults>>
      /\ worker.at = "recording"
  BY DEF RecordRollback, yards, files
<1>2. worker' \in Worker /\ worker'.at = "gone" /\ SameStore
  BY GotoFields DEF TypeOK, WorkerSteps, RecordRollback
<1>3. CASE worker.store # "open"
  <2>1. UNCHANGED <<job, settings>> /\ mishaps' = Unreported
    BY <1>3 DEF RecordRollback
  <2> QED
    BY <1>1, <1>2, <1>3, <2>1, UnreportedFields DEF TypeOK
<1>4. CASE worker.store = "open" /\ worker.failed
  <2>1. worker.failed = TRUE
    BY <1>4 DEF TypeOK, Worker
  <2>2. Finish("failed", TRUE) /\ mishaps' = mishaps
    BY <1>4, <2>1 DEF RecordRollback
  <2>3. job' \in Job /\ settings' \in Settings /\ Ended("failed", "recovery_required")
    BY <2>2, FinishFields DEF TypeOK
  <2> QED
    BY <1>1, <1>2, <1>4, <2>2, <2>3 DEF TypeOK
<1>5. CASE worker.store = "open" /\ ~worker.failed
  <2>1. worker.failed = FALSE
    BY <1>5 DEF TypeOK, Worker
  <2>2. Finish("failed", FALSE) /\ mishaps' = mishaps
    BY <1>5, <2>1 DEF RecordRollback
  <2>3. job' \in Job /\ settings' \in Settings /\ Ended("failed", "failed")
    BY <2>2, FinishFields DEF TypeOK
  <2> QED
    BY <1>1, <1>2, <1>5, <2>2, <2>3 DEF TypeOK
<1> QED
  BY <1>3, <1>4, <1>5

-----------------------------------------------------------------------------
(* What happens to them.                                                    *)
LEMMA WorkerDiesEffect ==
    ASSUME TypeOK, WorkerDies
    PROVE  /\ TypeOK'
           /\ UNCHANGED <<latest, settings, job, web, original, candidate, database, snapshot>>
           /\ WorkerRuns /\ worker'.at = "gone" /\ SameStore
           /\ mishaps' = Unreported
<1>1. worker' \in Worker /\ worker'.at = "gone" /\ SameStore
  BY GotoFields DEF TypeOK, WorkerSteps, WorkerDies
<1>2. faults' \in 0..MaxFaults /\ mishaps' = Unreported
  BY FaultCounted DEF TypeOK, WorkerDies
<1> QED
  BY <1>1, <1>2, UnreportedFields DEF TypeOK, WorkerDies, yards, files

(* What WebRestarts changes.                                                *)
LEMMA WebRestartsEffect ==
    ASSUME TypeOK, WebRestarts
    PROVE  /\ TypeOK'
           /\ UNCHANGED <<latest, settings, job, worker, snapshot>>
           /\ WebEnded /\ SameOriginal /\ candidate'.state = candidate.state
           /\ \/ candidate'.detached = candidate.detached /\ UNCHANGED <<database, mishaps>>
              \/ /\ candidate.detached /\ candidate'.detached = FALSE
                 /\ database' = "candidate" /\ mishaps' = mishaps \cup {"retaken"}
<1>1. web' \in Web /\ WebEnded
  BY BoundsAssumption DEF WebRestarts, Idle, Web, WebEnded
<1>2. faults' \in 0..MaxFaults /\ UNCHANGED <<latest, settings, job, worker, snapshot>>
  BY FaultCounted DEF TypeOK, WebRestarts
<1>3. CASE /\ candidate' = [candidate EXCEPT !.health = "starting"]
           /\ UNCHANGED <<original, database, mishaps>>
  <2>1. candidate' \in Candidate /\ SameCandidate
    BY <1>3 DEF TypeOK, Candidate, Healths, SameCandidate
  <2> QED
    BY <1>1, <1>2, <1>3, <2>1 DEF TypeOK, SameOriginal, SameCandidate
<1>4. CASE /\ original' = [original EXCEPT !.health = "starting"]
           /\ UNCHANGED <<candidate, database, mishaps>>
  <2>1. original' \in Original /\ SameOriginal
    BY <1>4 DEF TypeOK, Original, Healths, SameOriginal
  <2> QED
    BY <1>1, <1>2, <1>4, <2>1 DEF TypeOK
<1>5. CASE /\ candidate.detached
           /\ candidate' = [candidate EXCEPT !.health = "starting", !.detached = FALSE]
           /\ database' = "candidate"
           /\ mishaps' = mishaps \cup {"retaken"}
           /\ UNCHANGED original
  <2>1. /\ candidate' \in Candidate /\ candidate'.state = candidate.state
        /\ candidate'.detached = FALSE
    BY <1>5 DEF TypeOK, Candidate, Healths
  <2>2. mishaps' \subseteq Mishaps
    BY <1>5 DEF TypeOK, Mishaps
  <2> QED
    BY <1>1, <1>2, <1>5, <2>1, <2>2 DEF TypeOK, SameOriginal
<1> QED
  BY <1>3, <1>4, <1>5 DEF WebRestarts

(* What CandidateExits changes.                                             *)
LEMMA CandidateExitsEffect ==
    ASSUME TypeOK, CandidateExits
    PROVE  /\ TypeOK'
           /\ UNCHANGED <<latest, settings, job, worker, original, database, snapshot, mishaps>>
           /\ WebEnded /\ candidate.state = "up"
           /\ candidate'.state = "down" /\ candidate'.detached = FALSE
<1>1. web' \in Web /\ WebEnded
  BY BoundsAssumption DEF CandidateExits, Idle, Web, WebEnded
<1>2. faults' \in 0..MaxFaults
  BY FaultCounted DEF TypeOK, CandidateExits
<1>3. /\ candidate' \in Candidate /\ candidate.state = "up"
      /\ candidate'.state = "down" /\ candidate'.detached = FALSE
  BY DEF CandidateExits, TypeOK, Candidate, States
<1> QED
  BY <1>1, <1>2, <1>3 DEF TypeOK, CandidateExits, files

(* What Publish changes.                                                    *)
LEMMA PublishEffect ==
    ASSUME TypeOK, NEW release \in Releases, Publish(release)
    PROVE  /\ TypeOK'
           /\ UNCHANGED <<settings, job, web, worker, original,
                          candidate, database, snapshot, mishaps>>
  BY DEF TypeOK, Publish, yards, files, incidents

(* What Probe changes.                                                      *)
LEMMA ProbeEffect ==
    ASSUME TypeOK, NEW health \in {"healthy", "unhealthy"}, Probe(health)
    PROVE  /\ TypeOK'
           /\ UNCHANGED <<latest, settings, job, web, worker, database, snapshot, mishaps>>
           /\ SameOriginal /\ SameCandidate
<1>1. UNCHANGED <<latest, settings, job, web, worker, database, snapshot, mishaps, faults>>
  BY DEF Probe, files, incidents
<1>2. candidate' \in Candidate /\ SameCandidate
  BY DEF Probe, TypeOK, Candidate, Healths, SameCandidate
<1>3. original' \in Original /\ SameOriginal
  BY DEF Probe, TypeOK, Original, Healths, SameOriginal
<1> QED
  BY <1>1, <1>2, <1>3 DEF TypeOK

(* What AcknowledgeRecovery changes.                                        *)
LEMMA AcknowledgeRecoveryEffect ==
    ASSUME TypeOK, AcknowledgeRecovery
    PROVE  /\ TypeOK'
           /\ UNCHANGED <<latest, settings, web, worker, original,
                          candidate, database, snapshot, mishaps>>
           /\ job.outcome = "recovery_required" /\ ~WorkerRuns
           /\ job'.outcome = "recovery_acknowledged" /\ job'.status = job.status
           /\ job'.target = job.target /\ job'.number = job.number
<1>1. /\ job' \in Job
      /\ job'.outcome = "recovery_acknowledged" /\ job'.status = job.status
      /\ job'.target = job.target /\ job'.number = job.number
  BY DEF AcknowledgeRecovery, TypeOK, Job
<1> QED
  BY <1>1 DEF TypeOK, AcknowledgeRecovery, Locked, yards, files, incidents

-----------------------------------------------------------------------------
(* Types, for every number of updates and faults.                           *)
LEMMA TypeStep == TypeOK /\ [Next]_vars => TypeOK'
<1> SUFFICES ASSUME TypeOK, [Next]_vars PROVE TypeOK'
  OBVIOUS
<1>1. ASSUME NEW enabled \in BOOLEAN, SetSettings(enabled) PROVE TypeOK'
  BY <1>1, SetSettingsEffect
<1>2. ASSUME NEW manual \in BOOLEAN, Check(manual) PROVE TypeOK'
  BY <1>2, CheckEffect
<1>3. ASSUME NEW release \in Releases, Publish(release) PROVE TypeOK'
  BY <1>3, PublishEffect
<1>4. ASSUME NEW health \in {"healthy", "unhealthy"}, Probe(health) PROVE TypeOK'
  BY <1>4, ProbeEffect
<1>5. CASE CheckNow
  BY <1>5, CheckNowEffect
<1>6. CASE Pull
  BY <1>6, PullEffect
<1>7. CASE LaunchWorker
  BY <1>7, LaunchWorkerEffect
<1>8. CASE StartWorker
  BY <1>8, StartWorkerEffect
<1>9. CASE FindAlone
  BY <1>9, FindAloneEffect
<1>10. CASE Resolve
  BY <1>10, ResolveEffect
<1>11. CASE Claim \/ Validate
  BY <1>11, ClaimEffect
<1>12. CASE Progress("validated", "renaming")
  BY <1>12, ProgressEffect DEF WorkerSteps
<1>13. CASE Progress("running", "waiting")
  BY <1>13, ProgressEffect DEF WorkerSteps
<1>14. CASE RenameOriginal
  BY <1>14, RenameOriginalEffect
<1>15. CASE StopOriginal
  BY <1>15, StopOriginalEffect
<1>16. CASE BackupForSelfUpdate
  BY <1>16, BackupForSelfUpdateEffect
<1>17. CASE CreateCandidate
  BY <1>17, CreateCandidateEffect
<1>18. CASE StartCandidate
  BY <1>18, StartCandidateEffect
<1>19. CASE WaitHealthy
  BY <1>19, WaitHealthyEffect
<1>20. CASE Succeed
  BY <1>20, SucceedEffect
<1>21. CASE RemoveOriginal
  BY <1>21, RemoveOriginalEffect
<1>22. CASE RemoveCopy
  BY <1>22, RemoveCopyEffect
<1>23. CASE RemoveCandidate
  BY <1>23, RemoveCandidateEffect
<1>24. CASE RestoreDatabase
  BY <1>24, RestoreDatabaseEffect
<1>25. CASE RestoreName
  BY <1>25, RestoreNameEffect
<1>26. CASE Restart
  BY <1>26, RestartEffect
<1>27. CASE WaitOriginal
  BY <1>27, WaitOriginalEffect
<1>28. CASE RecordRollback
  BY <1>28, RecordRollbackEffect
<1>29. CASE WorkerDies
  BY <1>29, WorkerDiesEffect
<1>30. CASE WebRestarts
  BY <1>30, WebRestartsEffect
<1>31. CASE CandidateExits
  BY <1>31, CandidateExitsEffect
<1>32. CASE AcknowledgeRecovery
  BY <1>32, AcknowledgeRecoveryEffect
<1>33. CASE UNCHANGED vars
  BY <1>33 DEF vars, TypeOK
<1> QED
  BY <1>1, <1>2, <1>3, <1>4, <1>5, <1>6, <1>7, <1>8, <1>9, <1>10, <1>11, <1>12, <1>13,
     <1>14, <1>15, <1>16, <1>17, <1>18, <1>19, <1>20, <1>21, <1>22, <1>23, <1>24, <1>25,
     <1>26, <1>27, <1>28, <1>29, <1>30, <1>31, <1>32, <1>33
     DEF Next, Launch, Reconcile, Replace, Rollback, Environment

(* Every variable keeps its type.                                           *)
THEOREM TypeCorrect == Spec => []TypeOK
<1>1. ASSUME Init PROVE TypeOK
  <2>1. latest \in Releases /\ original \in Original /\ candidate \in Candidate
    BY <1>1, FirstAssumption DEF Init, NoCandidate, Original, Candidate, States, Healths
  <2>2. settings \in Settings
    BY <1>1 DEF Init, Settings
  <2>3. web \in Web
    BY <1>1, IdleFields DEF Init
  <2>4. worker \in Worker
    BY <1>1 DEF Init, Worker, WorkerSteps
  <2>5. job \in Job
    <3>1. job = [number |-> 0, status |-> "none", outcome |-> "", target |-> First,
                 automatic |-> FALSE]
      BY <1>1 DEF Init
    <3>2. 0 \in 0..MaxJobs
      BY BoundsAssumption
    <3> QED
      BY <3>1, <3>2, FirstAssumption, NewJob
  <2>6. faults \in 0..MaxFaults
    <3>1. faults = 0
      BY <1>1 DEF Init
    <3> QED
      BY <3>1, BoundsAssumption
  <2>7. database \in {"original", "candidate"} /\ snapshot \in {"none", "taken"} /\ mishaps \subseteq Mishaps
    BY <1>1 DEF Init
  <2> QED
    BY <2>1, <2>2, <2>3, <2>4, <2>5, <2>6, <2>7 DEF TypeOK
<1> QED
  BY <1>1, TypeStep, PTL DEF Spec


-----------------------------------------------------------------------------
(* On its way forward the worker finds things as it left them.              *)
LEMMA AheadStep ==
    ASSUME UpdateInv, [Next]_vars
    PROVE  Ahead'
<1>a. TypeOK
  BY DEF UpdateInv
<1>b. Ahead
  BY DEF UpdateInv
<1>c. Behind
  BY DEF UpdateInv
<1>d. Places
  BY DEF UpdateInv
<1>e. Results
  BY DEF UpdateInv
<1>f. Reconciling
  BY DEF UpdateInv
<1>g. original.state \in States /\ candidate.state \in States /\ worker.failed \in BOOLEAN
  BY <1>a DEF TypeOK, Original, Candidate, Worker
<1>. USE DEF Ahead, Behind, Places, Results, Reconciling, Untouched, IsOriginal, IsReplaced,
            Kept, Down, Before, Ending, Updating, WorkerRuns, InCandidate, Ended, SameStore,
            SameWeb, WebEnded, SameOriginal, SameCandidate, Failed, Admitted, States, Resolved, Committed
<1>1. ASSUME NEW enabled \in BOOLEAN, SetSettings(enabled) PROVE Ahead'
  BY <1>a, <1>b, <1>c, <1>d, <1>e, <1>f, <1>g, <1>1, SetSettingsEffect
<1>2. ASSUME NEW manual \in BOOLEAN, Check(manual) PROVE Ahead'
  BY <1>a, <1>b, <1>c, <1>d, <1>e, <1>f, <1>g, <1>2, CheckEffect
<1>3. ASSUME NEW release \in Releases, Publish(release) PROVE Ahead'
  BY <1>a, <1>b, <1>c, <1>d, <1>e, <1>f, <1>g, <1>3, PublishEffect
<1>4. ASSUME NEW health \in {"healthy", "unhealthy"}, Probe(health) PROVE Ahead'
  BY ZenonT(40), <1>a, <1>b, <1>c, <1>d, <1>e, <1>f, <1>g, <1>4, ProbeEffect
<1>5. CASE CheckNow
  BY <1>a, <1>b, <1>c, <1>d, <1>e, <1>f, <1>g, <1>5, CheckNowEffect
<1>6. CASE Pull
  BY ZenonT(40), <1>a, <1>b, <1>c, <1>d, <1>e, <1>f, <1>g, <1>6, PullEffect
<1>7. CASE LaunchWorker
  BY ZenonT(40), <1>a, <1>b, <1>c, <1>d, <1>e, <1>f, <1>g, <1>7, LaunchWorkerEffect
<1>8. CASE StartWorker
  BY <1>a, <1>b, <1>c, <1>d, <1>e, <1>f, <1>g, <1>8, StartWorkerEffect
<1>9. CASE FindAlone
  BY <1>a, <1>b, <1>c, <1>d, <1>e, <1>f, <1>g, <1>9, FindAloneEffect
<1>10. CASE Resolve
  BY <1>a, <1>b, <1>c, <1>d, <1>e, <1>f, <1>g, <1>10, ResolveEffect
<1>11. CASE Claim \/ Validate
  BY <1>a, <1>b, <1>c, <1>d, <1>e, <1>f, <1>g, <1>11, ClaimEffect
<1>12. CASE Progress("validated", "renaming")
  BY ZenonT(40), <1>a, <1>b, <1>c, <1>d, <1>e, <1>f, <1>g, <1>12, ProgressEffect DEF WorkerSteps
<1>13. CASE Progress("running", "waiting")
  BY ZenonT(40), <1>a, <1>b, <1>c, <1>d, <1>e, <1>f, <1>g, <1>13, ProgressEffect DEF WorkerSteps
<1>14. CASE RenameOriginal
  BY <1>a, <1>b, <1>c, <1>d, <1>e, <1>f, <1>g, <1>14, RenameOriginalEffect
<1>15. CASE StopOriginal
  BY <1>a, <1>b, <1>c, <1>d, <1>e, <1>f, <1>g, <1>15, StopOriginalEffect
<1>16. CASE BackupForSelfUpdate
  BY <1>a, <1>b, <1>c, <1>d, <1>e, <1>f, <1>g, <1>16, BackupForSelfUpdateEffect
<1>17. CASE CreateCandidate
  BY <1>a, <1>b, <1>c, <1>d, <1>e, <1>f, <1>g, <1>17, CreateCandidateEffect
<1>18. CASE StartCandidate
  BY <1>a, <1>b, <1>c, <1>d, <1>e, <1>f, <1>g, <1>18, StartCandidateEffect
<1>19. CASE WaitHealthy
  BY <1>a, <1>b, <1>c, <1>d, <1>e, <1>f, <1>g, <1>19, WaitHealthyEffect
<1>20. CASE Succeed
  BY <1>a, <1>b, <1>c, <1>d, <1>e, <1>f, <1>g, <1>20, SucceedEffect
<1>21. CASE RemoveOriginal
  BY <1>a, <1>b, <1>c, <1>d, <1>e, <1>f, <1>g, <1>21, RemoveOriginalEffect
<1>22. CASE RemoveCopy
  BY <1>a, <1>b, <1>c, <1>d, <1>e, <1>f, <1>g, <1>22, RemoveCopyEffect
<1>23. CASE RemoveCandidate
  BY <1>a, <1>b, <1>c, <1>d, <1>e, <1>f, <1>g, <1>23, RemoveCandidateEffect
<1>24. CASE RestoreDatabase
  BY <1>a, <1>b, <1>c, <1>d, <1>e, <1>f, <1>g, <1>24, RestoreDatabaseEffect
<1>25. CASE RestoreName
  BY <1>a, <1>b, <1>c, <1>d, <1>e, <1>f, <1>g, <1>25, RestoreNameEffect
<1>26. CASE Restart
  BY <1>a, <1>b, <1>c, <1>d, <1>e, <1>f, <1>g, <1>26, RestartEffect
<1>27. CASE WaitOriginal
  BY <1>a, <1>b, <1>c, <1>d, <1>e, <1>f, <1>g, <1>27, WaitOriginalEffect
<1>28. CASE RecordRollback
  BY <1>a, <1>b, <1>c, <1>d, <1>e, <1>f, <1>g, <1>28, RecordRollbackEffect
<1>29. CASE WorkerDies
  BY <1>a, <1>b, <1>c, <1>d, <1>e, <1>f, <1>g, <1>29, WorkerDiesEffect
<1>30. CASE WebRestarts
  BY ZenonT(40), <1>a, <1>b, <1>c, <1>d, <1>e, <1>f, <1>g, <1>30, WebRestartsEffect
<1>31. CASE CandidateExits
  BY <1>a, <1>b, <1>c, <1>d, <1>e, <1>f, <1>g, <1>31, CandidateExitsEffect
<1>32. CASE AcknowledgeRecovery
  BY <1>a, <1>b, <1>c, <1>d, <1>e, <1>f, <1>g, <1>32, AcknowledgeRecoveryEffect
<1>33. CASE UNCHANGED vars
  BY <1>a, <1>b, <1>c, <1>d, <1>e, <1>f, <1>g, <1>33 DEF vars
<1> QED
  BY <1>1, <1>2, <1>3, <1>4, <1>5, <1>6, <1>7, <1>8, <1>9, <1>10, <1>11, <1>12, <1>13,
     <1>14, <1>15, <1>16, <1>17, <1>18, <1>19, <1>20, <1>21, <1>22, <1>23, <1>24, <1>25,
     <1>26, <1>27, <1>28, <1>29, <1>30, <1>31, <1>32, <1>33
     DEF Next, Launch, Reconcile, Replace, Rollback, Environment

(* On its way back the worker has put back what it passed, or remembers.    *)
LEMMA BehindStep ==
    ASSUME UpdateInv, [Next]_vars
    PROVE  Behind'
<1>a. TypeOK
  BY DEF UpdateInv
<1>b. Ahead
  BY DEF UpdateInv
<1>c. Behind
  BY DEF UpdateInv
<1>d. Places
  BY DEF UpdateInv
<1>e. Results
  BY DEF UpdateInv
<1>f. Reconciling
  BY DEF UpdateInv
<1>g. original.state \in States /\ candidate.state \in States /\ worker.failed \in BOOLEAN
  BY <1>a DEF TypeOK, Original, Candidate, Worker
<1>. USE DEF Ahead, Behind, Places, Results, Reconciling, Untouched, IsOriginal, IsReplaced,
            Kept, Down, Before, Ending, Updating, WorkerRuns, InCandidate, Ended, SameStore,
            SameWeb, WebEnded, SameOriginal, SameCandidate, Failed, Admitted, States, Restored
<1>1. ASSUME NEW enabled \in BOOLEAN, SetSettings(enabled) PROVE Behind'
  BY ZenonT(40), <1>a, <1>b, <1>c, <1>d, <1>e, <1>f, <1>g, <1>1, SetSettingsEffect
<1>2. ASSUME NEW manual \in BOOLEAN, Check(manual) PROVE Behind'
  BY <1>a, <1>b, <1>c, <1>d, <1>e, <1>f, <1>g, <1>2, CheckEffect
<1>3. ASSUME NEW release \in Releases, Publish(release) PROVE Behind'
  BY <1>a, <1>b, <1>c, <1>d, <1>e, <1>f, <1>g, <1>3, PublishEffect
<1>4. ASSUME NEW health \in {"healthy", "unhealthy"}, Probe(health) PROVE Behind'
  BY ZenonT(40), <1>a, <1>b, <1>c, <1>d, <1>e, <1>f, <1>g, <1>4, ProbeEffect
<1>5. CASE CheckNow
  BY ZenonT(40), <1>a, <1>b, <1>c, <1>d, <1>e, <1>f, <1>g, <1>5, CheckNowEffect
<1>6. CASE Pull
  BY <1>a, <1>b, <1>c, <1>d, <1>e, <1>f, <1>g, <1>6, PullEffect
<1>7. CASE LaunchWorker
  BY <1>a, <1>b, <1>c, <1>d, <1>e, <1>f, <1>g, <1>7, LaunchWorkerEffect
<1>8. CASE StartWorker
  BY <1>a, <1>b, <1>c, <1>d, <1>e, <1>f, <1>g, <1>8, StartWorkerEffect
<1>9. CASE FindAlone
  BY <1>a, <1>b, <1>c, <1>d, <1>e, <1>f, <1>g, <1>9, FindAloneEffect
<1>10. CASE Resolve
  BY <1>a, <1>b, <1>c, <1>d, <1>e, <1>f, <1>g, <1>10, ResolveEffect
<1>11. CASE Claim \/ Validate
  BY <1>a, <1>b, <1>c, <1>d, <1>e, <1>f, <1>g, <1>11, ClaimEffect
<1>12. CASE Progress("validated", "renaming")
  BY ZenonT(40), <1>a, <1>b, <1>c, <1>d, <1>e, <1>f, <1>g, <1>12, ProgressEffect DEF WorkerSteps
<1>13. CASE Progress("running", "waiting")
  BY ZenonT(40), <1>a, <1>b, <1>c, <1>d, <1>e, <1>f, <1>g, <1>13, ProgressEffect DEF WorkerSteps
<1>14. CASE RenameOriginal
  BY <1>a, <1>b, <1>c, <1>d, <1>e, <1>f, <1>g, <1>14, RenameOriginalEffect
<1>15. CASE StopOriginal
  BY <1>a, <1>b, <1>c, <1>d, <1>e, <1>f, <1>g, <1>15, StopOriginalEffect
<1>16. CASE BackupForSelfUpdate
  BY <1>a, <1>b, <1>c, <1>d, <1>e, <1>f, <1>g, <1>16, BackupForSelfUpdateEffect
<1>17. CASE CreateCandidate
  BY <1>a, <1>b, <1>c, <1>d, <1>e, <1>f, <1>g, <1>17, CreateCandidateEffect
<1>18. CASE StartCandidate
  BY <1>a, <1>b, <1>c, <1>d, <1>e, <1>f, <1>g, <1>18, StartCandidateEffect
<1>19. CASE WaitHealthy
  BY <1>a, <1>b, <1>c, <1>d, <1>e, <1>f, <1>g, <1>19, WaitHealthyEffect
<1>20. CASE Succeed
  BY <1>a, <1>b, <1>c, <1>d, <1>e, <1>f, <1>g, <1>20, SucceedEffect
<1>21. CASE RemoveOriginal
  BY <1>a, <1>b, <1>c, <1>d, <1>e, <1>f, <1>g, <1>21, RemoveOriginalEffect
<1>22. CASE RemoveCopy
  BY <1>a, <1>b, <1>c, <1>d, <1>e, <1>f, <1>g, <1>22, RemoveCopyEffect
<1>23. CASE RemoveCandidate
  BY <1>a, <1>b, <1>c, <1>d, <1>e, <1>f, <1>g, <1>23, RemoveCandidateEffect
<1>24. CASE RestoreDatabase
  BY <1>a, <1>b, <1>c, <1>d, <1>e, <1>f, <1>g, <1>24, RestoreDatabaseEffect
<1>25. CASE RestoreName
  BY <1>a, <1>b, <1>c, <1>d, <1>e, <1>f, <1>g, <1>25, RestoreNameEffect
<1>26. CASE Restart
  BY <1>a, <1>b, <1>c, <1>d, <1>e, <1>f, <1>g, <1>26, RestartEffect
<1>27. CASE WaitOriginal
  BY <1>a, <1>b, <1>c, <1>d, <1>e, <1>f, <1>g, <1>27, WaitOriginalEffect
<1>28. CASE RecordRollback
  BY <1>a, <1>b, <1>c, <1>d, <1>e, <1>f, <1>g, <1>28, RecordRollbackEffect
<1>29. CASE WorkerDies
  BY <1>a, <1>b, <1>c, <1>d, <1>e, <1>f, <1>g, <1>29, WorkerDiesEffect
<1>30. CASE WebRestarts
  BY ZenonT(40), <1>a, <1>b, <1>c, <1>d, <1>e, <1>f, <1>g, <1>30, WebRestartsEffect
<1>31. CASE CandidateExits
  BY <1>a, <1>b, <1>c, <1>d, <1>e, <1>f, <1>g, <1>31, CandidateExitsEffect
<1>32. CASE AcknowledgeRecovery
  BY <1>a, <1>b, <1>c, <1>d, <1>e, <1>f, <1>g, <1>32, AcknowledgeRecoveryEffect
<1>33. CASE UNCHANGED vars
  BY <1>a, <1>b, <1>c, <1>d, <1>e, <1>f, <1>g, <1>33 DEF vars
<1> QED
  BY <1>1, <1>2, <1>3, <1>4, <1>5, <1>6, <1>7, <1>8, <1>9, <1>10, <1>11, <1>12, <1>13,
     <1>14, <1>15, <1>16, <1>17, <1>18, <1>19, <1>20, <1>21, <1>22, <1>23, <1>24, <1>25,
     <1>26, <1>27, <1>28, <1>29, <1>30, <1>31, <1>32, <1>33
     DEF Next, Launch, Reconcile, Replace, Rollback, Environment

(* One Yard runs at a time, and what can be put back is there.              *)
LEMMA PlacesStep ==
    ASSUME UpdateInv, [Next]_vars
    PROVE  Places'
<1>a. TypeOK
  BY DEF UpdateInv
<1>b. Ahead
  BY DEF UpdateInv
<1>c. Behind
  BY DEF UpdateInv
<1>d. Places
  BY DEF UpdateInv
<1>e. Results
  BY DEF UpdateInv
<1>f. Reconciling
  BY DEF UpdateInv
<1>g. original.state \in States /\ candidate.state \in States /\ worker.failed \in BOOLEAN
  BY <1>a DEF TypeOK, Original, Candidate, Worker
<1>. USE DEF Ahead, Behind, Places, Results, Reconciling, Untouched, IsOriginal, IsReplaced,
            Kept, Down, Before, Ending, Updating, WorkerRuns, InCandidate, Ended, SameStore,
            SameWeb, WebEnded, SameOriginal, SameCandidate, Failed, Admitted, States, Restored, Runs, OwnImage, Resolved, Unreported
<1>1. ASSUME NEW enabled \in BOOLEAN, SetSettings(enabled) PROVE Places'
  BY <1>a, <1>b, <1>c, <1>d, <1>e, <1>f, <1>g, <1>1, SetSettingsEffect
<1>2. ASSUME NEW manual \in BOOLEAN, Check(manual) PROVE Places'
  BY <1>a, <1>b, <1>c, <1>d, <1>e, <1>f, <1>g, <1>2, CheckEffect
<1>3. ASSUME NEW release \in Releases, Publish(release) PROVE Places'
  BY <1>a, <1>b, <1>c, <1>d, <1>e, <1>f, <1>g, <1>3, PublishEffect
<1>4. ASSUME NEW health \in {"healthy", "unhealthy"}, Probe(health) PROVE Places'
  BY <1>a, <1>b, <1>c, <1>d, <1>e, <1>f, <1>g, <1>4, ProbeEffect
<1>5. CASE CheckNow
  BY <1>a, <1>b, <1>c, <1>d, <1>e, <1>f, <1>g, <1>5, CheckNowEffect
<1>6. CASE Pull
  BY <1>a, <1>b, <1>c, <1>d, <1>e, <1>f, <1>g, <1>6, PullEffect
<1>7. CASE LaunchWorker
  BY <1>a, <1>b, <1>c, <1>d, <1>e, <1>f, <1>g, <1>7, LaunchWorkerEffect
<1>8. CASE StartWorker
  BY <1>a, <1>b, <1>c, <1>d, <1>e, <1>f, <1>g, <1>8, StartWorkerEffect
<1>9. CASE FindAlone
  BY <1>a, <1>b, <1>c, <1>d, <1>e, <1>f, <1>g, <1>9, FindAloneEffect
<1>10. CASE Resolve
  BY <1>a, <1>b, <1>c, <1>d, <1>e, <1>f, <1>g, <1>10, ResolveEffect
<1>11. CASE Claim \/ Validate
  BY <1>a, <1>b, <1>c, <1>d, <1>e, <1>f, <1>g, <1>11, ClaimEffect
<1>12. CASE Progress("validated", "renaming")
  BY ZenonT(40), <1>a, <1>b, <1>c, <1>d, <1>e, <1>f, <1>g, <1>12, ProgressEffect DEF WorkerSteps
<1>13. CASE Progress("running", "waiting")
  BY ZenonT(40), <1>a, <1>b, <1>c, <1>d, <1>e, <1>f, <1>g, <1>13, ProgressEffect DEF WorkerSteps
<1>14. CASE RenameOriginal
  BY <1>a, <1>b, <1>c, <1>d, <1>e, <1>f, <1>g, <1>14, RenameOriginalEffect
<1>15. CASE StopOriginal
  BY <1>a, <1>b, <1>c, <1>d, <1>e, <1>f, <1>g, <1>15, StopOriginalEffect
<1>16. CASE BackupForSelfUpdate
  BY <1>a, <1>b, <1>c, <1>d, <1>e, <1>f, <1>g, <1>16, BackupForSelfUpdateEffect
<1>17. CASE CreateCandidate
  BY <1>a, <1>b, <1>c, <1>d, <1>e, <1>f, <1>g, <1>17, CreateCandidateEffect
<1>18. CASE StartCandidate
  BY <1>a, <1>b, <1>c, <1>d, <1>e, <1>f, <1>g, <1>18, StartCandidateEffect
<1>19. CASE WaitHealthy
  BY <1>a, <1>b, <1>c, <1>d, <1>e, <1>f, <1>g, <1>19, WaitHealthyEffect
<1>20. CASE Succeed
  BY <1>a, <1>b, <1>c, <1>d, <1>e, <1>f, <1>g, <1>20, SucceedEffect
<1>21. CASE RemoveOriginal
  BY <1>a, <1>b, <1>c, <1>d, <1>e, <1>f, <1>g, <1>21, RemoveOriginalEffect
<1>22. CASE RemoveCopy
  BY <1>a, <1>b, <1>c, <1>d, <1>e, <1>f, <1>g, <1>22, RemoveCopyEffect
<1>23. CASE RemoveCandidate
  BY <1>a, <1>b, <1>c, <1>d, <1>e, <1>f, <1>g, <1>23, RemoveCandidateEffect
<1>24. CASE RestoreDatabase
  BY <1>a, <1>b, <1>c, <1>d, <1>e, <1>f, <1>g, <1>24, RestoreDatabaseEffect
<1>25. CASE RestoreName
  BY <1>a, <1>b, <1>c, <1>d, <1>e, <1>f, <1>g, <1>25, RestoreNameEffect
<1>26. CASE Restart
  BY <1>a, <1>b, <1>c, <1>d, <1>e, <1>f, <1>g, <1>26, RestartEffect
<1>27. CASE WaitOriginal
  BY <1>a, <1>b, <1>c, <1>d, <1>e, <1>f, <1>g, <1>27, WaitOriginalEffect
<1>28. CASE RecordRollback
  BY <1>a, <1>b, <1>c, <1>d, <1>e, <1>f, <1>g, <1>28, RecordRollbackEffect
<1>29. CASE WorkerDies
  BY <1>a, <1>b, <1>c, <1>d, <1>e, <1>f, <1>g, <1>29, WorkerDiesEffect
<1>30. CASE WebRestarts
  BY <1>a, <1>b, <1>c, <1>d, <1>e, <1>f, <1>g, <1>30, WebRestartsEffect
<1>31. CASE CandidateExits
  BY <1>a, <1>b, <1>c, <1>d, <1>e, <1>f, <1>g, <1>31, CandidateExitsEffect
<1>32. CASE AcknowledgeRecovery
  BY <1>a, <1>b, <1>c, <1>d, <1>e, <1>f, <1>g, <1>32, AcknowledgeRecoveryEffect
<1>33. CASE UNCHANGED vars
  BY <1>a, <1>b, <1>c, <1>d, <1>e, <1>f, <1>g, <1>33 DEF vars
<1> QED
  BY <1>1, <1>2, <1>3, <1>4, <1>5, <1>6, <1>7, <1>8, <1>9, <1>10, <1>11, <1>12, <1>13,
     <1>14, <1>15, <1>16, <1>17, <1>18, <1>19, <1>20, <1>21, <1>22, <1>23, <1>24, <1>25,
     <1>26, <1>27, <1>28, <1>29, <1>30, <1>31, <1>32, <1>33
     DEF Next, Launch, Reconcile, Replace, Rollback, Environment

(* A result on the row is true of the containers and the database.          *)
LEMMA ResultsStep ==
    ASSUME UpdateInv, [Next]_vars
    PROVE  Results'
<1>a. TypeOK
  BY DEF UpdateInv
<1>b. Ahead
  BY DEF UpdateInv
<1>c. Behind
  BY DEF UpdateInv
<1>d. Places
  BY DEF UpdateInv
<1>e. Results
  BY DEF UpdateInv
<1>f. Reconciling
  BY DEF UpdateInv
<1>g. original.state \in States /\ candidate.state \in States /\ worker.failed \in BOOLEAN
  BY <1>a DEF TypeOK, Original, Candidate, Worker
<1>. USE DEF Ahead, Behind, Places, Results, Reconciling, Untouched, IsOriginal, IsReplaced,
            Kept, Down, Before, Ending, Updating, WorkerRuns, InCandidate, Ended, SameStore,
            SameWeb, WebEnded, SameOriginal, SameCandidate, Failed, Admitted, States, Restored, Runs, OwnImage, Resolved, Committed
<1>1. ASSUME NEW enabled \in BOOLEAN, SetSettings(enabled) PROVE Results'
  BY <1>a, <1>b, <1>c, <1>d, <1>e, <1>f, <1>g, <1>1, SetSettingsEffect
<1>2. ASSUME NEW manual \in BOOLEAN, Check(manual) PROVE Results'
  BY ZenonT(40), <1>a, <1>b, <1>c, <1>d, <1>e, <1>f, <1>g, <1>2, CheckEffect
<1>3. ASSUME NEW release \in Releases, Publish(release) PROVE Results'
  BY <1>a, <1>b, <1>c, <1>d, <1>e, <1>f, <1>g, <1>3, PublishEffect
<1>4. ASSUME NEW health \in {"healthy", "unhealthy"}, Probe(health) PROVE Results'
  BY ZenonT(40), <1>a, <1>b, <1>c, <1>d, <1>e, <1>f, <1>g, <1>4, ProbeEffect
<1>5. CASE CheckNow
  BY ZenonT(40), <1>a, <1>b, <1>c, <1>d, <1>e, <1>f, <1>g, <1>5, CheckNowEffect
<1>6. CASE Pull
  BY ZenonT(40), <1>a, <1>b, <1>c, <1>d, <1>e, <1>f, <1>g, <1>6, PullEffect
<1>7. CASE LaunchWorker
  BY ZenonT(40), <1>a, <1>b, <1>c, <1>d, <1>e, <1>f, <1>g, <1>7, LaunchWorkerEffect
<1>8. CASE StartWorker
  BY ZenonT(40), <1>a, <1>b, <1>c, <1>d, <1>e, <1>f, <1>g, <1>8, StartWorkerEffect
<1>9. CASE FindAlone
  BY <1>a, <1>b, <1>c, <1>d, <1>e, <1>f, <1>g, <1>9, FindAloneEffect
<1>10. CASE Resolve
  BY ZenonT(40), <1>a, <1>b, <1>c, <1>d, <1>e, <1>f, <1>g, <1>10, ResolveEffect
<1>11. CASE Claim \/ Validate
  BY ZenonT(40), <1>a, <1>b, <1>c, <1>d, <1>e, <1>f, <1>g, <1>11, ClaimEffect
<1>12. CASE Progress("validated", "renaming")
  BY ZenonT(40), <1>a, <1>b, <1>c, <1>d, <1>e, <1>f, <1>g, <1>12, ProgressEffect DEF WorkerSteps
<1>13. CASE Progress("running", "waiting")
  BY ZenonT(40), <1>a, <1>b, <1>c, <1>d, <1>e, <1>f, <1>g, <1>13, ProgressEffect DEF WorkerSteps
<1>14. CASE RenameOriginal
  BY <1>a, <1>b, <1>c, <1>d, <1>e, <1>f, <1>g, <1>14, RenameOriginalEffect
<1>15. CASE StopOriginal
  BY <1>a, <1>b, <1>c, <1>d, <1>e, <1>f, <1>g, <1>15, StopOriginalEffect
<1>16. CASE BackupForSelfUpdate
  BY <1>a, <1>b, <1>c, <1>d, <1>e, <1>f, <1>g, <1>16, BackupForSelfUpdateEffect
<1>17. CASE CreateCandidate
  BY <1>a, <1>b, <1>c, <1>d, <1>e, <1>f, <1>g, <1>17, CreateCandidateEffect
<1>18. CASE StartCandidate
  BY <1>a, <1>b, <1>c, <1>d, <1>e, <1>f, <1>g, <1>18, StartCandidateEffect
<1>19. CASE WaitHealthy
  BY <1>a, <1>b, <1>c, <1>d, <1>e, <1>f, <1>g, <1>19, WaitHealthyEffect
<1>20. CASE Succeed
  BY ZenonT(40), <1>a, <1>b, <1>c, <1>d, <1>e, <1>f, <1>g, <1>20, SucceedEffect
<1>21. CASE RemoveOriginal
  BY <1>a, <1>b, <1>c, <1>d, <1>e, <1>f, <1>g, <1>21, RemoveOriginalEffect
<1>22. CASE RemoveCopy
  BY <1>a, <1>b, <1>c, <1>d, <1>e, <1>f, <1>g, <1>22, RemoveCopyEffect
<1>23. CASE RemoveCandidate
  BY <1>a, <1>b, <1>c, <1>d, <1>e, <1>f, <1>g, <1>23, RemoveCandidateEffect
<1>24. CASE RestoreDatabase
  BY <1>a, <1>b, <1>c, <1>d, <1>e, <1>f, <1>g, <1>24, RestoreDatabaseEffect
<1>25. CASE RestoreName
  BY <1>a, <1>b, <1>c, <1>d, <1>e, <1>f, <1>g, <1>25, RestoreNameEffect
<1>26. CASE Restart
  BY ZenonT(40), <1>a, <1>b, <1>c, <1>d, <1>e, <1>f, <1>g, <1>26, RestartEffect
<1>27. CASE WaitOriginal
  BY <1>a, <1>b, <1>c, <1>d, <1>e, <1>f, <1>g, <1>27, WaitOriginalEffect
<1>28. CASE RecordRollback
  <2>1. CASE worker.store # "open" /\ UNCHANGED <<job, settings>> /\ mishaps' = Unreported
    <3>1. worker.failed /\ mishaps' # {}
      BY <1>a, <1>c, <2>1, UnreportedFields
    <3>2. /\ worker.at = "recording" /\ worker'.at = "gone"
          /\ UNCHANGED <<original, candidate, database, snapshot>>
      BY <1>a, <1>28, RecordRollbackEffect
    <3> QED
      BY <1>e, <2>1, <3>1, <3>2
  <2>2. CASE worker.failed /\ Ended("failed", "recovery_required") /\ mishaps' = mishaps
    BY <1>a, <1>c, <1>e, <1>g, <1>28, <2>2, RecordRollbackEffect
  <2>3. CASE ~worker.failed /\ Ended("failed", "failed") /\ mishaps' = mishaps
    BY <1>a, <1>c, <1>e, <1>g, <1>28, <2>3, RecordRollbackEffect
  <2> QED
    BY <1>a, <1>28, <2>1, <2>2, <2>3, RecordRollbackEffect
<1>29. CASE WorkerDies
  <2>1. /\ UNCHANGED <<job, settings, original, candidate, database, snapshot>>
        /\ WorkerRuns /\ worker'.at = "gone"
    BY <1>a, <1>29, WorkerDiesEffect
  <2>2. /\ mishaps \subseteq mishaps'
        /\ worker.failed => mishaps' # {}
    BY <1>a, <1>29, WorkerDiesEffect, UnreportedFields
  <2>3. mishaps' = {} => mishaps = {} /\ ~worker.failed
    BY <2>2
  <2>4. ~worker.failed /\ Updating /\ original.state = "up" => IsOriginal
    <3>1. worker.at \in Before \cup {"backup", "creating", "starting", "running", "waiting",
                         "finishing", "removing_old", "removing_copy"} \/ worker.at = "rollback"
          \/ worker.at = "restoring" \/ worker.at \in Ending
      BY <1>a, <2>1 DEF TypeOK, Worker, WorkerSteps
    <3>2. CASE worker.at \in Ending
      BY <1>c, <3>2
    <3>3. CASE worker.at \in {"rollback", "restoring"}
      BY <1>c, <1>g, <3>3
    <3>4. CASE worker.at \notin Ending \cup {"rollback", "restoring"}
      BY <1>b, <1>e, <3>1, <3>4
    <3> QED
      BY <3>2, <3>3, <3>4
  <2> QED
    BY <1>e, <2>1, <2>3, <2>4
<1>30. CASE WebRestarts
  BY ZenonT(40), <1>a, <1>b, <1>c, <1>d, <1>e, <1>f, <1>g, <1>30, WebRestartsEffect
<1>31. CASE CandidateExits
  BY <1>a, <1>b, <1>c, <1>d, <1>e, <1>f, <1>g, <1>31, CandidateExitsEffect
<1>32. CASE AcknowledgeRecovery
  BY <1>a, <1>b, <1>c, <1>d, <1>e, <1>f, <1>g, <1>32, AcknowledgeRecoveryEffect
<1>33. CASE UNCHANGED vars
  BY <1>a, <1>b, <1>c, <1>d, <1>e, <1>f, <1>g, <1>33 DEF vars
<1> QED
  BY <1>1, <1>2, <1>3, <1>4, <1>5, <1>6, <1>7, <1>8, <1>9, <1>10, <1>11, <1>12, <1>13,
     <1>14, <1>15, <1>16, <1>17, <1>18, <1>19, <1>20, <1>21, <1>22, <1>23, <1>24, <1>25,
     <1>26, <1>27, <1>28, <1>29, <1>30, <1>31, <1>32, <1>33
     DEF Next, Launch, Reconcile, Replace, Rollback, Environment

(* Where the web process and a worker meet, nothing was touched yet.        *)
LEMMA ReconcilingStep ==
    ASSUME UpdateInv, [Next]_vars
    PROVE  Reconciling'
<1>a. TypeOK
  BY DEF UpdateInv
<1>b. Ahead
  BY DEF UpdateInv
<1>c. Behind
  BY DEF UpdateInv
<1>d. Places
  BY DEF UpdateInv
<1>e. Results
  BY DEF UpdateInv
<1>f. Reconciling
  BY DEF UpdateInv
<1>g. original.state \in States /\ candidate.state \in States /\ worker.failed \in BOOLEAN
  BY <1>a DEF TypeOK, Original, Candidate, Worker
<1>. USE DEF Ahead, Behind, Places, Results, Reconciling, Untouched, IsOriginal, IsReplaced,
            Kept, Down, Before, Ending, Updating, WorkerRuns, InCandidate, Ended, SameStore,
            SameWeb, WebEnded, SameOriginal, SameCandidate, Failed, Admitted, States, Restored, Resolved, Ticks
<1>1. ASSUME NEW enabled \in BOOLEAN, SetSettings(enabled) PROVE Reconciling'
  BY <1>a, <1>b, <1>c, <1>d, <1>e, <1>f, <1>g, <1>1, SetSettingsEffect
<1>2. ASSUME NEW manual \in BOOLEAN, Check(manual) PROVE Reconciling'
  BY <1>a, <1>b, <1>c, <1>d, <1>e, <1>f, <1>g, <1>2, CheckEffect
<1>3. ASSUME NEW release \in Releases, Publish(release) PROVE Reconciling'
  BY <1>a, <1>b, <1>c, <1>d, <1>e, <1>f, <1>g, <1>3, PublishEffect
<1>4. ASSUME NEW health \in {"healthy", "unhealthy"}, Probe(health) PROVE Reconciling'
  BY <1>a, <1>b, <1>c, <1>d, <1>e, <1>f, <1>g, <1>4, ProbeEffect
<1>5. CASE CheckNow
  BY <1>a, <1>b, <1>c, <1>d, <1>e, <1>f, <1>g, <1>5, CheckNowEffect
<1>6. CASE Pull
  BY <1>a, <1>b, <1>c, <1>d, <1>e, <1>f, <1>g, <1>6, PullEffect
<1>7. CASE LaunchWorker
  BY <1>a, <1>b, <1>c, <1>d, <1>e, <1>f, <1>g, <1>7, LaunchWorkerEffect
<1>8. CASE StartWorker
  BY <1>a, <1>b, <1>c, <1>d, <1>e, <1>f, <1>g, <1>8, StartWorkerEffect
<1>9. CASE FindAlone
  BY <1>a, <1>b, <1>c, <1>d, <1>e, <1>f, <1>g, <1>9, FindAloneEffect
<1>10. CASE Resolve
  BY <1>a, <1>b, <1>c, <1>d, <1>e, <1>f, <1>g, <1>10, ResolveEffect
<1>11. CASE Claim \/ Validate
  BY <1>a, <1>b, <1>c, <1>d, <1>e, <1>f, <1>g, <1>11, ClaimEffect
<1>12. CASE Progress("validated", "renaming")
  BY ZenonT(40), <1>a, <1>b, <1>c, <1>d, <1>e, <1>f, <1>g, <1>12, ProgressEffect DEF WorkerSteps
<1>13. CASE Progress("running", "waiting")
  BY <1>a, <1>b, <1>c, <1>d, <1>e, <1>f, <1>g, <1>13, ProgressEffect DEF WorkerSteps
<1>14. CASE RenameOriginal
  BY <1>a, <1>b, <1>c, <1>d, <1>e, <1>f, <1>g, <1>14, RenameOriginalEffect
<1>15. CASE StopOriginal
  BY <1>a, <1>b, <1>c, <1>d, <1>e, <1>f, <1>g, <1>15, StopOriginalEffect
<1>16. CASE BackupForSelfUpdate
  BY <1>a, <1>b, <1>c, <1>d, <1>e, <1>f, <1>g, <1>16, BackupForSelfUpdateEffect
<1>17. CASE CreateCandidate
  BY <1>a, <1>b, <1>c, <1>d, <1>e, <1>f, <1>g, <1>17, CreateCandidateEffect
<1>18. CASE StartCandidate
  BY <1>a, <1>b, <1>c, <1>d, <1>e, <1>f, <1>g, <1>18, StartCandidateEffect
<1>19. CASE WaitHealthy
  BY <1>a, <1>b, <1>c, <1>d, <1>e, <1>f, <1>g, <1>19, WaitHealthyEffect
<1>20. CASE Succeed
  BY <1>a, <1>b, <1>c, <1>d, <1>e, <1>f, <1>g, <1>20, SucceedEffect
<1>21. CASE RemoveOriginal
  BY <1>a, <1>b, <1>c, <1>d, <1>e, <1>f, <1>g, <1>21, RemoveOriginalEffect
<1>22. CASE RemoveCopy
  BY <1>a, <1>b, <1>c, <1>d, <1>e, <1>f, <1>g, <1>22, RemoveCopyEffect
<1>23. CASE RemoveCandidate
  BY <1>a, <1>b, <1>c, <1>d, <1>e, <1>f, <1>g, <1>23, RemoveCandidateEffect
<1>24. CASE RestoreDatabase
  BY <1>a, <1>b, <1>c, <1>d, <1>e, <1>f, <1>g, <1>24, RestoreDatabaseEffect
<1>25. CASE RestoreName
  BY <1>a, <1>b, <1>c, <1>d, <1>e, <1>f, <1>g, <1>25, RestoreNameEffect
<1>26. CASE Restart
  BY <1>a, <1>b, <1>c, <1>d, <1>e, <1>f, <1>g, <1>26, RestartEffect
<1>27. CASE WaitOriginal
  BY <1>a, <1>b, <1>c, <1>d, <1>e, <1>f, <1>g, <1>27, WaitOriginalEffect
<1>28. CASE RecordRollback
  BY <1>a, <1>b, <1>c, <1>d, <1>e, <1>f, <1>g, <1>28, RecordRollbackEffect
<1>29. CASE WorkerDies
  BY <1>a, <1>b, <1>c, <1>d, <1>e, <1>f, <1>g, <1>29, WorkerDiesEffect
<1>30. CASE WebRestarts
  BY <1>a, <1>b, <1>c, <1>d, <1>e, <1>f, <1>g, <1>30, WebRestartsEffect
<1>31. CASE CandidateExits
  BY <1>a, <1>b, <1>c, <1>d, <1>e, <1>f, <1>g, <1>31, CandidateExitsEffect
<1>32. CASE AcknowledgeRecovery
  BY <1>a, <1>b, <1>c, <1>d, <1>e, <1>f, <1>g, <1>32, AcknowledgeRecoveryEffect
<1>33. CASE UNCHANGED vars
  BY <1>a, <1>b, <1>c, <1>d, <1>e, <1>f, <1>g, <1>33 DEF vars
<1> QED
  BY <1>1, <1>2, <1>3, <1>4, <1>5, <1>6, <1>7, <1>8, <1>9, <1>10, <1>11, <1>12, <1>13,
     <1>14, <1>15, <1>16, <1>17, <1>18, <1>19, <1>20, <1>21, <1>22, <1>23, <1>24, <1>25,
     <1>26, <1>27, <1>28, <1>29, <1>30, <1>31, <1>32, <1>33
     DEF Next, Launch, Reconcile, Replace, Rollback, Environment

(* UpdateInv is inductive, for every number of updates and faults.          *)
LEMMA UpdateStep ==
    ASSUME UpdateInv, [Next]_vars
    PROVE  UpdateInv'
<1>1. TypeOK'
  BY TypeStep DEF UpdateInv
<1> QED
  BY <1>1, AheadStep, BehindStep, PlacesStep, ResultsStep, ReconcilingStep DEF UpdateInv

(* The place of the worker, the containers, the database, its copy and the  *)
(* result on the row go together at every moment of every update.           *)
THEOREM UpdateCorrect == Spec => []UpdateInv
<1>1. ASSUME Init, TypeOK PROVE UpdateInv
  <2>1. job.status = "none" /\ job.outcome = "" /\ worker.at = "none"
    BY <1>1 DEF Init
  <2>2. worker.failed = FALSE /\ worker.store = "open"
    BY <1>1 DEF Init
  <2>3. web.check = "idle" /\ web.alone = 0
    BY <1>1 DEF Init, Idle
  <2>4. original.state = "up" /\ candidate.state = "gone" /\ candidate.detached = FALSE
    BY <1>1 DEF Init, NoCandidate
  <2>5. database = "original" /\ snapshot = "none"
    BY <1>1 DEF Init
  <2>6. Ahead
    BY <2>1, <2>4, <2>5 DEF Ahead, Before, Untouched, IsOriginal
  <2>7. Behind
    BY <2>1, <2>2 DEF Behind, Ending
  <2>8. Places
    BY <2>1, <2>4, <2>5 DEF Places, InCandidate, Kept
  <2>9. Results
    BY <2>1, <2>4, <2>5 DEF Results, IsOriginal, Updating, WorkerRuns
  <2>10. Reconciling
    BY <2>3 DEF Reconciling
  <2> QED
    BY <1>1, <2>6, <2>7, <2>8, <2>9, <2>10 DEF UpdateInv
<1>2. UpdateInv /\ [Next]_vars => UpdateInv'
  BY UpdateStep
<1> QED
  BY <1>1, <1>2, TypeCorrect, PTL DEF Spec

-----------------------------------------------------------------------------
(* Which steps change the row.                                              *)
LEMMA RowSteps ==
    ASSUME [Next]_vars
    PROVE  \/ job' = job
           \/ \E manual \in BOOLEAN : Check(manual)
           \/ Pull \/ LaunchWorker \/ Resolve \/ Claim \/ Validate \/ Succeed
           \/ RecordRollback \/ AcknowledgeRecovery
  BY DEF Next, Launch, Reconcile, Replace, Rollback, Environment, vars, SetSettings, CheckNow,
         Publish, Probe, StartWorker, FindAlone, Progress, RenameOriginal, StopOriginal,
         BackupForSelfUpdate, CreateCandidate, StartCandidate, WaitHealthy, RemoveOriginal,
         RemoveCopy, RemoveCandidate, RestoreDatabase, RestoreName, Restart, WaitOriginal,
         WorkerDies, WebRestarts, CandidateExits

(* Which steps take the copy of the database, put it back or remove it.     *)
LEMMA CopySteps ==
    ASSUME [Next]_vars
    PROVE  \/ snapshot' = snapshot
           \/ \E manual \in BOOLEAN : Check(manual)
           \/ BackupForSelfUpdate \/ RemoveCopy \/ RestoreDatabase
  BY DEF Next, Launch, Reconcile, Replace, Rollback, Environment, vars, files, SetSettings,
         CheckNow, Publish, Probe, Pull, LaunchWorker, StartWorker, FindAlone, Resolve, Claim,
         Validate, Progress, RenameOriginal, StopOriginal, CreateCandidate, StartCandidate,
         WaitHealthy, Succeed, RemoveOriginal, RemoveCandidate, RestoreName, Restart,
         WaitOriginal, RecordRollback, WorkerDies, WebRestarts, CandidateExits,
         AcknowledgeRecovery

(* Which steps add to the mishaps, or begin anew.                           *)
LEMMA MishapSteps ==
    ASSUME [Next]_vars
    PROVE  \/ mishaps' = mishaps
           \/ \E manual \in BOOLEAN : Check(manual)
           \/ Resolve \/ RecordRollback \/ WorkerDies \/ WebRestarts
  BY DEF Next, Launch, Reconcile, Replace, Rollback, Environment, vars, incidents, SetSettings,
         CheckNow, Publish, Probe, Pull, LaunchWorker, StartWorker, FindAlone, Claim, Validate,
         Progress, RenameOriginal, StopOriginal, BackupForSelfUpdate, CreateCandidate,
         StartCandidate, WaitHealthy, Succeed, RemoveOriginal, RemoveCopy, RemoveCandidate,
         RestoreDatabase, RestoreName, Restart, WaitOriginal, CandidateExits,
         AcknowledgeRecovery

(* A release whose update failed is not tried again by a daily check,       *)
(* unless the fence was lifted (recordFailure, automaticDue), for every     *)
(* number of updates and faults.                                            *)
THEOREM FailureStaysFenced == Spec => FailureIsFenced
<1>. DEFINE Refused == /\ job'.number # job.number /\ job'.automatic
                       /\ job.status = "failed" /\ job'.target = job.target
                       => settings.lifted
<1>1. ASSUME UpdateInv, [Next]_vars PROVE Refused
  <2>1. TypeOK /\ (job.status = "failed" /\ ~settings.lifted => settings.failed = job.target)
    BY <1>1 DEF UpdateInv, Results
  <2>2. ASSUME NEW manual \in BOOLEAN, Check(manual) PROVE Refused
    BY <2>1, <2>2, CheckEffect DEF Admitted
  <2>3. CASE Pull
    BY <2>1, <2>3, PullEffect DEF Ended
  <2>4. CASE LaunchWorker
    BY <2>1, <2>4, LaunchWorkerEffect DEF Ended
  <2>5. CASE Resolve
    BY <2>1, <2>5, ResolveEffect DEF Resolved, Ended
  <2>6. CASE Claim \/ Validate
    BY <2>1, <2>6, ClaimEffect DEF Ended
  <2>7. CASE Succeed
    BY <2>1, <2>7, SucceedEffect DEF Ended
  <2>8. CASE RecordRollback
    BY <2>1, <2>8, RecordRollbackEffect DEF Ended
  <2>9. CASE AcknowledgeRecovery
    BY <2>1, <2>9, AcknowledgeRecoveryEffect
  <2> QED
    BY <1>1, <2>2, <2>3, <2>4, <2>5, <2>6, <2>7, <2>8, <2>9, RowSteps
<1>2. Spec => [][Refused]_vars
  BY <1>1, UpdateCorrect, PTL DEF Spec
<1> QED
  BY <1>2 DEF FailureIsFenced

(* Whatever a web process has found before, the job of a worker that has    *)
(* begun to change Yard ends by a step of that worker.                      *)
THEOREM JobIsTheWorkers == Spec => WorkerOwnsJob
<1>. DEFINE Owned == WorkerRuns /\ Updating /\ job'.status # "updating" =>
                         worker'.at # worker.at \/ Untouched
<1>1. ASSUME UpdateInv, [Next]_vars PROVE Owned
  <2>1. TypeOK /\ Ahead /\ Reconciling
    BY <1>1 DEF UpdateInv
  <2>2. ASSUME NEW manual \in BOOLEAN, Check(manual) PROVE Owned
    BY <2>1, <2>2, CheckEffect
  <2>3. CASE Pull
    BY <2>1, <2>3, PullEffect DEF Reconciling, WorkerRuns
  <2>4. CASE LaunchWorker
    BY <2>1, <2>4, LaunchWorkerEffect DEF Reconciling, WorkerRuns
  <2>5. CASE Resolve
    BY <2>1, <2>5, ResolveEffect DEF Reconciling
  <2>6. CASE Claim \/ Validate
    BY <2>1, <2>6, ClaimEffect DEF Ahead, Before
  <2>7. CASE Succeed
    BY <2>1, <2>7, SucceedEffect DEF Updating
  <2>8. CASE RecordRollback
    BY <2>1, <2>8, RecordRollbackEffect DEF Updating
  <2>9. CASE AcknowledgeRecovery
    BY <2>1, <2>9, AcknowledgeRecoveryEffect DEF Updating
  <2> QED
    BY <1>1, <2>2, <2>3, <2>4, <2>5, <2>6, <2>7, <2>8, <2>9, RowSteps DEF Updating
<1>2. Spec => [][Owned]_vars
  BY <1>1, UpdateCorrect, PTL DEF Spec
<1> QED
  BY <1>2 DEF WorkerOwnsJob

(* The database file is copied or put back with the original stopped, and   *)
(* under a candidate only with its failed removal remembered for a review.  *)
THEOREM DatabaseCopiedWhileStopped == Spec => CopyWhileStopped
<1>. DEFINE Stopped == snapshot' # snapshot /\ WorkerRuns /\ job.status # "succeeded" =>
                           /\ original.state # "up"
                           /\ candidate.state = "up" => worker.failed /\ worker'.failed
<1>1. ASSUME UpdateInv, [Next]_vars PROVE Stopped
  <2>1. TypeOK /\ Ahead /\ Behind /\ Results
    BY <1>1 DEF UpdateInv
  <2>2. ASSUME NEW manual \in BOOLEAN, Check(manual) PROVE Stopped
    BY <2>1, <2>2, CheckEffect
  <2>3. CASE BackupForSelfUpdate
    BY <2>1, <2>3, BackupForSelfUpdateEffect DEF Ahead, Down
  <2>4. CASE RemoveCopy
    BY <2>1, <2>4, RemoveCopyEffect DEF Ahead, Results
  <2>5. CASE RestoreDatabase
    <3>1. original.state # "up" /\ (candidate.state = "up" => worker.failed)
      BY <2>1, <2>5, RestoreDatabaseEffect DEF Behind, Down
    <3>2. worker.failed => worker'.failed
      BY <2>1, <2>5, RestoreDatabaseEffect DEF SameStore
    <3> QED
      BY <3>1, <3>2
  <2> QED
    BY <1>1, <2>2, <2>3, <2>4, <2>5, CopySteps
<1>2. Spec => [][Stopped]_vars
  BY <1>1, UpdateCorrect, PTL DEF Spec
<1> QED
  BY <1>2 DEF CopyWhileStopped

(* A result that a worker writes is true, whatever failed or raced with it. *)
THEOREM WorkersReportTheTruth == Spec => ReportsAreTrue
<1>. DEFINE Reported == WorkerRuns /\ worker'.at # worker.at /\ job'.outcome # job.outcome =>
                            /\ job'.outcome = "verified" => IsReplaced /\ Kept
                            /\ job'.outcome = "failed" => IsOriginal
<1>1. ASSUME UpdateInv, [Next]_vars PROVE Reported
  <2>1. TypeOK /\ Ahead /\ Behind /\ Results /\ Reconciling
    BY <1>1 DEF UpdateInv
  <2>2. ASSUME NEW manual \in BOOLEAN, Check(manual) PROVE Reported
    BY <2>1, <2>2, CheckEffect
  <2>3. CASE Pull
    BY <2>1, <2>3, PullEffect DEF Reconciling, WorkerRuns
  <2>4. CASE LaunchWorker
    BY <2>1, <2>4, LaunchWorkerEffect DEF Reconciling, WorkerRuns
  <2>5. CASE Resolve
    BY <2>1, <2>5, ResolveEffect
  <2>6. CASE Claim \/ Validate
    <3>1. IsOriginal
      BY <2>1, <2>6, ClaimEffect DEF Ahead, Before, Untouched
    <3>2. job' = job \/ job'.outcome = "failed"
      BY <2>1, <2>6, ClaimEffect DEF Ended
    <3> QED
      BY <3>1, <3>2
  <2>7. CASE Succeed
    <3>1. IsReplaced /\ Kept
      BY <2>1, <2>7, SucceedEffect DEF Ahead, Down, IsReplaced, Kept
    <3>2. job' = job \/ job'.outcome = "verified"
      BY <2>1, <2>7, SucceedEffect DEF Ended
    <3> QED
      BY <3>1, <3>2
  <2>8. CASE RecordRollback
    <3>1. IsOriginal \/ worker.failed
      BY <2>1, <2>8, RecordRollbackEffect DEF Behind
    <3>2. \/ job' = job
          \/ worker.failed /\ job'.outcome = "recovery_required"
          \/ ~worker.failed /\ job'.outcome = "failed"
      BY <2>1, <2>8, RecordRollbackEffect DEF Ended
    <3> QED
      BY <3>1, <3>2
  <2>9. CASE AcknowledgeRecovery
    BY <2>1, <2>9, AcknowledgeRecoveryEffect
  <2> QED
    BY <1>1, <2>2, <2>3, <2>4, <2>5, <2>6, <2>7, <2>8, <2>9, RowSteps
<1>2. Spec => [][Reported]_vars
  BY <1>1, UpdateCorrect, PTL DEF Spec
<1> QED
  BY <1>2 DEF ReportsAreTrue

-----------------------------------------------------------------------------
(* The promise, step by step.                                               *)
Mapped == [Promise!Next]_(Promise!vars)

(* What was removed after a success does not come back.                     *)
LEMMA NothingRegained ==
    ASSUME UpdateInv, UpdateInv', [Next]_vars, job.status = "succeeded", job' = job
    PROVE  Kept' => Kept
<1>1. /\ TypeOK /\ Results /\ Results'
      /\ worker.at \in {"removing_old", "removing_copy", "gone"}
      /\ database = "candidate" /\ database' = "candidate"
  BY DEF UpdateInv, Results, IsReplaced
<1>2. snapshot' = "taken" => snapshot = "taken"
  <2>1. ASSUME NEW manual \in BOOLEAN, Check(manual) PROVE snapshot' = snapshot
    BY <1>1, <2>1, CheckEffect DEF Admitted
  <2>2. CASE BackupForSelfUpdate
    BY <1>1, <2>2, BackupForSelfUpdateEffect
  <2>3. CASE RemoveCopy
    BY <1>1, <2>3, RemoveCopyEffect
  <2>4. CASE RestoreDatabase
    BY <1>1, <2>4, RestoreDatabaseEffect
  <2> QED
    BY <2>1, <2>2, <2>3, <2>4, CopySteps
<1>3. original.state = "gone" => original'.state = "gone"
  <2>1. ASSUME NEW manual \in BOOLEAN, Check(manual) PROVE original' = original
    BY <1>1, <2>1, CheckEffect DEF Admitted
  <2>2. ASSUME NEW health \in {"healthy", "unhealthy"}, Probe(health) PROVE SameOriginal
    BY <1>1, <2>2, ProbeEffect
  <2>3. CASE WebRestarts
    BY <1>1, <2>3, WebRestartsEffect DEF SameOriginal
  <2>4. CASE RemoveOriginal
    BY <1>1, <2>4, RemoveOriginalEffect
  <2>5. CASE RenameOriginal \/ StopOriginal \/ RestoreName \/ Restart
    BY <1>1, <2>5 DEF RenameOriginal, StopOriginal, RestoreName, Restart
  <2>6. \/ original' = original
        \/ \E manual \in BOOLEAN : Check(manual)
        \/ \E health \in {"healthy", "unhealthy"} : Probe(health)
        \/ WebRestarts \/ RemoveOriginal
        \/ RenameOriginal \/ StopOriginal \/ RestoreName \/ Restart
    BY DEF Next, Launch, Reconcile, Replace, Rollback, Environment, vars, yards, SetSettings,
           CheckNow, Publish, Pull, LaunchWorker, StartWorker, FindAlone, Resolve, Claim,
           Validate, Progress, BackupForSelfUpdate, CreateCandidate, StartCandidate,
           WaitHealthy, Succeed, RemoveCopy, RemoveCandidate, RestoreDatabase, WaitOriginal,
           RecordRollback, WorkerDies, CandidateExits, AcknowledgeRecovery
  <2> QED
    BY <2>1, <2>2, <2>3, <2>4, <2>5, <2>6 DEF SameOriginal
<1> QED
  BY <1>1, <1>2, <1>3 DEF Kept

(* A mishap is not forgotten as long as the job lasts.                      *)
LEMMA MishapsKept ==
    ASSUME TypeOK, [Next]_vars, mishaps' = {}
    PROVE  mishaps = {} \/ (Admitted /\ ~Updating)
<1>1. ASSUME NEW manual \in BOOLEAN, Check(manual) PROVE mishaps = {} \/ (Admitted /\ ~Updating)
  BY <1>1, CheckEffect
<1>2. CASE Resolve
  BY <1>2, ResolveEffect DEF Resolved
<1>3. CASE RecordRollback
  BY <1>3, RecordRollbackEffect, UnreportedFields
<1>4. CASE WorkerDies
  BY <1>4, WorkerDiesEffect, UnreportedFields
<1>5. CASE WebRestarts
  BY <1>5, WebRestartsEffect
<1> QED
  BY <1>1, <1>2, <1>3, <1>4, <1>5, MishapSteps

(* A step that leaves the result alone maps to Change, Release or a stutter.*)
LEMMA ResultKept ==
    ASSUME UpdateInv, UpdateInv', [Next]_vars, job' = job, mishaps = {}, mishaps' = {}
    PROVE  Mapped
<1>1. Results /\ Results' /\ Places /\ Places'
  BY DEF UpdateInv
<1>2. ResultOf' = ResultOf
  BY DEF ResultOf
<1>3. CASE job.status = "succeeded"
  <2>1. ResultOf = "replaced" /\ IsReplaced /\ IsReplaced' /\ ~IsOriginal /\ ~IsOriginal'
    BY <1>1, <1>3 DEF Results, ResultOf, IsOriginal, IsReplaced
  <2>2. Kept' => Kept
    BY <1>3, NothingRegained
  <2> QED
    BY <1>2, <2>1, <2>2 DEF Mapped, Promise!Next, Promise!Release, Promise!vars, Kept
<1>4. CASE job.status # "succeeded" /\ job.outcome = "failed"
  <2>1. IsOriginal /\ IsOriginal' /\ Kept /\ Kept'
    BY <1>1, <1>4 DEF Results, Places
  <2> QED
    BY <1>2, <2>1 DEF Mapped, Promise!vars, Kept
<1>5. CASE job.status # "succeeded" /\ job.outcome # "failed"
  <2>1. Kept /\ Kept' /\ ResultOf \in {"none", "review", "reviewed"}
    BY <1>1, <1>5 DEF Results, Places, ResultOf, UpdateInv, TypeOK, Job
  <2> QED
    BY <1>2, <2>1 DEF Mapped, Promise!Next, Promise!Change, Promise!Targets, Promise!vars, Kept
<1> QED
  BY <1>3, <1>4, <1>5

(* A review maps to Acknowledge.                                            *)
LEMMA ResultReviewed ==
    ASSUME UNCHANGED <<original, candidate, database, snapshot>>,
           ResultOf = "review", ResultOf' = "reviewed"
    PROVE  Mapped
<1>1. /\ IsOriginal' <=> IsOriginal
      /\ IsReplaced' <=> IsReplaced
  BY DEF IsOriginal, IsReplaced
<1>2. Kept' <=> Kept
  BY DEF Kept
<1> QED
  BY <1>1, <1>2 DEF Mapped, Promise!Next, Promise!Acknowledge, Promise!vars, Kept

(* The end of a job maps to Record or AskReview.                            *)
LEMMA ResultRecorded ==
    ASSUME UpdateInv, UpdateInv', Updating, mishaps' = {},
           UNCHANGED <<original, candidate, database, snapshot>>,
           NEW status, NEW outcome, Ended(status, outcome),
           \/ status = "succeeded" /\ outcome = "verified"
           \/ status = "failed" /\ outcome \in {"failed", "recovery_required"}
    PROVE  Mapped
<1>1. Results /\ Results'
  BY DEF UpdateInv
<1>2. job'.status = status /\ job'.outcome = outcome /\ ResultOf = "none"
  BY <1>1 DEF Results, Updating, Ended, ResultOf
<1>3. /\ IsOriginal' <=> IsOriginal
      /\ IsReplaced' <=> IsReplaced
      /\ Kept' <=> Kept
  BY DEF IsOriginal, IsReplaced, Kept
<1>4. CASE outcome = "verified" /\ status = "succeeded"
  <2>1. ResultOf' = "replaced" /\ IsReplaced' /\ ~IsOriginal'
    BY <1>1, <1>2, <1>4 DEF Results, ResultOf, IsOriginal, IsReplaced
  <2> QED
    BY <1>2, <1>3, <2>1 DEF Mapped, Promise!Next, Promise!Record, Promise!vars, Kept
<1>5. CASE outcome = "failed" /\ status = "failed"
  <2>1. ResultOf' = "kept_original" /\ IsOriginal'
    BY <1>1, <1>2, <1>5 DEF Results, ResultOf
  <2> QED
    BY <1>2, <1>3, <2>1 DEF Mapped, Promise!Next, Promise!Record, Promise!vars, Kept
<1>6. CASE outcome = "recovery_required" /\ status = "failed"
  <2>1. ResultOf' = "review"
    BY <1>2, <1>6 DEF ResultOf
  <2> QED
    BY <1>2, <1>3, <2>1 DEF Mapped, Promise!Next, Promise!AskReview, Promise!vars, Kept
<1> QED
  BY <1>4, <1>5, <1>6

(* A new job maps to Renew, or to a stutter if it is the first.             *)
LEMMA ResultRenewed ==
    ASSUME UpdateInv, ~Updating, Admitted
    PROVE  Mapped
<1>1. Results /\ Ahead
  BY DEF UpdateInv
<1>2. ResultOf' = "none" /\ IsOriginal' /\ Kept'
  BY DEF Admitted, ResultOf, IsOriginal, Kept
<1>3. CASE job.status = "none"
  <2>1. ResultOf = "none" /\ IsOriginal /\ Kept
    BY <1>1, <1>3 DEF Results, Ahead, Before, ResultOf, Untouched, IsOriginal, Kept
  <2> QED
    BY <1>2, <2>1 DEF Mapped, Promise!vars, Kept
<1>4. CASE job.status # "none"
  <2>1. ResultOf \in {"replaced", "kept_original", "reviewed"}
    BY <1>1, <1>4 DEF Results, ResultOf, Admitted, Updating, UpdateInv, TypeOK, Job
  <2> QED
    BY <1>2, <2>1 DEF Mapped, Promise!Next, Promise!Renew, Promise!vars, Kept
<1> QED
  BY <1>3, <1>4

(* Up to the first mishap every step maps to a step of Replacement or to a  *)
(* stutter.                                                                 *)
LEMMA PromiseStep ==
    ASSUME UpdateInv, UpdateInv', [Next]_vars, mishaps' = {}
    PROVE  Mapped
<1>1. TypeOK /\ Results /\ Reconciling
  BY DEF UpdateInv
<1>2. CASE Admitted /\ ~Updating
  BY <1>2, ResultRenewed
<1>3. CASE job' = job /\ mishaps = {}
  BY <1>3, ResultKept
<1>4. ASSUME UNCHANGED <<original, candidate, database, snapshot>>, job' # job,
             NEW status, NEW outcome, Ended(status, outcome),
             \/ status = "succeeded" /\ outcome = "verified"
             \/ status = "failed" /\ outcome \in {"failed", "recovery_required"}
      PROVE  Mapped
  <2>1. Updating
    BY <1>4 DEF Ended
  <2> QED
    BY <1>4, <2>1, ResultRecorded
<1>5. mishaps = {} \/ (Admitted /\ ~Updating)
  BY <1>1, MishapsKept
<1>6. Admitted /\ ~Updating => job' # job
  BY DEF Admitted, Updating
<1>7. ASSUME NEW manual \in BOOLEAN, Check(manual), job' # job PROVE Mapped
  BY <1>1, <1>2, <1>7, CheckEffect
<1>8. CASE job' # job /\ Pull
  BY <1>1, <1>4, <1>8, PullEffect
<1>9. CASE job' # job /\ LaunchWorker
  BY <1>1, <1>4, <1>9, LaunchWorkerEffect
<1>10. CASE job' # job /\ Resolve
  BY <1>1, <1>4, <1>10, ResolveEffect DEF Resolved
<1>11. CASE job' # job /\ (Claim \/ Validate)
  BY <1>1, <1>4, <1>11, ClaimEffect
<1>12. CASE job' # job /\ Succeed
  BY <1>1, <1>4, <1>12, SucceedEffect
<1>13. CASE job' # job /\ RecordRollback
  BY <1>1, <1>4, <1>13, RecordRollbackEffect
<1>14. CASE AcknowledgeRecovery
  <2>1. /\ job.outcome = "recovery_required" /\ job'.outcome = "recovery_acknowledged"
        /\ job'.status = job.status /\ job.status = "failed"
        /\ UNCHANGED <<original, candidate, database, snapshot>>
    BY <1>1, <1>14, AcknowledgeRecoveryEffect DEF Results, TypeOK, Job
  <2>2. ResultOf = "review" /\ ResultOf' = "reviewed"
    BY <2>1 DEF ResultOf
  <2> QED
    BY <2>1, <2>2, ResultReviewed
<1> QED
  BY <1>3, <1>5, <1>6, <1>7, <1>8, <1>9, <1>10, <1>11, <1>12, <1>13, <1>14, RowSteps

(* Up to the first mishap an update of Yard keeps the promise of            *)
(* Replacement: a result is only recorded when it is so, and what is needed *)
(* to go back is kept until then, for every number of updates and faults.   *)
THEOREM PromiseIsKept == Spec => PromiseKept
<1>1. ASSUME Init PROVE Promise!Init
  <2>1. job.status = "none" /\ job.outcome = ""
    BY <1>1 DEF Init
  <2>2. original.state = "up" /\ candidate.state = "gone" /\ database = "original"
    BY <1>1 DEF Init, NoCandidate
  <2>3. ResultOf = "none"
    BY <2>1 DEF ResultOf
  <2> QED
    BY <2>2, <2>3 DEF Promise!Init, IsOriginal, Kept
<1>2. UpdateInv /\ UpdateInv' /\ [Next]_vars =>
          (mishaps' = {} => [Promise!Next]_(Promise!vars))
  BY PromiseStep DEF Mapped
<1>3. Spec => []UpdateInv
  BY UpdateCorrect
<1>4. Spec => [][mishaps' = {} => [Promise!Next]_(Promise!vars)]_vars
  BY <1>2, <1>3, PTL DEF Spec
<1> QED
  BY <1>1, <1>4, PTL DEF Spec, PromiseKept
=============================================================================
