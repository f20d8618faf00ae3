------------------------------- MODULE SelfUpdate -------------------------------
(* Yard replaces itself without its host files (internal/selfupdate): the   *)
(* check of the web process, the worker that replaces the container of that *)
(* process and goes back when the replacement is not healthy, and the web   *)
(* process of either container that resolves a job whose worker is gone.    *)
EXTENDS Naturals

CONSTANTS
    Releases,       \* the images that the registry names latest at some time
    First,          \* the image that is installed at first
    MaxJobs,        \* how many updates are tried
    MaxFaults       \* crashes, and Engine calls of a rollback that fail

VARIABLES
    latest,     \* the release in the registry
    settings,   \* self_update_settings, and whether the fence was lifted since the last job
    job,        \* the latest self_update_jobs row and its operation_jobs row
    web,        \* the web process: its check, a request, a finding of the reconciler
    worker,     \* the worker: its step, the state of its store, its rollback
    original,   \* the container that ran when the job was created
    candidate,  \* its replacement
    database,   \* whose data the database file holds
    snapshot,   \* the copy for rollback
    mishaps,    \* history: what went wrong during this update that its row does not tell
    faults

vars == <<latest, settings, job, web, worker, original, candidate, database, snapshot, mishaps,
          faults>>
yards == <<original, candidate>>
files == <<database, snapshot>>
incidents == <<mishaps, faults>>

ASSUME FirstAssumption == First \in Releases
ASSUME BoundsAssumption == MaxJobs \in Nat /\ MaxFaults \in Nat

None == "none"
Healths == {"starting", "healthy", "unhealthy"}
WorkerSteps == {"none", "created", "started", "claimed", "validated", "renaming", "stopping",
                "backup", "creating", "starting", "running", "waiting", "finishing",
                "removing_old", "removing_copy", "rollback", "restoring", "naming",
                "restarting", "rewaiting", "recording", "gone"}

Settings == [automatic : BOOLEAN, failed : Releases \cup {None}, lifted : BOOLEAN]
Job == [number : 0..MaxJobs, status : {"none", "updating", "succeeded", "failed"},
        outcome : {"", "verified", "failed", "recovery_required", "recovery_acknowledged"},
        target : Releases, automatic : BOOLEAN]
Web == [check : {"idle", "pulling", "launching", "starting"}, asked : BOOLEAN,
        manual : BOOLEAN, alone : 0..MaxJobs]
Worker == [at : WorkerSteps, store : {"open", "closed", "nil"}, failed : BOOLEAN]
States == {"up", "down", "gone"}
Original == [image : Releases, state : States, own_name : BOOLEAN, health : Healths]
Candidate == [state : States, health : Healths, detached : BOOLEAN]
Mishaps == {"raced", "unreported", "retaken"}

TypeOK ==
    /\ latest \in Releases
    /\ settings \in Settings
    /\ job \in Job
    /\ web \in Web
    /\ worker \in Worker
    /\ original \in Original
    /\ candidate \in Candidate
    /\ database \in {"original", "candidate"}
    /\ snapshot \in {"none", "taken"}
    /\ mishaps \subseteq Mishaps
    /\ faults \in 0..MaxFaults

-----------------------------------------------------------------------------
Idle == [check |-> "idle", asked |-> FALSE, manual |-> FALSE, alone |-> 0]

NoCandidate == [state |-> "gone", health |-> "starting", detached |-> FALSE]

Init ==
    /\ latest = First
    /\ settings = [automatic |-> TRUE, failed |-> None, lifted |-> FALSE]
    /\ job = [number |-> 0, status |-> "none", outcome |-> "", target |-> First,
              automatic |-> FALSE]
    /\ web = Idle
    /\ worker = [at |-> "none", store |-> "open", failed |-> FALSE]
    /\ original = [image |-> First, state |-> "up", own_name |-> TRUE, health |-> "healthy"]
    /\ candidate = NoCandidate
    /\ database = "original" /\ snapshot = "none"
    /\ mishaps = {} /\ faults = 0

(* The container in which a web process runs on the database file, and its  *)
(* image.  A candidate under which the file was replaced goes on with the   *)
(* file that it had open: what it writes is lost.                           *)
InCandidate == candidate.state = "up" /\ ~candidate.detached
Runs == InCandidate \/ original.state = "up"
OwnImage == IF InCandidate THEN job.target ELSE original.image

Updating == job.status = "updating"
WorkerRuns == worker.at \notin {"none", "created", "gone"}
Goto(step) == worker' = [worker EXCEPT !.at = step]

\* Mutant: a failure leaves no fence.
FinishUnfenced(status, review) ==
    IF Updating
    THEN /\ job' = [job EXCEPT !.status = status,
                               !.outcome = IF review THEN "recovery_required"
                                           ELSE IF status = "failed" THEN "failed" ELSE "verified"]
         /\ settings' = [settings EXCEPT !.failed = None]
    ELSE UNCHANGED <<job, settings>>

(* FinishSelfUpdateOutcome: both rows, the fence and, without a review, the *)
(* locks, if the job is still active; otherwise nothing.                    *)
Finish(status, review) ==
    IF Updating
    THEN /\ job' = [job EXCEPT !.status = status,
                               !.outcome = IF review THEN "recovery_required"
                                           ELSE IF status = "failed" THEN "failed" ELSE "verified"]
         /\ settings' = [settings EXCEPT !.failed = IF status = "failed" THEN job.target ELSE None]
    ELSE UNCHANGED <<job, settings>>

-----------------------------------------------------------------------------
(* A release is published; automatic updates are switched (SetSettings,     *)
(* refused during an update; switching on lifts the fence).                 *)
Publish(release) ==
    /\ latest' = release /\ release # latest
    /\ UNCHANGED <<settings, job, web, worker, yards, files, incidents>>

SetSettings(enabled) ==
    /\ Runs /\ ~Updating
    /\ enabled # settings.automatic
    /\ settings' = [automatic |-> enabled, failed |-> IF enabled THEN None ELSE settings.failed,
                    lifted |-> settings.lifted \/ enabled]
    /\ UNCHANGED <<latest, job, web, worker, yards, files, incidents>>

CheckNow ==
    /\ Runs /\ ~Updating
    /\ web.check = "idle" /\ ~web.asked
    /\ web' = [web EXCEPT !.asked = TRUE]
    /\ UNCHANGED <<latest, settings, job, worker, yards, files, incidents>>

(* check, up to the job row (CreateSelfUpdateJob); it ends early when the   *)
(* release cannot be read or verified.  The running container is the        *)
(* original of the new job; the worker of the last job has ended (a bound). *)
Locked == job.outcome = "recovery_required"

Admit(manual) ==
    /\ latest # OwnImage
    /\ manual \/ (settings.automatic /\ settings.failed # latest)
    /\ ~Locked /\ job.number < MaxJobs
    /\ job' = [number |-> job.number + 1, status |-> "updating", outcome |-> "",
               target |-> latest, automatic |-> ~manual]
    /\ settings' = [settings EXCEPT !.lifted = FALSE]
    /\ web' = [web EXCEPT !.check = "pulling", !.manual = manual, !.asked = @ /\ ~manual]
    /\ worker' = [at |-> "none", store |-> "open", failed |-> FALSE]
    /\ original' = [image |-> OwnImage, state |-> "up", own_name |-> TRUE,
                    health |-> IF InCandidate THEN candidate.health ELSE original.health]
    /\ candidate' = NoCandidate
    /\ database' = "original" /\ snapshot' = "none"
    /\ mishaps' = {}
    /\ UNCHANGED <<latest, faults>>

Check(manual) ==
    /\ Runs /\ ~Updating /\ ~WorkerRuns
    /\ web.check = "idle"
    /\ manual => web.asked /\ web.alone = 0
    /\ \/ Admit(manual)
       \/ /\ settings' = IF latest = OwnImage
                         THEN [settings EXCEPT !.failed = None, !.lifted = TRUE] ELSE settings
          /\ web' = [web EXCEPT !.asked = @ /\ ~manual]
          /\ UNCHANGED <<latest, job, worker, yards, files, incidents>>

(* pullAndVerify and SetSelfUpdateTarget, launchWorker: a failure that is   *)
(* known ends the job, one whose effect is not leaves it to the reconciler. *)
FailJob == Finish("failed", FALSE) /\ web' = [web EXCEPT !.check = "idle"]

Pull ==
    /\ Runs /\ web.check = "pulling"
    /\ \/ /\ Updating /\ web' = [web EXCEPT !.check = "launching"]
          /\ UNCHANGED <<job, settings>>
       \/ FailJob
    /\ UNCHANGED <<latest, worker, yards, files, incidents>>

LaunchWorker ==
    /\ Runs /\ web.check = "launching"
    /\ \/ /\ Updating /\ Goto("created") /\ web' = [web EXCEPT !.check = "starting"]
          /\ UNCHANGED <<job, settings>>
       \/ /\ Updating /\ worker' \in {worker, [worker EXCEPT !.at = "created"]}
          /\ web' = [web EXCEPT !.check = "idle"]
          /\ UNCHANGED <<job, settings>>
       \/ FailJob /\ UNCHANGED worker
    /\ UNCHANGED <<latest, yards, files, incidents>>

(* The Engine starts the worker or not, and the answer may be lost.         *)
StartWorker ==
    /\ Runs /\ web.check = "starting"
    /\ worker' \in {worker, [worker EXCEPT !.at = "started"]}
    /\ web' = [web EXCEPT !.check = "idle"]
    /\ UNCHANGED <<latest, settings, job, yards, files, incidents>>

(* reconcileInterruptedJob, every minute in the loop that also runs manual  *)
(* checks, while daily checks run beside it and neither waits for the       *)
(* other: no container of the job's worker runs; later the own container is *)
(* inspected and the job resolved by its image and health.                  *)
Ticks == web.alone = 0 /\ (web.check = "idle" \/ ~web.manual)

\* Mutant: a running worker is not noticed.
FindAny ==
    /\ Runs /\ Updating
    /\ Ticks
    /\ web' = [web EXCEPT !.alone = job.number]
    /\ UNCHANGED <<latest, settings, job, worker, yards, files, incidents>>

FindAlone ==
    /\ Runs /\ Updating /\ ~WorkerRuns
    /\ Ticks
    /\ web' = [web EXCEPT !.alone = job.number]
    /\ UNCHANGED <<latest, settings, job, worker, yards, files, incidents>>

\* The worker has looked at the row for the last time before it stops Yard.
Committed == worker.at \in {"renaming", "stopping"}

ResolveAs(status, review) ==
    /\ Finish(status, review)
    /\ mishaps' = IF Updating /\ Committed THEN mishaps \cup {"raced"} ELSE mishaps

\* Mutant: an unhealthy candidate is recorded without a review.
ResolveWithoutReview ==
    /\ Runs /\ web.alone # 0
    /\ web' = [web EXCEPT !.alone = 0]
    /\ IF web.alone # job.number THEN UNCHANGED <<job, settings, mishaps>>
       ELSE IF OwnImage # job.target THEN ResolveAs("failed", FALSE)
       ELSE CASE candidate.health = "healthy" -> ResolveAs("succeeded", FALSE)
              [] candidate.health = "starting" -> UNCHANGED <<job, settings, mishaps>>
              [] OTHER -> ResolveAs("failed", FALSE)
    /\ UNCHANGED <<latest, worker, yards, files, faults>>

\* Mutant: an unhealthy candidate is waited for.
ResolveHealthy ==
    /\ Runs /\ web.alone # 0
    /\ web' = [web EXCEPT !.alone = 0]
    /\ IF web.alone # job.number THEN UNCHANGED <<job, settings, mishaps>>
       ELSE IF OwnImage # job.target THEN ResolveAs("failed", FALSE)
       ELSE IF candidate.health = "healthy" THEN ResolveAs("succeeded", FALSE)
       ELSE UNCHANGED <<job, settings, mishaps>>
    /\ UNCHANGED <<latest, worker, yards, files, faults>>

Resolve ==
    /\ Runs /\ web.alone # 0
    /\ web' = [web EXCEPT !.alone = 0]
    /\ IF web.alone # job.number THEN UNCHANGED <<job, settings, mishaps>>
       ELSE IF OwnImage # job.target THEN ResolveAs("failed", FALSE)
       ELSE CASE candidate.health = "healthy" -> ResolveAs("succeeded", FALSE)
              [] candidate.health = "starting" -> UNCHANGED <<job, settings, mishaps>>
              [] OTHER -> ResolveAs("failed", TRUE)
    /\ UNCHANGED <<latest, worker, yards, files, faults>>

-----------------------------------------------------------------------------
(* RunWorker: the job must be active and the original as it was.            *)
GoBack == Goto("rollback")

Claim ==
    /\ worker.at = "started"
    /\ \/ Updating /\ Goto("claimed") /\ UNCHANGED <<job, settings>>
       \/ Goto("gone") /\ UNCHANGED <<job, settings>>
       \/ Goto("gone") /\ Finish("failed", FALSE)
    /\ UNCHANGED <<latest, web, yards, files, incidents>>

Validate ==
    /\ worker.at = "claimed"
    /\ \/ original.state = "up" /\ Goto("validated") /\ UNCHANGED <<job, settings>>
       \/ Goto("gone") /\ Finish("failed", FALSE)
    /\ UNCHANGED <<latest, web, yards, files, incidents>>

\* Mutant: the worker goes on although its job has ended.
ProgressUnfenced(step, next) ==
    /\ worker.at = step
    /\ Goto(next) \/ GoBack
    /\ UNCHANGED <<latest, settings, job, web, yards, files, incidents>>

(* JobProgress needs the active job.                                        *)
Progress(step, next) ==
    /\ worker.at = step
    /\ (Updating /\ Goto(next)) \/ GoBack
    /\ UNCHANGED <<latest, settings, job, web, yards, files, incidents>>

(* Every call may fail with its effect or without.                          *)
RenameOriginal ==
    /\ worker.at = "renaming"
    /\ \/ original' = [original EXCEPT !.own_name = FALSE] /\ (Goto("stopping") \/ GoBack)
       \/ UNCHANGED original /\ GoBack
    /\ UNCHANGED <<latest, settings, job, web, candidate, files, incidents>>

StopOriginal ==
    /\ worker.at = "stopping"
    /\ \/ /\ original' = [original EXCEPT !.state = "down"]
          /\ web' = Idle
          /\ Goto("backup") \/ GoBack
       \/ UNCHANGED <<original, web>> /\ GoBack
    /\ UNCHANGED <<latest, settings, job, candidate, files, incidents>>

BackupForSelfUpdate ==
    /\ worker.at = "backup"
    /\ \/ snapshot' = "taken" /\ Goto("creating")
       \/ UNCHANGED snapshot /\ GoBack
    /\ UNCHANGED <<latest, settings, job, web, yards, database, incidents>>

CreateCandidate ==
    /\ worker.at = "creating"
    /\ \/ candidate' = [candidate EXCEPT !.state = "down"] /\ (Goto("starting") \/ GoBack)
       \/ UNCHANGED candidate /\ GoBack
    /\ UNCHANGED <<latest, settings, job, web, original, files, incidents>>

StartCandidate ==
    /\ worker.at = "starting"
    /\ \/ /\ candidate' = [candidate EXCEPT !.state = "up", !.health = "starting"]
          /\ database' = "candidate"
          /\ Goto("running") \/ GoBack
       \/ UNCHANGED <<candidate, database>> /\ GoBack
    /\ UNCHANGED <<latest, settings, job, web, original, snapshot, incidents>>

WaitHealthy ==
    /\ worker.at = "waiting"
    /\ (InCandidate /\ candidate.health = "healthy" /\ Goto("finishing")) \/ GoBack
    /\ UNCHANGED <<latest, settings, job, web, yards, files, incidents>>

Succeed ==
    /\ worker.at = "finishing"
    /\ \/ Updating /\ Finish("succeeded", FALSE) /\ Goto("removing_old")
       \/ GoBack /\ UNCHANGED <<job, settings>>
    /\ UNCHANGED <<latest, web, yards, files, incidents>>

(* Both removals may fail, which the row tells.                             *)
RemoveOriginal ==
    /\ worker.at = "removing_old"
    /\ original' \in {original, [original EXCEPT !.state = "gone"]}
    /\ Goto("removing_copy")
    /\ UNCHANGED <<latest, settings, job, web, candidate, files, incidents>>

RemoveCopy ==
    /\ worker.at = "removing_copy"
    /\ snapshot' \in {snapshot, "none"}
    /\ Goto("gone")
    /\ UNCHANGED <<latest, settings, job, web, yards, database, incidents>>

-----------------------------------------------------------------------------
(* rollback: each step is tried whatever became of those before it, and a   *)
(* failure is remembered.  A forced removal that fails may leave the        *)
(* candidate as it is, only end its process, or have removed it.            *)
Failing(next) ==
    /\ faults < MaxFaults /\ faults' = faults + 1
    /\ worker' = [worker EXCEPT !.failed = TRUE, !.at = next]

\* Mutant: a removal that fails is not remembered.
RemovalForgotten ==
    /\ worker.at = "rollback"
    /\ \E left \in {candidate.state, "down", "gone"} :
        candidate' = [candidate EXCEPT !.state = IF candidate.state = "gone" THEN "gone" ELSE left]
    /\ Goto(IF snapshot = "taken" THEN "restoring" ELSE "naming")
    /\ web' = IF InCandidate /\ candidate'.state # "up" THEN Idle ELSE web
    /\ UNCHANGED <<latest, settings, job, original, files, incidents>>

RemoveCandidate ==
    /\ worker.at = "rollback"
    /\ LET next == IF snapshot = "taken" THEN "restoring" ELSE "naming"
       IN \/ /\ candidate' = [candidate EXCEPT !.state = "gone"]
             /\ Goto(next) /\ UNCHANGED faults
          \/ /\ candidate.state # "gone"
             /\ \E left \in {candidate.state, "down", "gone"} :
                    candidate' = [candidate EXCEPT !.state = left]
             /\ Failing(next)
    /\ web' = IF InCandidate /\ candidate'.state # "up" THEN Idle ELSE web
    /\ UNCHANGED <<latest, settings, job, original, files, mishaps>>

(* The store is closed, the file replaced, also under a candidate that is   *)
(* still there, and opened again; a store that is not open takes no result. *)
PutBack ==
    /\ database' = "original" /\ snapshot' = "none"
    /\ candidate' = [candidate EXCEPT !.detached = candidate.state = "up"]
    /\ web' = IF InCandidate THEN Idle ELSE web

RestoreDatabase ==
    /\ worker.at = "restoring"
    /\ \/ PutBack /\ Goto("naming") /\ UNCHANGED faults
       \/ /\ PutBack
          /\ faults < MaxFaults /\ faults' = faults + 1
          /\ worker' = [at |-> "naming", store |-> "nil", failed |-> TRUE]
       \/ /\ faults < MaxFaults /\ faults' = faults + 1
          /\ worker' = [at |-> "naming", store |-> "closed", failed |-> TRUE]
          /\ UNCHANGED <<files, candidate, web>>
    /\ UNCHANGED <<latest, settings, job, original, mishaps>>

(* Without an inspection of the original neither its name nor its state is  *)
(* restored; a candidate that is still there has that name.                 *)
RestoreName ==
    /\ worker.at = "naming"
    /\ \/ /\ candidate.state = "gone" /\ original' = [original EXCEPT !.own_name = TRUE]
          /\ Goto("restarting") /\ UNCHANGED faults
       \/ /\ candidate.state # "gone" /\ UNCHANGED <<original, faults>>
          /\ worker' = [worker EXCEPT !.failed = TRUE, !.at = "restarting"]
       \/ Failing("restarting") /\ UNCHANGED original
       \/ Failing("recording") /\ UNCHANGED original
    /\ UNCHANGED <<latest, settings, job, web, candidate, files, mishaps>>

(* Both Yards publish the same ports of the host (compose.yaml): one does   *)
(* not start while the other runs.                                          *)
Restart ==
    /\ worker.at = "restarting"
    /\ \/ original.state = "up" /\ Goto("recording") /\ UNCHANGED <<original, faults>>
       \/ /\ original.state = "down" /\ candidate.state # "up"
          /\ original' = [original EXCEPT !.state = "up", !.health = "starting"]
          /\ Goto("rewaiting") /\ UNCHANGED faults
       \/ /\ original.state = "down" /\ candidate.state # "up"
          /\ original' \in {original, [original EXCEPT !.state = "up", !.health = "starting"]}
          /\ Failing("recording")
       \/ /\ original.state = "down" /\ candidate.state = "up"
          /\ worker' = [worker EXCEPT !.failed = TRUE, !.at = "recording"]
          /\ UNCHANGED <<original, faults>>
    /\ UNCHANGED <<latest, settings, job, web, candidate, files, mishaps>>

WaitOriginal ==
    /\ worker.at = "rewaiting"
    /\ worker' = [worker EXCEPT !.at = "recording", !.failed = @ \/ original.health # "healthy"]
    /\ UNCHANGED <<latest, settings, job, web, yards, files, incidents>>

\* A worker that ends with a failure that it has not recorded.
Unreported == IF worker.failed THEN mishaps \cup {"unreported"} ELSE mishaps

\* Mutant: what failed in the rollback is forgotten.
RecordRestored ==
    /\ worker.at = "recording"
    /\ IF worker.store = "open" THEN Finish("failed", FALSE) /\ UNCHANGED mishaps
       ELSE UNCHANGED <<job, settings>> /\ mishaps' = Unreported
    /\ Goto("gone")
    /\ UNCHANGED <<latest, web, yards, files, faults>>

RecordRollback ==
    /\ worker.at = "recording"
    /\ IF worker.store = "open" THEN Finish("failed", worker.failed) /\ UNCHANGED mishaps
       ELSE UNCHANGED <<job, settings>> /\ mishaps' = Unreported
    /\ Goto("gone")
    /\ UNCHANGED <<latest, web, yards, files, faults>>

-----------------------------------------------------------------------------
(* A worker that ends is removed by the Engine and never runs again.        *)
WorkerDies ==
    /\ WorkerRuns
    /\ faults < MaxFaults /\ faults' = faults + 1
    /\ Goto("gone")
    /\ mishaps' = Unreported
    /\ UNCHANGED <<latest, settings, job, web, yards, files>>

(* A web process that ends is restarted by the Engine; a candidate that     *)
(* could not be removed then opens the file that was put back.              *)
WebRestarts ==
    /\ faults < MaxFaults /\ faults' = faults + 1
    /\ web' = Idle
    /\ \/ /\ InCandidate
          /\ candidate' = [candidate EXCEPT !.health = "starting"]
          /\ UNCHANGED <<original, database, mishaps>>
       \/ /\ original.state = "up"
          /\ original' = [original EXCEPT !.health = "starting"]
          /\ UNCHANGED <<candidate, database, mishaps>>
       \/ /\ candidate.detached
          /\ candidate' = [candidate EXCEPT !.health = "starting", !.detached = FALSE]
          /\ database' = "candidate"
          /\ mishaps' = mishaps \cup {"retaken"}
          /\ UNCHANGED original
    /\ UNCHANGED <<latest, settings, job, worker, snapshot>>

CandidateExits ==
    /\ candidate.state = "up"
    /\ faults < MaxFaults /\ faults' = faults + 1
    /\ candidate' = [candidate EXCEPT !.state = "down", !.detached = FALSE]
    /\ web' = Idle
    /\ UNCHANGED <<latest, settings, job, worker, original, files, mishaps>>

(* The healthcheck of whichever container runs.                             *)
Probe(health) ==
    \/ /\ InCandidate /\ candidate.health # health
       /\ candidate' = [candidate EXCEPT !.health = health]
       /\ UNCHANGED <<latest, settings, job, web, worker, original, files, incidents>>
    \/ /\ original.state = "up" /\ original.health # health
       /\ original' = [original EXCEPT !.health = health]
       /\ UNCHANGED <<latest, settings, job, web, worker, candidate, files, incidents>>

AcknowledgeRecovery ==
    /\ Runs /\ Locked /\ ~WorkerRuns
    /\ job' = [job EXCEPT !.outcome = "recovery_acknowledged"]
    /\ UNCHANGED <<latest, settings, web, worker, yards, files, incidents>>

Launch == Pull \/ LaunchWorker \/ StartWorker
Reconcile == FindAlone \/ Resolve
Replace ==
    \/ Claim \/ Validate \/ Progress("validated", "renaming") \/ RenameOriginal
    \/ StopOriginal \/ BackupForSelfUpdate \/ CreateCandidate \/ StartCandidate
    \/ Progress("running", "waiting") \/ WaitHealthy \/ Succeed
    \/ RemoveOriginal \/ RemoveCopy
Rollback ==
    \/ RemoveCandidate \/ RestoreDatabase \/ RestoreName \/ Restart \/ WaitOriginal
    \/ RecordRollback
Environment ==
    \/ \E release \in Releases : Publish(release)
    \/ WorkerDies \/ WebRestarts \/ CandidateExits \/ AcknowledgeRecovery
    \/ \E health \in {"healthy", "unhealthy"} : Probe(health)

Next ==
    \/ \E enabled \in BOOLEAN : SetSettings(enabled)
    \/ CheckNow \/ \E manual \in BOOLEAN : Check(manual)
    \/ Launch \/ Reconcile \/ Replace \/ Rollback \/ Environment

Spec == Init /\ [][Next]_vars

(* The web process goes on and looks every minute, the worker goes on, and  *)
(* a healthcheck comes to a result.                                         *)
Starting == (InCandidate /\ candidate.health = "starting")
            \/ (original.state = "up" /\ original.health = "starting")
FairSpec ==
    /\ Spec
    /\ WF_vars(Launch) /\ WF_vars(Reconcile) /\ WF_vars(Replace \/ Rollback)
    /\ WF_vars(Starting /\ \E health \in {"healthy", "unhealthy"} : Probe(health))

-----------------------------------------------------------------------------
(* reconcileInterruptedJob: "A live worker owns the job; the web service    *)
(* only resolves it after that worker is gone."                             *)
LiveWorkerOwnsJob ==
    [][web.alone # 0 /\ web'.alone = 0 /\ job'.status # job.status => ~WorkerRuns]_vars

IsOriginal == original.state = "up" /\ candidate.state = "gone" /\ database = "original"
IsReplaced == candidate.state # "gone" /\ original.state # "up" /\ database = "candidate"
Kept == original.state # "gone" /\ (database = "original" \/ snapshot = "taken")

(* What is true of it: whatever a web process found before, and whichever   *)
(* of the two runs it, from the stop of Yard to the end of the rollback the *)
(* job ends by a step of its worker, as long as that lives.                 *)
Untouched == IsOriginal /\ snapshot = "none"
WorkerOwnsJob ==
    [][WorkerRuns /\ Updating /\ job'.status # "updating" =>
           worker'.at # worker.at \/ Untouched]_vars

(* The database file is copied and put back only while no Yard runs on it:  *)
(* the original never does, and a candidate only when its removal failed,   *)
(* which the worker remembers until it asks for a review.                   *)
CopyWhileStopped ==
    [][snapshot' # snapshot /\ WorkerRuns /\ job.status # "succeeded" =>
           /\ original.state # "up"
           /\ candidate.state = "up" => worker.failed /\ worker'.failed]_vars

(* A release whose update failed, whoever recorded it, is not tried again   *)
(* by a daily check, unless the fence was lifted: by switching updates on,  *)
(* or by a check that found Yard up to date.                                *)
FailureIsFenced ==
    [][/\ job'.number # job.number /\ job'.automatic
       /\ job.status = "failed" /\ job'.target = job.target
       => settings.lifted]_vars

ResultOf ==
    CASE job.status \in {"none", "updating"} -> "none"
      [] job.outcome = "verified" -> "replaced"
      [] job.outcome = "recovery_required" -> "review"
      [] job.outcome = "recovery_acknowledged" -> "reviewed"
      [] OTHER -> "kept_original"

Promise == INSTANCE Replacement WITH
    target <- IF IsOriginal THEN "original" ELSE IF IsReplaced THEN "replaced" ELSE "between",
    kept <- Kept,
    result <- ResultOf

(* An update of Yard keeps the promise of every replacement: success is     *)
(* recorded with the new Yard in place, failure without review only with    *)
(* the original one running on its own data, and both the container and the *)
(* copy of the database are kept until then.  It does so up to the first of *)
(* three mishaps: the minute's reconciliation ends a job whose worker has   *)
(* just looked at it for the last time ("raced"); a worker whose rollback   *)
(* met a failure ends without recording it ("unreported"); a candidate that *)
(* could not be removed restarts on the file put back ("retaken").          *)
PromiseKept ==
    Promise!Init /\ [][mishaps' = {} => [Promise!Next]_(Promise!vars)]_vars

(* What a worker reports itself is true whatever happened: a healthy        *)
(* candidate on its data, or the original running on its own.               *)
ReportsAreTrue ==
    [][WorkerRuns /\ worker'.at # worker.at /\ job'.outcome # job.outcome =>
           /\ job'.outcome = "verified" => IsReplaced /\ Kept
           /\ job'.outcome = "failed" => IsOriginal]_vars

(* What holds between any two steps: the place of the worker tells which of *)
(* the containers, the database and its copy are there, unless a failure is *)
(* remembered or a mishap happened.                                         *)
Down == original.state = "down"
Before == {"none", "created", "started", "claimed", "validated", "renaming", "stopping"}
Ending == {"naming", "restarting", "rewaiting", "recording"}
Ahead ==
    /\ worker.at \in Before => Untouched
    /\ worker.at = "backup" =>
           Down /\ candidate.state = "gone" /\ database = "original" /\ snapshot = "none"
    /\ worker.at \in {"creating", "starting"} =>
           /\ Down /\ database = "original" /\ snapshot = "taken"
           /\ candidate.state = IF worker.at = "creating" THEN "gone" ELSE "down"
    /\ worker.at \in {"running", "waiting", "finishing"} =>
           Down /\ candidate.state # "gone" /\ database = "candidate" /\ snapshot = "taken"
    /\ worker.at \in {"removing_old", "removing_copy"} => job.outcome = "verified"

Behind ==
    /\ worker.at = "rollback" =>
           \/ Untouched
           \/ Down /\ snapshot = "taken"
           \/ Down /\ snapshot = "none" /\ candidate.state = "gone" /\ database = "original"
    /\ worker.at = "restoring" =>
           /\ Down /\ snapshot = "taken" /\ worker.store = "open"
           /\ candidate.state # "gone" => worker.failed
    /\ worker.at \in Ending =>
           /\ original.state # "gone"
           /\ candidate.state # "gone" \/ database # "original" => worker.failed
    /\ worker.at = "rewaiting" => original.state = "up"
    /\ worker.at = "recording" => IsOriginal \/ worker.failed
    /\ worker.failed => worker.at \in Ending \cup {"restoring", "gone"}
    /\ worker.store # "open" => worker.failed

Places ==
    /\ original.state = "up" => candidate.state # "up"
    /\ InCandidate => database = "candidate"
    /\ candidate.detached =>
           candidate.state = "up" /\ worker.at \in Ending \cup {"gone"}
    /\ job.status # "succeeded" /\ "retaken" \notin mishaps => Kept
    /\ job.status # "succeeded" => original.state # "gone"

Results ==
    /\ job.status \in {"none", "updating"} <=> job.outcome = ""
    /\ job.status = "succeeded" <=> job.outcome = "verified"
    /\ IF job.status = "none" THEN worker.at = "none" ELSE job.target # original.image
    /\ job.status = "succeeded" =>
           IsReplaced /\ worker.at \in {"removing_old", "removing_copy", "gone"}
    /\ job.status = "failed" /\ ~settings.lifted => settings.failed = job.target
    /\ mishaps = {} =>
           /\ job.outcome = "failed" =>
                  IsOriginal /\ (WorkerRuns => Untouched /\ ~Committed)
           /\ Updating /\ worker.at = "gone" /\ original.state = "up" => IsOriginal
    /\ job.outcome \in {"recovery_required", "recovery_acknowledged"} => worker.at = "gone"

Reconciling ==
    /\ web.alone # 0 /\ WorkerRuns => Untouched
    /\ web.check # "idle" => worker.at \in {"none", "created"} /\ job.status # "none"

UpdateInv == TypeOK /\ Ahead /\ Behind /\ Places /\ Results /\ Reconciling

(* An update comes to a result, unless its worker was lost between stopping *)
(* one Yard and starting another: then nobody is left to record one.        *)
UpdateSettles == Updating ~> (~Updating \/ (~Runs /\ worker.at = "gone"))
=============================================================================
