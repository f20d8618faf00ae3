--------------------------- MODULE OperationJobs ---------------------------
(***************************************************************************)
(* Durable operation jobs: the rows and reservations of internal/store/    *)
(* jobs.go, the web goroutine that submits a job, the independent worker   *)
(* container that carries it out, the observer of internal/jobs, the host  *)
(* review that acknowledges an uncertain result, and web stops and starts. *)
(*                                                                         *)
(* Every SQLite transaction is one step; every Docker call is one step.    *)
(* The ownership token is not modelled: each job has its own, drawn at     *)
(* NewJob, and every caller in src/ presents the token of the job it works *)
(* on, so only the status guard of the CAS can fail.  Self-update jobs are *)
(* left to their own protocol, as the observer leaves them.                *)
(***************************************************************************)
CONSTANTS
    Jobs,               \* operation ids; an id is used once
    Resources,          \* reservation keys: compose:NAME, container:ID, yard:self
    Observers,          \* callers of Observer.Reconcile: its own loop, the scheduler
    NoJob,              \* no holder
    Scopes,             \* the resource sets an operation may reserve
    Routes,             \* Routes[j]: the kinds of operation id j may be used for
    LaunchWithinGrace   \* TRUE: a launch never takes 30 s from SetJobWorker on

RouteNames == {"direct", "restart", "managed", "recreate"}

ASSUME ConstantsAssumption ==
    /\ NoJob \notin Jobs
    /\ Scopes \subseteq (SUBSET Resources) \ {{}}
    /\ Routes \in [Jobs -> SUBSET RouteNames]
    /\ LaunchWithinGrace \in BOOLEAN

VARIABLES
    row,        \* operation_jobs
    lock,       \* operation_locks
    sub,        \* the web goroutine that submits and launches the job
    proc,       \* the worker container and the process in it
    helper,     \* a child Compose helper container of the job is running
    unlabelled, \* a Compose helper of the job's request is running; no label names the job
    target,     \* what the operation has done to its Docker target so far
    retained,   \* rollback images or renamed originals of the job exist
    young,      \* created less than 30 s ago (tracked until the claim)
    obs,        \* the observers
    review,     \* Observer.Acknowledge in progress for the job
    web         \* the web process is up

vars == <<row, lock, sub, proc, helper, unlabelled, target, retained, young, obs, review, web>>

----------------------------------------------------------------------------
(* Rows.                                                                   *)

Stages == {"queued", "executing", "launching", "preparing", "replacing",
           "rolling_back", "verifying", "committing", "completed", "awaiting_recovery"}
\* "unchanged" stands for "skipped" and "cached" too, "failed" for "rolled_back".
Outcomes == {"", "verified", "reconciled", "unchanged", "failed", "recovery_required",
             "recovery_acknowledged"}

Row == [status : {"none", "running", "succeeded", "failed"}, stage : Stages,
        outcome : Outcomes, route : RouteNames, res : SUBSET Resources,
        worker : {"", "name", "id"}, started : BOOLEAN, cleaned : BOOLEAN,
        cleanupError : BOOLEAN]

\* NewJob and the INSERT of insertJob.
NewJob(route, R) ==
    [status |-> "running", stage |-> "queued", outcome |-> "", route |-> route,
     res |-> R, worker |-> "", started |-> FALSE, cleaned |-> FALSE,
     cleanupError |-> FALSE]

NoRow == [NewJob("direct", {}) EXCEPT !.status = "none"]

Running(j)  == row[j].status = "running"
Terminal(j) == row[j].status \in {"succeeded", "failed"}
Uncertain(j) == row[j].outcome = "recovery_required"
Active(j)   == Running(j) \/ Uncertain(j)
Engine(j)   == row[j].route # "managed"

----------------------------------------------------------------------------
(* Processes.                                                              *)

SubStates == {"idle", "admitted", "docker", "register", "create", "confirm",
              "start", "plain", "uncertain", "done", "lost"}
Launching == {"register", "create", "confirm", "start"}

\* A claimed worker process, from ClaimJob until its terminal write.
Claimed == {"work", "mutate", "verify", "commit", "fail"}
Live    == {"boot", "claim", "exiting"} \cup Claimed
ProcStates == {"absent", "created", "exited"} \cup Live

ObsStates == {"idle", "inspect", "verify", "settle", "record", "clean", "mark", "markReview"}
\* The fields of a listed row that its reader goes by.
Snapshot == [status : {"none", "running", "succeeded", "failed"},
             outcome : Outcomes, started : BOOLEAN, verifying : BOOLEAN]
\* Mutant: the observer takes every listed job for one that was verifying.
SnapVerifying(j) == [status |-> row[j].status, outcome |-> row[j].outcome,
                     started |-> row[j].started, verifying |-> TRUE]
Snap(j) == [status |-> row[j].status, outcome |-> row[j].outcome,
            started |-> row[j].started,
            verifying |-> row[j].stage \in {"verifying", "committing"}]
NoSnap == [status |-> "none", outcome |-> "", started |-> FALSE, verifying |-> FALSE]
Idle == [pc |-> "idle", job |-> NoJob, snap |-> NoSnap]

\* Mutants: helpers are not looked for; an exited worker still counts.
AliveIgnoringHelpers(j) == proc[j] \in Live
AliveWhenExited(j) == proc[j] \in Live \cup {"exited"} \/ helper[j]

\* jobs.State: the worker container is running, or another container that
\* carries the job's label is.
Alive(j) == proc[j] \in Live \/ helper[j]

\* Something may be changing the job's target.
Touching(j) == sub[j] = "docker" \/ proc[j] \in Claimed \/ helper[j] \/ unlabelled[j]

\* What is left of it is the Compose helper of a request that has failed.
Stray(j) ==
    /\ unlabelled[j] /\ row[j].route = "direct"
    /\ row[j].outcome \in {"failed", "recovery_acknowledged"}

TypeOK ==
    /\ row \in [Jobs -> Row]
    /\ lock \in [Resources -> Jobs \cup {NoJob}]
    /\ sub \in [Jobs -> SubStates]
    /\ proc \in [Jobs -> ProcStates]
    /\ helper \in [Jobs -> BOOLEAN]
    /\ unlabelled \in [Jobs -> BOOLEAN]
    /\ target \in [Jobs -> {"untouched", "partial", "complete"}]
    /\ retained \in [Jobs -> BOOLEAN]
    /\ young \in [Jobs -> BOOLEAN]
    /\ obs \in [Observers -> [pc : ObsStates, job : Jobs \cup {NoJob}, snap : Snapshot]]
    /\ review \in [Jobs -> {"no", "inspected", "cleaning"}]
    /\ web \in BOOLEAN

Init ==
    /\ row = [j \in Jobs |-> NoRow]
    /\ lock = [r \in Resources |-> NoJob]
    /\ sub = [j \in Jobs |-> "idle"]
    /\ proc = [j \in Jobs |-> "absent"]
    /\ helper = [j \in Jobs |-> FALSE]
    /\ unlabelled = [j \in Jobs |-> FALSE]
    /\ target = [j \in Jobs |-> "untouched"]
    /\ retained = [j \in Jobs |-> FALSE]
    /\ young = [j \in Jobs |-> FALSE]
    /\ obs = [o \in Observers |-> Idle]
    /\ review = [j \in Jobs |-> "no"]
    /\ web = TRUE

----------------------------------------------------------------------------
(* Transactions of the store, each guarded by status = 'running'.          *)

\* Mutant: the DELETE on operation_locks is missing.
ReleasedNothing(j) == lock
Released(j) == [r \in Resources |-> IF lock[r] = j THEN NoJob ELSE lock[r]]

FinalStage(outcome) ==
    IF outcome = "recovery_required" THEN "awaiting_recovery" ELSE "completed"

\* Mutant: no status = 'running' in the UPDATE.
FinishJobUnguarded(j, status, outcome) ==
    /\ row' = [row EXCEPT ![j] = [@ EXCEPT !.status = status,
                    !.outcome = outcome, !.stage = FinalStage(outcome)]]
    /\ lock' = IF outcome = "recovery_required" THEN lock ELSE Released(j)

\* FinishJob: a late writer finds the row terminal and changes nothing.
FinishJob(j, status, outcome) ==
    IF Running(j)
    THEN /\ row' = [row EXCEPT ![j] = [@ EXCEPT !.status = status,
                        !.outcome = outcome, !.stage = FinalStage(outcome)]]
         /\ lock' = IF outcome = "recovery_required" THEN lock ELSE Released(j)
    ELSE UNCHANGED <<row, lock>>

\* JobProgress: 'executing' also records the start of a direct operation.
AtStage(x, stage) ==
    IF stage = "executing" THEN [x EXCEPT !.stage = stage, !.started = TRUE]
                           ELSE [x EXCEPT !.stage = stage]

JobProgress(j, stage) ==
    IF Running(j) THEN row' = [row EXCEPT ![j] = AtStage(@, stage)] ELSE UNCHANGED row

\* SetJobWorker's WHERE clause: not started, or a direct operation that hands
\* itself over to a worker.
MaySetWorker(j) ==
    /\ Running(j)
    /\ \/ ~row[j].started
       \/ Engine(j) /\ row[j].stage = "executing" /\ row[j].worker = ""

SetJobWorker(j, worker) ==
    row' = [row EXCEPT ![j] = [@ EXCEPT !.worker = worker, !.stage = "launching",
                                        !.started = FALSE]]

MayClaim(j) == Running(j) /\ ~row[j].started /\ row[j].stage = "launching"

----------------------------------------------------------------------------
(* The submitting web goroutine.                                           *)

Goto(j, s) == sub' = [sub EXCEPT ![j] = s]

\* CreateJob: the row and every reservation, or nothing at all.
CreateJob(j, route, R) ==
    /\ web
    /\ row[j].status = "none"
    /\ \A r \in R : lock[r] = NoJob
    /\ row' = [row EXCEPT ![j] = NewJob(route, R)]
    /\ lock' = [r \in Resources |-> IF r \in R THEN j ELSE lock[r]]
    /\ young' = [young EXCEPT ![j] = TRUE]
    /\ Goto(j, IF route \in {"direct", "restart"} THEN "admitted" ELSE "register")
    /\ UNCHANGED <<proc, helper, unlabelled, target, retained, obs, review, web>>

\* beginOperation's JobProgress(executing).
BeginDirect(j) ==
    /\ sub[j] = "admitted"
    /\ JobProgress(j, "executing")
    /\ Goto(j, "docker")
    /\ UNCHANGED <<lock, proc, helper, unlabelled, target, retained, young, obs, review, web>>

\* The synchronous Engine calls of Action, Pull and Remove.
DirectCall(j) ==
    /\ sub[j] = "docker"
    /\ ~unlabelled[j]
    /\ \E t \in {"partial", "complete"} : target' = [target EXCEPT ![j] = t]
    /\ UNCHANGED <<row, lock, sub, proc, helper, unlabelled, retained, young, obs, review, web>>

\* LifecycleFiles, PullFiles and PullServiceFiles run Compose in a container of
\* its own.  The web process has no NOX_JOB_ID to label it with.
StartUnlabelled(j) ==
    /\ sub[j] = "docker"
    /\ row[j].route = "direct"
    /\ ~unlabelled[j]
    /\ unlabelled' = [unlabelled EXCEPT ![j] = TRUE]
    /\ target' = [target EXCEPT ![j] = "partial"]
    /\ UNCHANGED <<row, lock, sub, proc, helper, retained, young, obs, review, web>>

\* It ends on its own, whatever became of its `docker run`, request and row.
UnlabelledEnds(j) ==
    /\ unlabelled[j]
    /\ unlabelled' = [unlabelled EXCEPT ![j] = FALSE]
    /\ \E t \in {"partial", "complete"} : target' = [target EXCEPT ![j] = t]
    /\ UNCHANGED <<row, lock, sub, proc, helper, retained, young, obs, review, web>>

\* finishOperation: interrupted calls are uncertain, other errors are failures.
\* `docker run` succeeds only after its helper; when it is killed with the
\* request or ends early, runResolvedCompose returns a plain error.
\* The image report (JobProgress) precedes FinishJob and nobody else reads it.
FinishDirect(j) ==
    /\ sub[j] = "docker"
    /\ \/ target[j] = "complete" /\ ~unlabelled[j] /\ FinishJob(j, "succeeded", "verified")
       \/ FinishJob(j, "failed", "failed")
       \/ ~unlabelled[j] /\ FinishJob(j, "failed", "recovery_required")
    /\ Goto(j, "done")
    /\ UNCHANGED <<proc, helper, unlabelled, target, retained, young, obs, review, web>>

\* A database error: beginOperation returns after CreateJob, finishOperation
\* drops FinishJob's error.  Only the next startup settles the row.
StorageFails(j) ==
    /\ sub[j] \in {"admitted", "docker"}
    /\ Goto(j, "lost")
    /\ UNCHANGED <<row, lock, proc, helper, unlabelled, target, retained, young, obs, review, web>>

\* launchSelfRestart: Yard itself is restarted last, by a worker.
LaunchRestart(j) ==
    /\ sub[j] = "docker"
    /\ row[j].route = "restart"
    /\ Running(j)
    /\ Goto(j, "register")
    /\ UNCHANGED <<row, lock, proc, helper, unlabelled, target, retained, young, obs, review, web>>

\* Launch up to its first SetJobWorker: a missing mount or a lost CAS is a
\* plain error, nothing has been created.
RegisterWorker(j) ==
    /\ sub[j] = "register"
    /\ \/ /\ MaySetWorker(j)
          /\ SetJobWorker(j, "name")
          /\ Goto(j, "create")
       \/ /\ UNCHANGED row
          /\ Goto(j, "plain")
    /\ UNCHANGED <<lock, proc, helper, unlabelled, target, retained, young, obs, review, web>>

\* ErrLaunchUncertain: enqueue and Action leave the job to the observer, Submit
\* hands it to host review.
LaunchUncertain(j) == Goto(j, IF row[j].route = "recreate" THEN "uncertain" ELSE "done")

\* ContainerCreate; an error does not tell whether the container exists.
CreateWorker(j) ==
    /\ sub[j] = "create"
    /\ \/ /\ proc' = [proc EXCEPT ![j] = "created"]
          /\ Goto(j, "confirm") \/ LaunchUncertain(j)
       \/ UNCHANGED proc /\ LaunchUncertain(j)
    /\ UNCHANGED <<row, lock, helper, unlabelled, target, retained, young, obs, review, web>>

\* The second SetJobWorker, with the container's own id.
ConfirmWorker(j) ==
    /\ sub[j] = "confirm"
    /\ \/ MaySetWorker(j) /\ SetJobWorker(j, "id") /\ Goto(j, "start")
       \/ UNCHANGED row /\ LaunchUncertain(j)
    /\ UNCHANGED <<lock, proc, helper, unlabelled, target, retained, young, obs, review, web>>

\* ContainerStart; again an error leaves both possibilities open.
StartWorker(j) ==
    /\ sub[j] = "start"
    /\ \/ /\ proc[j] = "created"
          /\ proc' = [proc EXCEPT ![j] = "boot"]
          /\ Goto(j, "done") \/ LaunchUncertain(j)
       \/ UNCHANGED proc /\ LaunchUncertain(j)
    /\ UNCHANGED <<row, lock, helper, unlabelled, target, retained, young, obs, review, web>>

\* The caller after a plain launch error: enqueue and Submit record a failure,
\* Action runs finishOperation if no worker was registered.
AfterPlainError(j) ==
    /\ sub[j] = "plain"
    /\ \/ FinishJob(j, "failed", "failed")
       \/ row[j].route = "restart" /\ FinishJob(j, "failed", "recovery_required")
    /\ Goto(j, "done")
    /\ UNCHANGED <<proc, helper, unlabelled, target, retained, young, obs, review, web>>

\* Submit after ErrLaunchUncertain.
AfterUncertainLaunch(j) ==
    /\ sub[j] = "uncertain"
    /\ FinishJob(j, "failed", "recovery_required")
    /\ Goto(j, "done")
    /\ UNCHANGED <<proc, helper, unlabelled, target, retained, young, obs, review, web>>

----------------------------------------------------------------------------
(* The worker container.                                                   *)

Become(j, p) == proc' = [proc EXCEPT ![j] = p]

\* RunWorker's ValidateWorker: only the registered container of a running job
\* goes on.
ValidateWorker(j) ==
    /\ proc[j] = "boot"
    /\ Become(j, IF Running(j) /\ row[j].worker = "id" THEN "claim" ELSE "exiting")
    /\ UNCHANGED <<row, lock, sub, helper, unlabelled, target, retained, young, obs, review, web>>

ClaimJob(j) ==
    /\ proc[j] = "claim"
    /\ IF MayClaim(j)
       THEN /\ row' = [row EXCEPT ![j] = [@ EXCEPT !.stage = "preparing", !.started = TRUE]]
            /\ young' = [young EXCEPT ![j] = FALSE]
            /\ Become(j, "work")
       ELSE UNCHANGED <<row, young>> /\ Become(j, "exiting")
    /\ UNCHANGED <<lock, sub, helper, unlabelled, target, retained, obs, review, web>>

\* retainDeploymentImages: rollback tags are journalled, then made.
RetainImages(j) ==
    /\ proc[j] = "work"
    /\ row[j].route = "managed"
    /\ JobProgress(j, "preparing")
    /\ IF Running(j)
       THEN retained' = [retained EXCEPT ![j] = TRUE] /\ UNCHANGED proc
       ELSE Become(j, "fail") /\ UNCHANGED retained
    /\ UNCHANGED <<lock, sub, helper, unlabelled, target, young, obs, review, web>>

\* The journal is saved and stage 'replacing' recorded before the first change;
\* recreate retains the originals.  A lost write ends the worker on the spot.
BeginMutation(j) ==
    /\ proc[j] = "work"
    /\ JobProgress(j, "replacing")
    /\ IF Running(j)
       THEN /\ Become(j, "mutate")
            /\ retained' = [retained EXCEPT ![j] = @ \/ row[j].route = "recreate"]
       ELSE /\ Become(j, "exiting")
            /\ UNCHANGED retained
    /\ UNCHANGED <<lock, sub, helper, unlabelled, target, young, obs, review, web>>

\* Docker calls of the worker.  A restart worker stops the web process: its
\* goroutines are gone, the rows stay.
Mutate(j) ==
    /\ proc[j] = "mutate"
    /\ \E t \in {"partial", "complete"} : target' = [target EXCEPT ![j] = t]
    /\ IF row[j].route = "restart"
       THEN /\ web' = FALSE
            /\ sub' = [i \in Jobs |-> IF sub[i] = "idle" THEN "idle" ELSE "done"]
            /\ obs' = [o \in Observers |-> Idle]
            /\ review' = [i \in Jobs |-> "no"]
       ELSE UNCHANGED <<web, sub, obs, review>>
    /\ UNCHANGED <<row, lock, proc, helper, unlabelled, retained, young>>

\* Compose runs in a child container that outlives a killed worker.
StartHelper(j) ==
    /\ proc[j] = "mutate"
    /\ row[j].route = "managed"
    /\ helper' = [helper EXCEPT ![j] = TRUE]
    /\ target' = [target EXCEPT ![j] = "partial"]
    /\ UNCHANGED <<row, lock, sub, proc, unlabelled, retained, young, obs, review, web>>

HelperEnds(j) ==
    /\ helper[j]
    /\ helper' = [helper EXCEPT ![j] = FALSE]
    /\ \E t \in {"partial", "complete"} : target' = [target EXCEPT ![j] = t]
    /\ UNCHANGED <<row, lock, sub, proc, unlabelled, retained, young, obs, review, web>>

\* Mutant: the replacement's reservation is written over another job's.
RetargetJobAnyway(j, r) ==
    /\ proc[j] = "mutate"
    /\ row[j].route = "recreate"
    /\ IF Running(j)
       THEN /\ lock' = [lock EXCEPT ![r] = j]
            /\ row' = [row EXCEPT ![j].res = @ \cup {r}]
            /\ UNCHANGED proc
       ELSE /\ Become(j, "fail")
            /\ UNCHANGED <<row, lock>>
    /\ UNCHANGED <<sub, helper, unlabelled, target, retained, young, obs, review, web>>

\* RetargetJob: the replacement container joins the reservation, unless
\* another job holds it.
RetargetJob(j, r) ==
    /\ proc[j] = "mutate"
    /\ row[j].route = "recreate"
    /\ IF Running(j) /\ lock[r] \in {NoJob, j}
       THEN /\ lock' = [lock EXCEPT ![r] = j]
            /\ row' = [row EXCEPT ![j].res = @ \cup {r}]
            /\ UNCHANGED proc
       ELSE /\ Become(j, "fail")
            /\ UNCHANGED <<row, lock>>
    /\ UNCHANGED <<sub, helper, unlabelled, target, retained, young, obs, review, web>>

\* JobProgress(verifying) once the commands have returned.
BeginVerification(j) ==
    /\ proc[j] = "mutate"
    /\ ~helper[j]
    /\ JobProgress(j, "verifying")
    /\ Become(j, IF Running(j) THEN "verify" ELSE "exiting")
    /\ UNCHANGED <<lock, sub, helper, unlabelled, target, retained, young, obs, review, web>>

\* Mutant: the verdict of the verification is dropped.
VerifyTargetBlind(j) ==
    /\ proc[j] = "verify"
    /\ JobProgress(j, "committing")
    /\ Become(j, IF Running(j) THEN "commit" ELSE "exiting")
    /\ UNCHANGED <<lock, sub, helper, unlabelled, target, retained, young, obs, review, web>>

\* Verification, then stage 'committing'.
VerifyTarget(j) ==
    /\ proc[j] = "verify"
    /\ target[j] = "complete"
    /\ JobProgress(j, "committing")
    /\ Become(j, IF Running(j) THEN "commit" ELSE "exiting")
    /\ UNCHANGED <<lock, sub, helper, unlabelled, target, retained, young, obs, review, web>>

\* Any command, verification or deadline error.
CommandFails(j) ==
    /\ proc[j] \in {"work", "mutate", "verify"}
    /\ Become(j, "fail")
    /\ UNCHANGED <<row, lock, sub, helper, unlabelled, target, retained, young, obs, review, web>>

\* cleanupDeployment right after the final write, best effort.
MayDropImages(j) ==
    \/ UNCHANGED retained
    \/ row[j].route = "managed" /\ retained' = [retained EXCEPT ![j] = FALSE]

\* Skipped, or the images are the running ones: success without a change.
\* recreate passes 'committing' on its way, which no Verify accepts here.
RecordUnchanged(j) ==
    /\ proc[j] = "work"
    /\ row[j].route \in {"managed", "recreate"}
    /\ FinishJob(j, "succeeded", "unchanged")
    /\ IF Running(j) THEN MayDropImages(j) ELSE UNCHANGED retained
    /\ Become(j, "exiting")
    /\ UNCHANGED <<sub, helper, unlabelled, target, young, obs, review, web>>

RecordSuccess(j) ==
    /\ proc[j] = "commit"
    /\ FinishJob(j, "succeeded", "verified")
    /\ IF Running(j) THEN MayDropImages(j) ELSE UNCHANGED retained
    /\ Become(j, "exiting")
    /\ UNCHANGED <<sub, helper, unlabelled, target, young, obs, review, web>>

\* CommitManagedJob found the row settled, or failed: the failure path follows.
CommitFails(j) ==
    /\ proc[j] = "commit"
    /\ row[j].route = "managed"
    /\ Become(j, "fail")
    /\ UNCHANGED <<row, lock, sub, helper, unlabelled, target, retained, young, obs, review, web>>

\* restartOutcome: Yard is back, but the rest of its group was not done.
RecordPartial(j) ==
    /\ proc[j] = "commit"
    /\ row[j].route = "restart"
    /\ \E outcome \in {"failed", "recovery_required"} : FinishJob(j, "failed", outcome)
    /\ Become(j, "exiting")
    /\ UNCHANGED <<sub, helper, unlabelled, target, retained, young, obs, review, web>>

\* The rollback of the failure path restores the former containers.
RollBack(j) ==
    /\ proc[j] = "fail"
    /\ ~helper[j]
    /\ row[j].route = "managed" \/ (row[j].route = "recreate" /\ row[j].stage # "committing")
    /\ JobProgress(j, "rolling_back")
    /\ \/ /\ target' = [target EXCEPT ![j] = "untouched"]
          /\ retained' = [retained EXCEPT ![j] = IF row[j].route = "managed" THEN @ ELSE FALSE]
       \/ /\ target' = [target EXCEPT ![j] = "partial"]
          /\ UNCHANGED retained
    /\ UNCHANGED <<lock, sub, proc, helper, unlabelled, young, obs, review, web>>

\* The recreate worker saves its journal at 'committing' on failure too.
SaveFailure(j) ==
    /\ proc[j] = "fail"
    /\ row[j].route = "recreate"
    /\ JobProgress(j, "committing")
    /\ Become(j, IF Running(j) THEN "fail" ELSE "exiting")
    /\ UNCHANGED <<lock, sub, helper, unlabelled, target, retained, young, obs, review, web>>

\* Mutant: the failure path does not ask whether a helper is still running.
RecordFailureAnyway(j) ==
    /\ proc[j] = "fail"
    /\ row[j].route # "restart"
    /\ FinishJob(j, "failed", "failed")
    /\ Become(j, "exiting")
    /\ UNCHANGED <<sub, helper, unlabelled, target, retained, young, obs, review, web>>

\* The failure path's final write.  A running helper or an expired deadline
\* make the outcome uncertain, and so does a failed restart or rollback.
RecordFailure(j) ==
    /\ proc[j] = "fail"
    /\ row[j].route = "recreate" => row[j].stage = "committing"
    /\ \/ /\ FinishJob(j, "failed", "recovery_required")
          /\ UNCHANGED retained
       \/ /\ ~helper[j]
          /\ row[j].route # "restart"
          /\ row[j].route = "recreate" => target[j] = "untouched"
          /\ FinishJob(j, "failed", "failed")
          /\ IF Running(j) THEN MayDropImages(j) ELSE UNCHANGED retained
    /\ Become(j, "exiting")
    /\ UNCHANGED <<sub, helper, unlabelled, target, young, obs, review, web>>

\* The process returns, or is killed at any point; it is never restarted.
WorkerExits(j) ==
    /\ proc[j] \in Live
    /\ Become(j, "exited")
    /\ UNCHANGED <<row, lock, sub, helper, unlabelled, target, retained, young, obs, review, web>>

----------------------------------------------------------------------------
(* The observer.                                                           *)

Observe(o, pc, j) == obs' = [obs EXCEPT ![o] = [pc |-> pc, job |-> j, snap |-> Snap(j)]]
\* The snapshot is not read again once Docker has been inspected.
Continue(o, pc) == obs' = [obs EXCEPT ![o] = [@ EXCEPT !.pc = pc, !.snap = NoSnap]]
Rest(o) == obs' = [obs EXCEPT ![o] = Idle]

\* One entry of the active list.  A direct operation belongs to the process
\* that runs it; Observe leaves the listed uncertain rows as they are.
ListActive(o, j) ==
    /\ web
    /\ obs[o].pc = "idle"
    /\ Running(j)
    /\ ~(Engine(j) /\ row[j].worker = "")
    /\ Observe(o, "inspect", j)
    /\ UNCHANGED <<row, lock, sub, proc, helper, unlabelled, target, retained, young, review, web>>

\* Observe and observeState: Docker is read after the row.
InspectWorker(o) ==
    /\ obs[o].pc = "inspect"
    /\ LET j == obs[o].job
           s == obs[o].snap
       IN  IF Alive(j) \/ (~s.started /\ young[j])
           THEN Rest(o)
           ELSE Continue(o, IF s.verifying THEN "verify" ELSE "record")
    /\ UNCHANGED <<row, lock, sub, proc, helper, unlabelled, target, retained, young, review, web>>

\* Observer.Verify: a restart has none; the others compare Docker with the
\* journal.  It may fail for any other reason too.
VerifyExited(o) ==
    /\ obs[o].pc = "verify"
    /\ LET j == obs[o].job
       IN  \/ /\ row[j].route \in {"managed", "recreate"}
              /\ target[j] = "complete"
              /\ Continue(o, "settle")
           \/ Continue(o, "record")
    /\ UNCHANGED <<row, lock, sub, proc, helper, unlabelled, target, retained, young, review, web>>

RecordReconciled(o) ==
    /\ obs[o].pc = "settle"
    /\ FinishJob(obs[o].job, "succeeded", "reconciled")
    /\ Rest(o)
    /\ UNCHANGED <<sub, proc, helper, unlabelled, target, retained, young, review, web>>

RecordUncertain(o) ==
    /\ obs[o].pc = "record"
    /\ FinishJob(obs[o].job, "failed", "recovery_required")
    /\ Rest(o)
    /\ UNCHANGED <<sub, proc, helper, unlabelled, target, retained, young, review, web>>

\* WorkersForCleanup.
ListFinal(o, j) ==
    /\ web
    /\ obs[o].pc = "idle"
    /\ Terminal(j)
    /\ row[j].worker # ""
    /\ ~row[j].cleaned
    /\ Observe(o, "clean", j)
    /\ UNCHANGED <<row, lock, sub, proc, helper, unlabelled, target, retained, young, review, web>>

\* Mutant: cleanup does not look at the result it follows.
CleanupDeletesAny(j, status, outcome) ==
    retained[j] /\ row[j].route \in {"managed", "recreate"}

\* What CleanupFinal may delete, by the row it is handed: never what host
\* review needs, and retained originals only after a verified replacement.
CleanupDeletes(j, status, outcome) ==
    /\ retained[j]
    /\ \/ row[j].route = "managed" /\ outcome # "recovery_required"
       \/ row[j].route = "recreate" /\ status = "succeeded"

\* Cleanup, then CleanupFinal with the listed row.  Docker refuses to remove a
\* running container.
CleanWorker(o) ==
    /\ obs[o].pc = "clean"
    /\ LET j == obs[o].job
           s == obs[o].snap
           deletes == CleanupDeletes(j, s.status, s.outcome)
       IN  \/ /\ Alive(j)
              /\ Rest(o)
              /\ row' \in {row, [row EXCEPT ![j].cleanupError = TRUE]}
              /\ UNCHANGED <<proc, retained>>
           \/ /\ ~Alive(j)
              /\ Become(j, "absent")
              /\ \/ /\ Continue(o, "mark")
                    /\ retained' = [retained EXCEPT ![j] = IF deletes THEN FALSE ELSE @]
                    /\ UNCHANGED row
                 \/ /\ deletes
                    /\ Rest(o)
                    /\ row' = [row EXCEPT ![j].cleanupError = TRUE]
                    /\ UNCHANGED retained
                 \/ /\ deletes
                    /\ row[j].route = "managed"     \* ErrCleanupReview
                    /\ Continue(o, "markReview")
                    /\ row' = [row EXCEPT ![j].cleanupError = TRUE]
                    /\ UNCHANGED retained
    /\ UNCHANGED <<lock, sub, helper, unlabelled, target, young, review, web>>

\* WorkerCleaned(id): by id alone, whatever the row has become.
MarkCleaned(x, clearError) ==
    IF clearError THEN [x EXCEPT !.cleaned = TRUE, !.cleanupError = FALSE]
                  ELSE [x EXCEPT !.cleaned = TRUE]

WorkerCleaned(o) ==
    /\ obs[o].pc \in {"mark", "markReview"}
    /\ row' = [row EXCEPT ![obs[o].job] = MarkCleaned(@, obs[o].pc = "mark")]
    /\ Rest(o)
    /\ UNCHANGED <<lock, sub, proc, helper, unlabelled, target, retained, young, review, web>>

----------------------------------------------------------------------------
(* Host review: Observer.Acknowledge.                                      *)

\* Mutant: the review does not look at Docker.
InspectNothing(j) ==
    /\ web
    /\ review[j] = "no"
    /\ Uncertain(j)
    /\ review' = [review EXCEPT ![j] = "inspected"]
    /\ UNCHANGED <<row, lock, sub, proc, helper, unlabelled, target, retained, young, obs, web>>

\* The reviewed row is uncertain and Docker shows no worker or helper.
InspectForReview(j) ==
    /\ web
    /\ review[j] = "no"
    /\ Uncertain(j)
    /\ ~Alive(j)
    /\ review' = [review EXCEPT ![j] = "inspected"]
    /\ UNCHANGED <<row, lock, sub, proc, helper, unlabelled, target, retained, young, obs, web>>

\* AcknowledgeRecovery.  The reviewed updatedAt adds nothing to the guard: an
\* uncertain row does not change its updatedAt before this write.
AcknowledgeRecovery(j) ==
    /\ review[j] = "inspected"
    /\ IF row[j].status = "failed" /\ Uncertain(j)
       THEN /\ row' = [row EXCEPT ![j] = [@ EXCEPT !.outcome = "recovery_acknowledged",
                                     !.stage = "completed", !.cleaned = FALSE]]
            /\ lock' = Released(j)
            /\ review' = [review EXCEPT ![j] = "cleaning"]
       ELSE /\ UNCHANGED <<row, lock>>
            /\ review' = [review EXCEPT ![j] = "no"]
    /\ UNCHANGED <<sub, proc, helper, unlabelled, target, retained, young, obs, web>>

\* Acknowledge's own CleanupFinal.
CleanupReviewed(j) ==
    /\ review[j] = "cleaning"
    /\ LET deletes == CleanupDeletes(j, "failed", "recovery_acknowledged")
       IN  \/ /\ retained' = [retained EXCEPT ![j] = IF deletes THEN FALSE ELSE @]
              /\ UNCHANGED row
           \/ /\ deletes
              /\ row' = [row EXCEPT ![j].cleanupError = TRUE]
              /\ UNCHANGED retained
    /\ review' = [review EXCEPT ![j] = "no"]
    /\ UNCHANGED <<lock, sub, proc, helper, unlabelled, target, young, obs, web>>

----------------------------------------------------------------------------
(* Time and the web process.                                               *)

GraceExpires(j) ==
    /\ young[j]
    /\ Running(j)
    /\ LaunchWithinGrace => sub[j] \notin Launching
    /\ young' = [young EXCEPT ![j] = FALSE]
    /\ UNCHANGED <<row, lock, sub, proc, helper, unlabelled, target, retained, obs, review, web>>

\* A stop or crash: goroutines vanish between any two of their steps.
WebStops ==
    /\ web
    /\ web' = FALSE
    /\ sub' = [j \in Jobs |-> IF sub[j] = "idle" THEN "idle" ELSE "done"]
    /\ obs' = [o \in Observers |-> Idle]
    /\ review' = [j \in Jobs |-> "no"]
    /\ UNCHANGED <<row, lock, proc, helper, unlabelled, target, retained, young>>

\* Mutant: only jobs that never started are settled at startup.
AbandonedQueued(j) == Engine(j) /\ Running(j) /\ row[j].worker = "" /\ ~row[j].started
Abandoned(j) == Engine(j) /\ Running(j) /\ row[j].worker = ""

\* Startup: ReconcileDirectJobs settles what the former process left behind,
\* before the observer starts and requests are served.
WebStarts ==
    /\ ~web
    /\ web' = TRUE
    /\ row' = [j \in Jobs |->
                  IF Abandoned(j)
                  THEN [row[j] EXCEPT !.status = "failed", !.stage = "awaiting_recovery",
                                      !.outcome = "recovery_required"]
                  ELSE row[j]]
    /\ UNCHANGED <<lock, sub, proc, helper, unlabelled, target, retained, young, obs, review>>

----------------------------------------------------------------------------
Submit(j) ==
    \/ BeginDirect(j) \/ FinishDirect(j) \/ LaunchRestart(j) \/ RegisterWorker(j)
    \/ CreateWorker(j) \/ ConfirmWorker(j) \/ StartWorker(j)
    \/ AfterPlainError(j) \/ AfterUncertainLaunch(j)

Work(j) ==
    \/ ValidateWorker(j) \/ ClaimJob(j) \/ RetainImages(j) \/ BeginMutation(j) \/ Mutate(j)
    \/ StartHelper(j) \/ \E r \in Resources : RetargetJob(j, r)
    \/ BeginVerification(j) \/ VerifyTarget(j) \/ CommandFails(j)
    \/ RecordUnchanged(j) \/ RecordSuccess(j) \/ CommitFails(j) \/ RecordPartial(j)
    \/ RollBack(j) \/ SaveFailure(j) \/ RecordFailure(j)

Settle(o) ==
    \/ InspectWorker(o) \/ VerifyExited(o) \/ RecordReconciled(o)
    \/ RecordUncertain(o) \/ CleanWorker(o) \/ WorkerCleaned(o)

Review(j) == InspectForReview(j) \/ AcknowledgeRecovery(j) \/ CleanupReviewed(j)

Next ==
    \/ \E j \in Jobs :
        \/ \E route \in Routes[j], R \in Scopes : CreateJob(j, route, R)
        \/ Submit(j) \/ DirectCall(j) \/ StartUnlabelled(j) \/ StorageFails(j)
        \/ Work(j) \/ WorkerExits(j) \/ HelperEnds(j) \/ UnlabelledEnds(j)
        \/ Review(j)
        \/ GraceExpires(j)
    \/ \E o \in Observers :
        \/ \E j \in Jobs : ListActive(o, j) \/ ListFinal(o, j)
        \/ Settle(o)
    \/ WebStops
    \/ WebStarts

Spec == Init /\ [][Next]_vars

(***************************************************************************)
(* Fairness.  HTTP handlers run to their end; worker contexts carry the    *)
(* job's deadline, so a worker exits; the observer loop visits every       *)
(* listed row once per pass; the container runtime restarts Yard.  Nothing *)
(* is assumed of a worker's success, of host review or of new requests.    *)
(***************************************************************************)
Fairness ==
    /\ \A j \in Jobs :
        /\ WF_vars(Submit(j)) /\ WF_vars(WorkerExits(j))
        /\ WF_vars(HelperEnds(j)) /\ WF_vars(GraceExpires(j))
        /\ WF_vars(CleanupReviewed(j))
    /\ \A o \in Observers :
        /\ WF_vars(Settle(o))
        /\ \A j \in Jobs : SF_vars(ListActive(o, j)) /\ SF_vars(ListFinal(o, j))
    /\ WF_vars(WebStarts)

FairSpec == Spec /\ Fairness

----------------------------------------------------------------------------
(* Properties.                                                             *)

(* A reservation is held exactly by the job whose row is running or still  *)
(* uncertain: no terminal row keeps a lock, no active row misses one of    *)
(* its resources (insertJob, RetargetJob, finishJobTx, AcknowledgeRecovery *)
(* and both startup and observer settlement).                              *)
ReservationsExact ==
    \A j \in Jobs, r \in Resources : lock[r] = j <=> Active(j) /\ r \in row[j].res

(* Nothing touches a resource on behalf of a job that does not reserve it, *)
(* so two jobs that share a resource are never at work together: whatever  *)
(* a late start, an orphan helper, a second observer, a review or a web    *)
(* restart does in between.  The one exception is the Compose helper of a  *)
(* direct request that has failed or was acknowledged: Docker shows no job *)
(* on it (helperCommandArgs), so nothing waits for its end.                *)
WorkIsReserved == \A j \in Jobs : Touching(j) => Active(j) \/ Stray(j)

TargetExclusive ==
    \A i, j \in Jobs :
        i # j /\ Touching(i) /\ Touching(j) =>
            row[i].res \cap row[j].res = {} \/ Stray(i) \/ Stray(j)

(* A verified or reconciled result is only ever recorded, by worker, web   *)
(* or observer, for a target that is complete, and it stays true: no late  *)
(* worker, helper or request of the job undoes what was reported done.     *)
(* What other jobs do to the same target is TargetExclusive's matter.      *)
Delivered(j) == row[j].outcome \in {"verified", "reconciled"} => target[j] = "complete"
SucceededIsComplete == \A j \in Jobs : Delivered(j)

(* A terminal row keeps its status and outcome, whoever writes late; the   *)
(* one exception is that an uncertain outcome is acknowledged.             *)
TerminalIsFinal ==
    [][\A j \in Jobs : Terminal(j) =>
        /\ row'[j].status = row[j].status
        /\ \/ row'[j].outcome = row[j].outcome
           \/ Uncertain(j) /\ row'[j].outcome = "recovery_acknowledged"]_vars

(* Once a job has given its reservation up, its worker, helper and request *)
(* change nothing any more, however late the container is started; a stray *)
(* helper of its request may end what it is doing, and no new one starts.  *)
NoLateMutation ==
    [][\A j \in Jobs : Terminal(j) /\ ~Active(j) =>
        /\ target'[j] = target[j] \/ Stray(j)
        /\ unlabelled'[j] => unlabelled[j]]_vars

(* Cleanup removes a worker container only after a durable result and the  *)
(* exit of the worker and its helpers.                                     *)
CleanupSparesLive ==
    [][\A j \in Jobs : proc[j] # "absent" /\ proc'[j] = "absent" =>
        Terminal(j) /\ proc[j] \notin Live /\ ~helper[j]]_vars

(* What host review needs stays until the review: nobody but the job's own *)
(* worker, restoring the originals, gives up retained resources of a job   *)
(* that is running or uncertain.                                           *)
RecoveryKeepsRetained ==
    [][\A j \in Jobs : Active(j) /\ Active(j)' /\ retained[j] /\ ~retained'[j] =>
        proc[j] = "fail"]_vars

(* The inductive invariant behind the properties above.  A row is uncertain *)
(* only when failed; a request works on Docker only while it owns its row  *)
(* and has no worker; a worker container follows its launch; an unlabelled *)
(* helper belongs to a direct request that has not succeeded; a review that *)
(* was admitted, and an observer that verifies, face a job whose worker    *)
(* and helpers are gone for good.                                          *)
LaunchOver(j) == sub[j] \in {"done", "uncertain"}

Gone(j) == proc[j] \in {"exited", "absent"} /\ ~helper[j] /\ LaunchOver(j)

JobInv(j) ==
    /\ row[j].status \in {"none", "running"} => row[j].outcome = ""
    /\ Uncertain(j) => row[j].status = "failed"
    /\ row[j].status = "none" => sub[j] = "idle"
    /\ row[j].stage \in {"verifying", "committing"} => LaunchOver(j) /\ proc[j] # "created"
    /\ sub[j] \in {"admitted", "docker"} =>
          web /\ Running(j) /\ Engine(j) /\ row[j].worker = ""
    /\ ~LaunchOver(j) => proc[j] \in {"absent", "created"} /\ ~helper[j]
    /\ ~LaunchOver(j) /\ sub[j] \notin {"confirm", "start"} => proc[j] = "absent"
    /\ proc[j] \in {"boot", "claim", "work", "verify", "commit"} => ~helper[j]
    /\ proc[j] = "commit" => target[j] = "complete"
    /\ review[j] # "no" => Terminal(j) /\ proc[j] \notin Claimed /\ ~helper[j]
    /\ unlabelled[j] =>
          /\ row[j].status # "none" /\ row[j].route = "direct" /\ row[j].worker = ""
          /\ sub[j] \in {"docker", "done", "lost"} /\ proc[j] = "absent" /\ ~helper[j]
          /\ row[j].outcome \in {"", "failed", "recovery_required", "recovery_acknowledged"}

ObserverInv(o) ==
    obs[o].pc # "idle" =>
        LET j == obs[o].job
        IN  /\ j \in Jobs /\ row[j].status # "none"
            /\ Engine(j) => row[j].worker # ""
            /\ obs[o].pc = "inspect" /\ obs[o].snap.verifying =>
                  LaunchOver(j) /\ proc[j] # "created"
            /\ obs[o].pc \in {"verify", "settle"} => Gone(j)
            /\ obs[o].pc = "settle" => target[j] = "complete"
            /\ obs[o].pc \in {"clean", "mark", "markReview"} => Terminal(j)

WorkInv ==
    /\ TypeOK /\ ReservationsExact /\ WorkIsReserved /\ SucceededIsComplete
    /\ \A j \in Jobs : JobInv(j)
    /\ \A o \in Observers : ObserverInv(o)

\* What is deleted is decided by a result that still stands: a review cleans up
\* after its own write, and a listed row that is uncertain was listed so.
ResultInv ==
    /\ \A j \in Jobs :
        /\ row[j].status # "none" => row[j].res # {}
        /\ review[j] = "cleaning" => ~Uncertain(j)
    /\ \A o \in Observers :
        obs[o].pc = "clean" /\ Uncertain(obs[o].job) =>
            obs[o].snap.status = "failed" /\ obs[o].snap.outcome = "recovery_required"

JobsInv == WorkInv /\ ResultInv

(* Every job comes to a durable result, except a direct request whose own  *)
(* final write was lost: that one waits for the next startup.              *)
JobSettles ==
    <>[]web => \A j \in Jobs :
        Running(j) ~> Terminal(j) \/ (sub[j] = "lost" /\ Engine(j) /\ row[j].worker = "")

(* An exited worker container does not stay behind a settled job.          *)
WorkerIsRemoved ==
    <>[]web => \A j \in Jobs : Terminal(j) /\ proc[j] = "exited" ~> proc[j] = "absent"

(* deployment.go:337, "CleanupDeployment is retried by the observer after  *)
(* a terminal worker exits": when the row says cleanup is over and no      *)
(* review is under way, the images are gone or the failure is reported.    *)
CleanupIsRetried ==
    \A j \in Jobs :
        row[j].cleaned /\ Terminal(j) /\ ~Uncertain(j) /\ review[j] = "no"
        /\ row[j].route = "managed" /\ retained[j] => row[j].cleanupError

(* Operation-Jobs.md:23, "A live worker or child Compose helper retains    *)
(* ownership", and :35, "Acknowledgement fails while a worker/helper is     *)
(* active": while any helper of a job runs, the job reserves its target.   *)
HelperRetainsOwnership == \A j \in Jobs : helper[j] \/ unlabelled[j] => Active(j)

(* The reservations of a running Yard behave as the abstract module says.  *)
Promise == INSTANCE Reservations WITH
    Ops <- Jobs, None <- NoJob, holder <- lock,
    acting <- {j \in Jobs : Touching(j) /\ ~Stray(j)},
    left <- {j \in Jobs : Stray(j)},
    spent <- {j \in Jobs : Terminal(j) /\ ~Active(j)}
ReservationsImplemented == Promise!Spec
=============================================================================
