# NoX Yard: TLA+ models, checks and proofs

NoX Yard manages one Docker Engine from a web service: it starts, stops,
updates and removes containers and Compose projects, updates itself, and checks
for updates once a day. Every mutation is a *durable job*: a row in SQLite, a
set of resource reservations, and, for the longer ones, an independent worker
container. This directory models that core, checks it with TLC and proves its
main invariants with TLAPS.

Paths below are relative to `src/`; line numbers are in `PROJECT.json`, whose
`map` names the code behind every definition.

## 1. Inventory

| component | state | operations | hard part |
|---|---|---|---|
| job store, `internal/store/jobs.go` | `operation_jobs`, `operation_locks` | create, register worker, claim, progress, retarget, finish, review, cleanup marks | five kinds of writers race for one row; locks must follow the row |
| worker launch and observer, `internal/jobs` | Docker containers and their labels | `Launch`, `ValidateWorker`, `State`, `Observe`, `Reconcile`, `Acknowledge` | Docker answers that do not tell what happened, workers that start late, helpers that outlive their worker, snapshots of rows used later |
| facade, `internal/application` | none of its own | direct operations, review, startup settlement, schedule edits and runs | a request that dies between two writes |
| lifecycle, `internal/lifecycle`, `internal/managed/lifecycle_files.go` | Docker | group actions, removal, restart of Yard itself | the process that runs the operation is the one being restarted; a confirmed removal meets a host that changed |
| managed deployment, `internal/managed` | project files, journals, retained images, a copy of Yard's database | deploy, sync, update, recreate, pull, rollback, reconcile, cleanup | file, Docker and database commits in different steps; helper containers that outlive the worker |
| Engine replacement, `internal/recreate` | originals, replacements, journal | submit, execute, rollback, reconcile, cleanup | partial multi-container replacement |
| schedules, `internal/store/schedules.go`, `internal/schedule`, `internal/application/schedules.go` | `project_schedules`, `schedule_occurrences` | tick, claim, skip, defer, coalesce, edit, failed-set fence | civil dates, time and timezone changes, rows read long before they are written |
| self-update, `internal/selfupdate`, `internal/store/self_update.go` | settings, jobs, SQLite snapshot | check, launch, worker, rollback, reconcile | the database itself is rolled back |
| inventory, `internal/inventory` | read model, metrics, notifier | refresh, subscribe | coalesced notifications, streams |
| adapters, `internal/httpapi`, `internal/mcpapi`, `internal/auth`, `internal/machineauth` | sessions, grants | request handling | session-bound streams |
| helpers, `internal/composeorder`, `internal/imageidentity`, `internal/logexport`, `internal/yardrelease` | none | pure functions, I/O | |
| wiring, `cmd/nox-yard`; `web`, `deploy`, `scripts`, `third_party` | none | start and stop | |

How they interact: adapters call the facade; the facade and the managers admit
jobs (`CreateJob`) and launch workers (`Launch`); a worker is another process
on the same SQLite file and Docker socket; the observer loop reads rows and
Docker and writes results for workers that disappeared; the scheduler's loop
runs an observer pass, then admits at most one automatic job; the host's
administrator reviews uncertain results through the facade.

What makes it correct, component by component:

- *jobs*: reservations belong exactly to the active jobs; no worker, labelled
  helper or request changes a target without its reservation; results are
  truthful and final; every job settles; a worker container is removed after,
  and only after, its job.
- *review and cleanup*: what an administrator needs is kept until the review
  and removed, or reported, after it.
- *schedules*: one check per civil date, one automatic worker at a time, no
  automatic replacement by an image set that failed, rows that show what
  happened, no due check forgotten.
- *every replacement* (Engine calls, Compose, Yard itself): success is recorded
  only with the new containers, files and data complete, failure without review
  only with all of the old ones back, and what is needed to go back is kept
  until one of the two is durable. This is the module `Replacement`.
- *replacement and deployment workers*: the journal on the job row is ahead of
  Docker and of the files; containers start after what they depend on; an
  original and its replacement never run at once; nothing is replayed.
- *self-update*: while Yard is stopped or replaced only its worker ends the job;
  the database is copied and put back only while no Yard runs on it; what a
  worker reports is true; a release that failed is not tried again.
- *lifecycle*: only confirmed and unused things are deleted; a recorded success
  is true of the host.

## 2. Modules

| module | what it is |
|---|---|
| `Reservations` | abstract: what a reservation promises, without rows, workers or recovery |
| `OperationJobs` | jobs, web goroutines, workers, helpers, observers, review, web restarts; instantiates `Reservations` |
| `OperationJobsProofs` | the inductive invariant of `OperationJobs` and the theorems |
| `ProjectScheduler` | schedules, occurrences, the tick, automatic and manual updates as the schedule sees them |
| `ProjectSchedulerProofs` | the inductive invariant of `ProjectScheduler` and the theorems |
| `Replacement` | abstract: what every replacement promises |
| `ComposeOrder`, `ComposeOrderProofs` | `internal/composeorder` and the assessment of dependency labels, with a reference definition; that the two agree |
| `EngineReplacement`, `EngineReplacementProofs` | the worker of `internal/recreate`; extends `ComposeOrder`, implements `Replacement`, by proof |
| `ComposeWork` | what both kinds of Compose deployment share: row, containers, files, helpers, retained images |
| `SourceDeployment`, `FileDeployment` | the routes of the worker: a saved source (`deploy`), the host's own files (`executeFileDeployment`) |
| `ManagedDeployment`, `ManagedDeploymentProofs` | composes the two routes with rollback, result, observer and host; implements `Replacement`, by proof |
| `SelfUpdate`, `SelfUpdateProofs` | the update of Yard without host files; implements `Replacement`, by proof |
| `ProjectLifecycle`, `ProjectLifecycleProofs` | start, stop, restart and removal, by request and by worker; extends `ComposeOrder` |
| `MC...` | the values of the constants for TLC, one module per specification |

`OperationJobs` sees a target as untouched, partial or complete and every
worker alike; the modules of one worker (`EngineReplacement`,
`ManagedDeployment`, `SelfUpdate`, `ProjectLifecycle`) begin where the worker
was launched, keep of the row what that worker and its observer go by, and rely
on `OperationJobs` for the rest: one worker per row, and no observer or review
that ends a job whose worker or labelled helper is alive.

### OperationJobs

One step is one SQLite transaction or one Docker call, so every interleaving of
processes that the code permits is a behaviour.

| variable | code |
|---|---|
| `row`, `lock` | the columns of `operation_jobs` that guards read; `operation_locks` |
| `sub[j]` | the program counter of the web goroutine that submits and launches j |
| `proc[j]`, `helper[j]` | the worker container (absent, created, its phases, exited) and its child Compose container, labelled with the job |
| `unlabelled[j]` | the Compose container of a direct request, which no label ties to the job |
| `target[j]` | untouched, partial or complete: all that verification and rollback tell apart |
| `retained[j]` | rollback images (managed) or renamed originals (recreate) |
| `young[j]` | the 30 s launch grace |
| `obs[o]`, `review[j]`, `web` | `Observer.Reconcile` at work on a row it listed before; `Observer.Acknowledge`; the web process |

A job takes one of four *routes*: `direct` (start, stop, pull, remove: the
request does it), `restart` (a direct group action that ends by handing Yard's
own restart to a worker), `managed` (Compose worker) and `recreate` (Engine
replacement worker).

Decisions a reader should know:

- The ownership token is left out: each job has its own and every caller
  presents the token of the job it works on, so it never decides a CAS.
- `Launch` is four steps. `ContainerCreate` and `ContainerStart` may fail after
  having taken effect. `ErrLaunchUncertain` leaves the row to the observer
  (`enqueue`, `Action`), except that `recreate.Submit` records it as uncertain.
- An observer keeps only the fields of the listed row that it goes by later.
  For uncertain rows in the active list `Observe` does nothing, so they are not
  listed.
- A stop of the web process ends all its goroutines between two steps; a
  `restart` worker stops it by its own mutation. Startup settlement runs before
  the observer and before requests.
- A direct request on a project with files runs Compose in a container of its
  own too (`LifecycleFiles`, `PullFiles`, `PullServiceFiles`, by
  `runResolvedCompose`). The web process has no `NOX_JOB_ID`, so this container
  has no job label: `State` and the review do not see it, and it goes on when
  the request is cancelled, which kills only the CLI, or when Yard stops.
  `FinishDirect` then may record a plain failure, which frees the resources, for
  `runResolvedCompose` does not wrap the context's error. Such a leftover is a
  `Stray`; the properties of section 1 say of strays exactly what the code
  gives, and the run `jobs_direct_helper` what it does not (section 5, item 4).
  A request that holds Yard itself (`restart`) goes through the Engine, without
  Compose.
- A database error ends a direct request (`StorageFails`, goroutine `lost`);
  a worker's lost write is handled by its caller: it exits, except that a failed
  `CommitManagedJob` and a failed `RetargetJob` take the failure path.
- `rolled_back` is written `failed`, `skipped` and `cached` are written
  `unchanged`: no guard tells them apart.
- The helper container that only pulls images is left out: it changes no target
  and keeps the job alive like the one that is modelled.
- Self-update jobs keep to their own protocol; the observer skips them and so
  does this module.

### ProjectScheduler

Time is a counter, a day has `DayLength` instants, civil time is the clock plus
a zone that changes only at a restart; `SlotAt`, `NextAt` and the civil date are
computed as in the code, without DST. A row of the due list is carried from
`ListDue` through assessment, admission, launch and coalescing, one statement a
step, while edits, manual jobs, workers and restarts go on. An assessment may
refuse for any reason. A job's reservation is its active row, which
`OperationJobs` shows to be exact. The job of a skipped check is terminal from
the start and is not kept; the row then names no job. Workers are reduced to
the places where they read or write a schedule: enabled before the pull, the
candidate after the pull, again before the replacement, retargeting, and the
final write. `reconciled` is merged with `verified`. Database errors inside a
tick end it as a restart does.

### Replacement, and the modules that implement it

`Replacement` has three variables: what the Engine holds (the original, a
mixture, the replacement), whether the original can still be put back, and the
result on the row. Only two steps write a result without review, and each names
the state of the target it needs. Three modules implement it, each with its own
reading of "original", `EngineReplacement` as `Promise!Spec`, the other two up
to named steps at which the code breaks it (section 5, items 3, 5, 10 to 12):
containers with name, networks and running state (`EngineReplacement`);
containers, host files and saved metadata (`ManagedDeployment`); the container
that runs and the database it runs on (`SelfUpdate`).

### ComposeOrder and EngineReplacement

`Labels` is the depth-first visit of `order.go`: `Visit` is the closure, a
recursive function of a container and the state of the walk (what is being
visited, the order so far, whether there was an error), `InTurn` its loops. The
containers that one label names are taken by number and not in the label's own
sequence, which changes the order that comes out but not what is said of it.
`Reaches` (the least set closed under dependencies), `Orderable` and
`StartOrder` are what it is checked against. `Assessed`, `Supported`, `Isolated`
are the refusals of a preview.

In `EngineReplacement` the worker has the journal in memory and the row has the
journal that was saved; a save is two statements (payload, stage), of which the
second or both may fail. One action is one Engine call on one container: stop,
rename to the backup name, disconnect, create, record the new ID, extend the
reservation, start, await. A call may fail with or without effect; the worker
may be killed at any step; the host may start or stop containers
(`disturbed`), after which the properties ask less of those containers only.
Rollback removes replacements in reverse order, then restores name, networks
and running state in order. The settings of a container (mounts, capabilities)
are one bit: supported or not.

### ManagedDeployment

`row.mutation`, `row.fileCommit`, `row.backup`, `row.retained` are the journal
(`deploymentSnapshot`, `fileDeployment`, `fileJob`). A service has an old and a
new container, or a stranger's. A *helper* is a container that runs Compose or
the file script; it goes on when its worker gave up or died. The file script
compares all files before it writes the first, so a commit starts from the old
version or does nothing. `observer` is the web process that finishes the file
commit of a complete deployment (`reconcileDeployment`): the only thing a
reconciliation ever repeats. A deployment of host files leaves the files as
they are; when Yard is among its containers it stops them, copies the database
and puts the copy back before the old containers.

Decisions: an initial deployment is not rolled back by the code, its parts stay
(`ResultOf` therefore counts a failed one that had begun as one to look at);
the two rollback references of an image are one; `pull` has the outcome
`cached`; the two-minute readiness check is one action whose result depends on
what runs then. `PlansAssumption` lists what the code admits: only a saved
source can be new or synchronised and only these two edit files, a new project
has no containers, Yard's own project has no saved source. A deployment that
changes nothing (no service, no file) is at once the original and the
replacement; `Promise` then reads it as the original until success is recorded.
An admission that fails may have saved the metadata of a new project, which has
no original metadata to keep. The write of the stage `rolling_back` may fail, as
its error is ignored; `worker.silent` is the history of that, and a job that is
then recorded as reconciled is `Misled` (section 5, item 5). Where Yard is
deployed beside running containers outside the active services, `PeersKept`
asks nothing of those (item 9).

### SelfUpdate

`check` creates the row, pulls, launches the worker; the worker renames and
stops the original, copies the database, creates and starts the candidate,
waits for its healthcheck, records, removes the original and the copy, or goes
back. `database` tells whose data the file holds: starting the candidate makes
it the candidate's, and only the copy brings the original's back. `web` is
whatever web process runs, in either container; `web.alone` is the job whose
worker `reconcileInterruptedJob` did not find, and on which it acts two Engine
calls later. It does so beside a daily check, which runs on another goroutine
and holds no lock that the reconciler takes; a manual check runs in the
reconciler's own loop. `faults` counts killed workers, restarted web processes,
exits of the candidate and calls of a rollback that fail; calls on the way
forward may fail at will.

A rollback tries each step whatever became of those before it. A forced removal
that fails may have left the candidate running: the database file is then put
back under it (`detached`), it goes on with the file that it had open, and it
takes the restored one when its process restarts. A worker remembers each
failure (`worker.failed`) and asks for a review if its store is open.

`mishaps` is a history variable: it names what went wrong during the update that
the row does not tell. "raced": a reconciler ended the job after the worker had
looked at it for the last time. "unreported": a worker whose rollback had failed
ended without recording it. "retaken": a candidate that could not be removed
restarted on the restored database. `PromiseKept` holds up to the first of them
(section 5, items 3, 10, 11 and 12); every other property holds regardless.

Assumed of the Engine: two Yards do not run at once, because both publish the
same ports of the host (`compose.yaml`, and `replacementConfig` keeps the host
configuration); a worker whose start was answered by an error has started by
then or never does, and a removal that was answered by an error has had its
effect by then or never has; a worker that exits is removed (`AutoRemove`). A
bound: a check starts only after the worker of the job before it has ended.

### ProjectLifecycle

A removal plan is a verdict for every container, volume, network and image
(remove, used by a container, not owned, not verified, not selected). It is
computed for the preview, again at the request, and again under the lock; the
fingerprint is the plan itself. Containers are stopped, deleted, deleted by
force; a resource is deleted after a look at every container of the host. The
other operations take the Compose helper or, without files or with Yard in the
project, containers one by one in dependency order. `Expire` is the deadline:
no further call is answered. The host creates, starts, stops and removes
containers and edits the source meanwhile. Yard's own restart comes last and is
handed to a worker by a direct request only: in a managed worker
`launchSelfRestart` always refuses, because that worker is itself a running
helper of Yard (`isHelper`), which the worker counts as a failure. Containers
and resources are numbers because the plan is sorted (`InOrder`).
`RequestsAssumption` lists what a request and its host are: Yard's own
containers run, for Yard takes the request.

## 3. Runs

All runs use `Spec` or `FairSpec` without constraint or view. Deadlock is
checked in the runs of `OperationJobs` and `ProjectScheduler`; the other
modules follow a bounded number of jobs until they are over, and may stop
there, which their configurations say.

| run | instance | shows |
|---|---|---|
| `jobs_safety` | two jobs (one with every route, one direct), two resources, one observer | reservations exact and exclusive, no late mutation but by a stray helper, truthful and final results, cleanup and review in order, `Reservations` implemented |
| `jobs_liveness` | one job with every route, two observers, fairness | the inductive invariant; every job settles; exited workers are removed |
| `sched_admission` | a standalone container and Yard itself, two jobs, two image sets, manual updates and removal, one edit or restart | the inductive invariant; one automatic worker; the fence; rows mirror their job |
| `sched_calendar` | one file-backed schedule, days of two instants, two zones, two edits, restarts or clock steps, fairness | one check per civil date; due checks are attempted |
| `replacement` | all projects of three containers in two or three services are ordered; seven are replaced, with two containers disturbed by the host | the inductive invariant; the order is a start order exactly when there is one; journal ahead; one of original and replacement runs; dependencies first; `Replacement` implemented |
| `deployment` | fifteen plans over two services and two files, two disturbances, fairness | the inductive invariant; journal ahead; database copied in its window; nothing replayed; `Replacement` implemented unless `Misled`; every job settles and retained images are released |
| `self_update` | two releases, three updates, two faults, fairness | the inductive invariant; `Replacement` implemented up to a mishap; the four properties of section 1; settlement |
| `lifecycle` | four containers, four resources, 42 requests, two changes by the host | the inductive invariant; only confirmed and unused things are deleted; success is true |
| `jobs_cleanup`, `jobs_direct_helper`, `sched_starved`, `self_update_overlap` | the smallest instance that shows the disagreement | section 5 |

Why these bounds are enough. The properties of jobs relate at most two jobs that
share a resource; only one of them needs a worker for every contention of a
worker with somebody else, since every action reads and writes one job. A
second resource lets `RetargetJob` meet a free and a taken one. The observers
never read each other's state; two are used where two of them can meet on one
row. The scheduler's properties relate one job in progress with the next one,
and one key with another that competes for the single automatic slot. A day of
two instants has a slot before and after the clock, the clock reaches the third
civil date, and two events allow a change and its reversal. Bounds: `MaxTime`,
`MaxEvents`, `Jobs` (ids are used once).

Three containers have every shape of dependency that the order treats
differently: a chain, a fork, a cycle, replicas behind one service, an
external dependency in the middle of a chain, a one-shot. The seven replaced
projects have one for each branch of the worker (see `MCEngineReplacement`).
Two services let one be complete while the other is not; two files let a
commit be half done; each plan of `MCManagedDeployment` is a case that the code
treats in its own way. Two disturbances (`MaxDisturbed`) let the host undo what
it did or touch both sides. Two releases and three updates let a failed release
be tried, refused, lifted and tried again; two faults let a worker die, or a web
process restart, after a call of its rollback has failed. Four containers are two of the
project, one that joins it later, and one of somebody else.

Some properties exempt a case in which the code does otherwise: `Stray`, `Misled`,
the three `mishaps`, the peers that `PeersKept` leaves out. No constant switches
these cases off: they happen in the passing runs, and without any one of the
exemptions TLC finds the property violated there. Section 5 says what each is.

Symmetry is used on resources, jobs and image sets in runs of invariants and
step properties only, never in a run with a liveness property.

Fairness. Request handlers and startup run on; a worker's context carries the
job's deadline, so it exits, and a helper ends; the observer lists every row
again on each pass, which is strong fairness of listing a row that is listable
again and again, and finishes the step it is at; the scheduler ticks every
minute. Nothing is assumed about the success of a worker, a review, a new
request, an edit or the clock. `JobSettles` and `WorkerIsRemoved` further
assume that the web process is up from some time on. A deployment's worker,
helper and cleanup go on, and the web process looks again on every pass; no
fairness makes a helper succeed, a call be answered or a host hold still. In
`SelfUpdate` the submitter and the worker go on, the minute's ticker looks, and
a healthcheck that is starting ends in healthy or unhealthy (the Engine's
retries are bounded). `EverythingSettles` leaves out a deployment of Yard's own
host files whose worker died with Yard stopped, `UpdateSettles` an update that
left no Yard running: nobody is there to record a result.

## 4. Proofs

`OperationJobsProofs` is about every value of the constants allowed by
`ConstantsAssumption`: `NoJob` is no job, scopes are nonempty sets of
resources, each id has a set of routes.

`JobsInv` is `WorkInv`, what is so while somebody works for a job, and
`ResultInv`, what a result that was written implies for those who clean up; the
second is inductive relative to the first.

`ReservationsExact`, `WorkIsReserved` and `SucceededIsComplete` are not
inductive. The unlabelled helper of a direct request adds one part: it belongs
to a request that has no worker and has not succeeded, so that a success that
was recorded stays true. A container that is created late and then claims its job is harmless
only because the claim needs a running row and a settlement needs the worker
gone; an observer that verified a target is right only if that worker cannot
come back. `JobsInv` adds exactly that: which phases of the worker are possible
while its launch is in progress (`~LaunchOver`), that rows at `verifying` or
`committing` are past their launch, that helpers run only in the phases that
start them, that a reviewed job's worker is past its claim, and, for each
observer, what the row it carries has become since it was listed
(`ObserverInv`: gone workers stay gone, a verified target stays complete).

The proof follows the shape of the system. An action works on one job, so each
`...Keeps` lemma shows that the other jobs are `Same`, that its own is still
`Sound`, and that an observer watching it may go on (`WatchSame`); `JobStep`,
`ObserverStep` and `SettleStep` combine these into `WorkInv'`. Effects of the
store's transactions (`FinishJobEffect`, `JobProgressEffect`,
`SetJobWorkerEffect`) are stated once. `TargetExclusive` follows from
`ReservationsExact` and `WorkIsReserved`; `NoLateMutation` and
`TerminalIsFinal` are step properties proved from `JobsInv`.

What the observer deletes is proved from the same invariant. `CleanupSparesWorkers`:
what it removes belongs to a job whose worker and helper are over, although it
looked at the worker one Engine call earlier. `ReviewFindsRetained`: what an
uncertain job retained is there when it is reviewed; this needs `ResultInv`,
because a cleanup pass deletes by the row it listed, which may be older than
the result. `ReservationsAreImplemented` takes every action to a step or a
stutter of `Reservations`: a job at work there is one that holds its resources
here, a transaction that ends it releases them, and nothing touches a target
in between that `WorkIsReserved` does not allow. A stray helper is what the
contract calls `left`: only an operation at work leaves something behind, when
it gives its reservation up, and nothing is left behind later.

`EngineReplacementProofs` is about every value of the constants allowed by
`ProjectsAssumption` (containers are finitely many and numbered, the replaced
ones are among them, a confirmed project has some to replace), and any number
of containers disturbed by the host.
`ReplacementInv` falls in two. `Core` speaks of the row and the Engine wherever
the worker is: what the row does not name is untouched, at most one replacement
is not on the row, an original and its replacement do not both run, and every
result is true. `Place` speaks of the containers before, at and after the
worker's position in the order: which are stopped, renamed, detached
(`StopPhase`), replaced (`CreatePhase`) or restored (`RestorePhase`), and which
verdict may be about to be written (`ResultPhase`). Calls are reduced to what
they leave of `Core`, then to the place the program counter enters.
`JournalIsAhead` and `NeverBothRunning` are read off `Core`; `PromiseIsKept`
maps each step to a step or a stutter of `Replacement`. `OrderIsRight`
and `StartsInOrder` rest on `ComposeOrderProofs`: the order the worker goes by
is a start order of the project that was confirmed.

`ComposeOrderProofs` is about every project with finitely many numbered
containers (`Numbered`). The recursion of `Visit` is over a walk's state, whose
order is a sequence of any length, so even that the definition has a solution is
a lemma (`SolutionExists`): a visit that goes on marks one container more than
the visit it serves, so a solution for walks with at most n containers left
(`Small`) gives one for n + 1, and no walk has more left than there are
containers. The induction is over numbers up to that bound (`Induction`), from
the fact that a nonempty finite set of counterexamples has a least one
(`Ranked`, which counts the smaller elements). With the recursion equation
(`VisitIs`) the same induction shows what a visit does (`VisitDoes`): what is
being visited is as before, the order is extended and each of its members is
behind its dependencies (`Good`), and an error means that nothing orders the
project, because every container that is being visited reaches the one that is
entered (`OnTheWay`). `LabelsAreRight`: an error exactly for a cycle or a
missing service, and otherwise all containers, dependencies first.
`ScopedOrderIsRight`: leaving out the external ones keeps the order of the
others, also of two that depend on each other only through an external one.

`ManagedDeploymentProofs` is about any finite sets of services and files, any
plans that `PlansAssumption` admits, and any number of disturbances.
`DeploymentInv` again has a `Base` that holds whatever the worker does next
(the row's journal covers what changed, a helper has the command that its step
gave it, the observer's own file commit starts from a complete deployment, the
stages `verifying` and `committing` tell the truth, and so does each result)
and a `Place` with one part per phase: preparing, stopping for the database,
applying, rolling back, about to record. Helpers are what makes it hard: one
goes on when its worker gave up or died, so `Base` has to say what a helper
that nobody waits for may still do, and a result without review is only
written when there is none. The proof has a lemma for each kind of step: one
that leaves the host alone (`Quiet`, `Proceeds`, `Saves`, `Fails`), one that
announces (`Announces`), one that moves containers (`ContainersMove`), one of a
helper (`Helped`, `HelperLeaves`), the end of a wait (`WaitEnds`), the host
(`HostActsKeeps`); then one lemma per action. `JournalTellsAll`,
`CopiedWhileStopped` and `NeverReplays` follow for every value of the
constants. So do `ReconciledIsComplete` and `PromiseIsKept`, without any
hypothesis: both say what holds whatever fails, and name the one case in which
the code does otherwise, a rollback that began without its stage on the row
(`worker.silent`; section 5, item 5). For
`PromiseIsKept` the lemma `Recalled` shows that `DeploymentInv` still tells what
was put back when the row's stage does not.

`SelfUpdateProofs` is about every value of the constants, any number of
releases, updates and faults included, and no theorem of it has a hypothesis.
`UpdateInv` (`UpdateCorrect`) carries the rest: that a failure without review
leaves the original running depends on where the worker is when it goes back,
and that on which of the containers, the database and the copy exist there. It
says so step by step: `Ahead` for the way forward, `Behind` for the rollback,
where a step that did not do what it should is remembered (`worker.failed`),
`Places` for the two containers, `Results` for what each result implies unless
a mishap happened, `Reconciling` for what a finding of the reconciler is worth:
as long as it may be acted on, the worker of that job has not stopped Yard.
`JobIsTheWorkers` is read off that: a tick beside a daily check may end the job
of a worker that has started (section 5, item 3), but of none that has stopped
Yard. `DatabaseCopiedWhileStopped` and `WorkersReportTheTruth` follow from
`Behind`; `FailureStaysFenced` from the fact that a failed row and a fence that
was not lifted name the same release. The proof has an `...Effect` lemma for
each action (what it leaves of the variables), then one lemma per part and one
step per action. `PromiseIsKept` shows that `Init` maps to `Init` and each
action to a step or a stutter of `Replacement` while `mishaps` is empty.

`ProjectSchedulerProofs` is about every value of the constants allowed by
`SchedulerAssumption`: any finite set of keys, any jobs, images, zones, length
of a day, and any number of edits, restarts and clock steps. `SchedInv` adds to
the four properties what they rest on. The fence of a key is written by
whatever job of that key finishes, so it holds up to the replacement only
because two active jobs never share a key (`OneActive`). A row that mirrors a
job is right only because it names a job that was admitted for it (`Named`) and
because an id that was drawn for a submission is still free then (`Ticking`).
A date is checked once because `claimSchedule` adds it to the consumed dates in
the same transaction (`Counted`); the civil date is computed from the tick's
own clock reading, so the proof needs no fact about the order of instants.
`WriteKeeps` (a final transaction), `StepKeeps` (a worker that goes on),
`AdmissionKeeps` and `ClaimKeeps` carry the argument; each action is one of
them, or leaves the rows of both tables alone (`SettledKeeps`).

`ProjectLifecycleProofs` is about any finite sets of numbered containers and
resources, any requests and hosts that `RequestsAssumption` admits, and any
number of changes by the host. `OnlyConfirmed` and `VerifiedIsTrue` need to know
what the worker has still to do. `LifecycleInv` says so: `Admitted` ties the
worker's place to the operation and the row; `DeletePhase` says that whatever is
left to delete was confirmed and is not Yard's, that whatever was passed is gone
or counted as failed, and that a resource about to be dropped was unused by
every container of the last look; `ReportPhase` carries that from the report
through verification and commit, past a crash, to a reconciliation by somebody
else; `OperatePhase` is the same for a group that is worked through, where a
container that was passed is in the state asked for or counted; `YardRuns` is
what keeps the worker and the Compose helper off Yard's own container. The proof
has two kinds of step: those that only move the worker or the row are reduced to
the place that is entered, and those of Docker to what they leave of `Gone` and
`Wanted` (`Evolves`). That the sorted plan has exactly the confirmed items
follows from `InOrderIs`, that an operation goes through each container of the
group from `LabelsAreRight`, whichever containers are present by then.

Only model-checked: liveness (`JobSettles`, `WorkerIsRemoved`,
`DueIsAttempted`, `EverythingSettles`, `UpdateSettles`), which is out of the
prover's reach. The inductive invariants are checked by TLC too: `JobsInv` in
`jobs_liveness`, `SchedInv` in `sched_admission`, `ReplacementInv` in
`replacement`, `DeploymentInv` in `deployment`, `UpdateInv` in `self_update` and
`LifecycleInv` in `lifecycle`.

## 5. Where code and words disagree

With a run:

1. `jobs_cleanup`: a cleanup pass that listed an uncertain row marks it cleaned,
   by id, after it was reviewed; an image cleanup that failed in the review is
   then neither retried nor reported (`internal/jobs/observer.go:93`).
2. `sched_starved`: a scheduled self-update is never marked cleaned, so the
   scheduler stays busy for ever (`internal/store/schedules.go:136`).
3. `self_update_overlap`: a daily check holds its row at `updating` from
   `CreateSelfUpdateJob` to `ContainerStart`, on the scheduler's goroutine. A
   tick of the minute's ticker that falls in between takes no lock, finds no
   worker and the old image, and fails that job, while the check starts the
   worker (`internal/selfupdate/manager.go:347`). If the worker has passed its
   last progress check by then it goes on to replace Yard: the row says that the
   original was kept, which breaks the promise of `Replacement` (the mishap
   "raced").
4. `jobs_direct_helper`: the Compose helper of a direct request has no job label
   (`internal/managed/host_compose.go:38`). When the request is cancelled its
   row fails and its resources are freed, or, after a stop of Yard, its
   uncertain result is acknowledged, while the helper still starts or stops
   containers (`internal/managed/deployment_files.go:225`).
   `Documentation/Developer/Operation-Jobs.md`, lines 23 and 35, says that a
   helper retains ownership and that no review is accepted while one is active.

Seen while modelling, without a run of their own:

5. The write of the stage `rolling_back` is not checked
   (`internal/managed/configuration_deployment.go:231`, `deployment.go:390`).
   When it and the result are lost, the row still says `verifying`, and a
   deployment that changed no image is recorded as reconciled although the
   previous containers are back: `PromiseKept` of `ManagedDeployment` fails
   without the exemption `Misled`, and `ReconciledIsComplete` proves that there
   is no other way to such a result.
6. The launch grace counts from the creation of the row, which for a group
   restart is long before the launch (`internal/jobs/workers.go:205`).
7. A manual file-backed update does not record its candidate and so does not
   clear the failed set (`internal/managed/configuration_deployment.go:334`).
8. Saving a schedule while its container is being replaced puts the old id back
   (`internal/application/schedules.go:150`).
9. Before it restores Yard's database a rollback stops every container of the
   project, those outside the active services too, and restores only the active
   ones (`internal/managed/configuration_deployment.go:242`). The run has such a
   deployment, `BesidePeer`; without the exemption in `PeersKept` it violates
   `PromiseKept`.
10. When the database cannot be put back during a self-update's rollback, or not
    be opened again, the worker's store is closed, so the failure is not
    recorded; the original is started on the candidate's data and the row later
    resolved by its image (`internal/selfupdate/worker.go:303`). The mishap is
    "unreported".
11. A self-update worker killed in the middle of a rollback that has met a
    failure reports nothing either, and the next web process goes by the image
    alone ("unreported"). One killed between its rename and its stop leaves the
    original running under the backup name, and the job is recorded as failed
    without review.
12. When the forced removal of the candidate fails, the database is put back
    under the running candidate (`internal/selfupdate/worker.go:269-276`). The
    worker asks for a review, but in the restored file; a candidate that
    restarts opens that file and writes its own data to it, and the copy is
    gone ("retaken").
13. A self-update worker whose launch is uncertain and that never started stays
    behind as a created container. One that dies between stopping Yard and
    starting its replacement leaves no process to record anything. Putting the
    database back also takes back what other jobs committed while the candidate
    was up: no job of another project survives in a file older than itself.
14. A project that holds Yard cannot be restarted by a managed worker: the
    worker is a helper of Yard that runs, and `launchSelfRestart` refuses while
    one does (`internal/lifecycle/self_restart.go:48`).

The passing scheduler run `sched_calendar` has no key of Yard's own;
`sched_admission` has one.

## 6. Not modelled, and the plan

Not modelled on purpose: parsing and resolving Compose files, formatting, DTOs,
password hashing, signature checks of releases, the browser code, vendored
code. Their state is a value that no property above depends on. The HTTP and
MCP adapters call the facade and keep only sessions and grants. Inventory and
metrics are read models; a lost notification is repaired by the next one.

Parts of modelled components that are left out: adoption of an existing project
(`internal/managed/adoption.go`); start and stop of a managed project by the
older directory route (`internal/managed/worker.go`, 201-262); the mirror of
self-update rows written by an older version (`internal/selfupdate/manager.go`,
353-365); the maintenance lock, a mutex within one process; the copy of
container settings from an inspection to a new container; daylight saving time
in the slots of the scheduler.

Next, in this order:

1. Adoption, whose staged files and metadata are committed like those of an
   initial deployment.
2. `DailySlot`: slots under daylight saving time, against a reference
   definition over a bounded calendar.
3. The due list of the scheduler with more rows than it returns at a time
   (`internal/store/schedules.go:119`).
