----------------------------- MODULE ComposeWork -----------------------------
(* What the two kinds of Compose deployment of internal/managed share: the  *)
(* job row with its private journal, the containers of the project, its     *)
(* host files and saved metadata, the helper containers that run Compose    *)
(* and the file script, the images retained for rollback, and the rollback  *)
(* of containers to their inspected state (recreate.RestoreOperationRuntime).*)
EXTENDS Integers, FiniteSets

CONSTANTS
    Services,     \* the services any version of the project has
    Files,        \* compose.yml, .env and the other env files
    Plans,        \* the deployments that are requested
    MaxDisturbed  \* how many containers and files the host changes by itself

VARIABLES
    plan,       \* the deployment and the project it found, as resolved
    row,        \* the job row with its journal (deploymentSnapshot, fileDeployment)
    worker,     \* the worker: its program counter, verdict, what is left to do, and
                \* whether its rollback began without its stage on the row (history)
    runtime,    \* the containers of each service
    files,      \* the host files
    saved,      \* the metadata of the project: of the old source or the new one
    tags,       \* the services whose previous image has its rollback references
    helper,     \* the helper container at work
    observer,   \* the web process completing a job whose worker is gone
    snapshot,   \* the SQLite snapshot of a deployment that replaces Yard itself
    disturbed   \* services and files the host changed since the request

vars == <<plan, row, worker, runtime, files, saved, tags, helper, observer,
          snapshot, disturbed>>
host == <<runtime, files>>

ASSUME SizesAssumption == IsFiniteSet(Services) /\ IsFiniteSet(Files)
ASSUME NamesAssumption == Services \cap Files = {}
ASSUME MaxDisturbedAssumption == MaxDisturbed \in Nat

Operations == {"new", "sync", "update", "recreate", "pull"}
Stages == {"queued", "preparing", "pulling", "writing_files", "replacing", "verifying",
           "committing_files", "committing", "rolling_back"}
Outcomes == {"", "verified", "reconciled", "unchanged", "skipped", "cached", "failed",
             "rolled_back", "recovery_required", "recovery_acknowledged"}
Steps == {"none", "preparing", "checking", "retain", "tag", "pulling", "identify",
          "candidate", "writing_files", "replacing", "journal_backup", "stop", "backup",
          "applying", "starting", "verifying", "verify", "committing_files",
          "committing", "commit", "rolling", "stop_all", "restore_database",
          "restoring_files", "removing", "recreating", "previous", "recording", "gone"}
States == {"none", "down", "up"}

(* Which deployments the code admits.  Only a saved source can be new or    *)
(* synchronised, and only these two write files; a new project has no       *)
(* containers (Manager.Submit), a project of Yard's own has no saved source.*)
PlansAssumption ==
    \A p \in Plans :
        /\ p \in [route : {"saved", "files"}, operation : Operations,
                  scheduled : BOOLEAN, scoped : BOOLEAN,
                  previous : SUBSET Services, up : SUBSET Services,
                  next : SUBSET Services, image : SUBSET Services,
                  yard : SUBSET Services, edited : SUBSET Files]
        /\ p.up \subseteq p.previous
        /\ p.yard \subseteq p.previous \cap p.next
        /\ p.operation = "new" => p.previous = {}
        /\ p.operation \notin {"new", "sync"} => p.edited = {}
        /\ p.route = "saved" => p.yard = {}
        /\ p.route = "files" => p.operation \notin {"new", "sync"}
ASSUME DeploymentsAssumption == PlansAssumption

TypeOK ==
    /\ row \in [status : {"none", "running", "succeeded", "failed"}, stage : Stages,
                outcome : Outcomes, mutation : BOOLEAN, fileCommit : BOOLEAN,
                backup : BOOLEAN, retained : SUBSET Services]
    /\ worker \in [at : Steps, verdict : Outcomes, left : SUBSET Services,
                   silent : BOOLEAN]
    /\ runtime \in [Services -> [old : States, new : States, other : BOOLEAN]]
    /\ files \in [Files -> {"old", "new", "other"}]
    /\ saved \in {"old", "new"}
    /\ tags \subseteq Services
    /\ helper \in [kind : {"none", "apply", "commit", "restore"}, start : SUBSET Services,
                   checked : BOOLEAN, todo : SUBSET Files, labelled : BOOLEAN]
    /\ observer \in {"idle", "writing", "written"}
    /\ snapshot \in {"none", "taken", "restored", "removed"}
    /\ disturbed \subseteq Services \cup Files

-----------------------------------------------------------------------------
(* A plan: the route (a saved source, or the host's own files), the         *)
(* operation, the services that had containers and those of them that ran,  *)
(* the active services of the target and those whose image changes, the     *)
(* files whose content changes, Yard's own service among the targets, and   *)
(* whether one service was named.                                           *)
Saved == plan.route = "saved"
Hosted == plan.route = "files"
Initial == plan.operation = "new"
Selected == IF plan.route = "saved" THEN plan.previous ELSE plan.previous \cap plan.next
Replaced == plan.previous \cap plan.next
Self == plan.yard # {}

(* Which of the services run afterwards: `up` starts all of them, a         *)
(* deployment of host files those that ran and those that are new.          *)
Wanted == IF plan.route = "saved" THEN plan.next ELSE plan.next \ (plan.previous \ plan.up)

Inspected == [s \in Services |->
    [old |-> IF s \in plan.up THEN "up" ELSE IF s \in plan.previous THEN "down" ELSE "none",
     new |-> "none", other |-> FALSE]]

Idle == [kind |-> "none", start |-> {}, checked |-> FALSE, todo |-> {}, labelled |-> FALSE]

Init ==
    /\ plan \in Plans
    /\ row = [status |-> "none", stage |-> "queued", outcome |-> "", mutation |-> FALSE,
              fileCommit |-> FALSE, backup |-> FALSE, retained |-> {}]
    /\ worker = [at |-> "none", verdict |-> "", left |-> {}, silent |-> FALSE]
    /\ runtime = Inspected
    /\ files = [f \in Files |-> "old"]
    /\ saved = "old"
    /\ tags = {}
    /\ helper = Idle
    /\ observer = "idle"
    /\ snapshot = "none"
    /\ disturbed = {}

Goto(step) == worker' = [worker EXCEPT !.at = step]
Settle(verdict) == worker' = [worker EXCEPT !.at = "recording", !.verdict = verdict]

(* saveDeployment: the payload, then the stage, in two statements of which  *)
(* the second or both may fail; the worker then returns and leaves the row  *)
(* as it is.                                                                *)
Save(stage, journalled, next) ==
    \/ row' = [journalled EXCEPT !.stage = stage] /\ Goto(next)
    \/ row' \in {row, journalled} /\ Goto("gone")

(* finishFailure and fail: an operation whose state or helpers are not      *)
(* known is for the host to review; anything changed is rolled back, except *)
(* for an initial deployment, whose parts remain.                           *)
FailKnown == IF ~Initial /\ (row.mutation \/ row.fileCommit) THEN Goto("rolling")
             ELSE Settle("failed")
Fail == Settle("recovery_required") \/ (helper.kind = "none" /\ FailKnown)

NotRestored == Settle("recovery_required")

RuntimeUnchanged == runtime = Inspected

(* hostProjectFiles "check" and "verified"; an unedited file is the same in *)
(* both versions.                                                           *)
FilesAre(version) ==
    \A f \in Files : files[f] = IF f \in plan.edited THEN version ELSE "old"

(* unchangedImages: a service has containers of the target image and no     *)
(* other; an old container whose image does not change passes too.          *)
HasTarget(s) ==
    /\ ~runtime[s].other
    /\ \/ runtime[s].new # "none" /\ runtime[s].old = "none"
       \/ runtime[s].old # "none" /\ runtime[s].new = "none" /\ s \notin plan.image

HasPrevious(s) == ~runtime[s].other /\ runtime[s].old # "none" /\ runtime[s].new = "none"

(* verifyReadiness: what is expected to run does, and nothing else of it.   *)
Up(s) == "up" \in {runtime[s].old, runtime[s].new}
Ready(services) == \A s \in services : Up(s) /\ ~runtime[s].other

PeersUnchanged == \A s \in Services \ plan.next : runtime[s] = Inspected[s]

-----------------------------------------------------------------------------
(* retainDeploymentImages: each reference is journalled before it is made,  *)
(* and its answer may be lost.  An image's two references are one here.     *)
JournalTag ==
    /\ worker.at = "retain"
    /\ IF worker.left = {} THEN /\ Goto(IF plan.operation = "recreate" THEN "identify"
                                        ELSE "pulling")
                                /\ UNCHANGED row
       ELSE \E s \in worker.left :
                Save("preparing", [row EXCEPT !.retained = @ \cup {s}], "tag")
    /\ UNCHANGED <<plan, host, saved, tags, helper, observer, snapshot, disturbed>>

TagImage ==
    /\ worker.at = "tag"
    /\ LET s == CHOOSE s \in worker.left : s \in row.retained
       IN \/ /\ tags' = tags \cup {s}
             /\ worker' = [worker EXCEPT !.at = "retain", !.left = @ \ {s}]
          \/ tags' \in {tags, tags \cup {s}} /\ Fail
    /\ UNCHANGED <<plan, row, host, saved, helper, observer, snapshot, disturbed>>

Settled == row.status \in {"succeeded", "failed"}

\* Mutant: only a success is cleaned up.
CleanupTagOfSuccess(s) ==
    /\ row.status = "succeeded"
    /\ s \in tags \cap row.retained
    /\ tags' = tags \ {s}
    /\ UNCHANGED <<plan, row, worker, host, saved, helper, observer, snapshot, disturbed>>

(* CleanupDeployment, by the worker after its result and by the observer    *)
(* until it succeeds.                                                       *)
CleanupTag(s) ==
    /\ Settled /\ row.outcome # "recovery_required"
    /\ s \in tags \cap row.retained
    /\ tags' = tags \ {s}
    /\ UNCHANGED <<plan, row, worker, host, saved, helper, observer, snapshot, disturbed>>

CleanupSnapshot ==
    /\ Settled /\ row.outcome # "recovery_required"
    /\ row.backup /\ snapshot = "taken"
    /\ snapshot' = "removed"
    /\ UNCHANGED <<plan, row, worker, host, saved, tags, helper, observer, disturbed>>

-----------------------------------------------------------------------------
(* runResolvedCompose and hostProjectFiles: a helper container that outlives*)
(* the process which waits for it.  Only a worker's helpers carry the label *)
(* of the job.                                                              *)
Compose(start) == [Idle EXCEPT !.kind = "apply", !.start = start, !.labelled = TRUE]
Script(mode, labelled) ==
    [Idle EXCEPT !.kind = mode, !.todo = Files, !.labelled = labelled]

(* Compose replaces the containers of the target's services (each carries   *)
(* the label of this operation, so each differs) and starts those asked for.*)
ApplyService(s) ==
    /\ helper.kind = "apply"
    /\ s \in plan.next
    /\ \/ runtime[s].old # "none" /\ runtime' = [runtime EXCEPT ![s].old = "none"]
       \/ /\ runtime[s].old = "none" /\ runtime[s].new = "none"
          /\ runtime' = [runtime EXCEPT ![s].new = "down"]
       \/ /\ s \in helper.start \ disturbed /\ runtime[s].new = "down"
          /\ runtime' = [runtime EXCEPT ![s].new = "up"]
    /\ UNCHANGED <<plan, row, worker, files, saved, tags, helper, observer, snapshot,
                   disturbed>>

Applied ==
    \A s \in plan.next :
        /\ runtime[s].old = "none" /\ runtime[s].new # "none"
        /\ s \in helper.start \ disturbed => runtime[s].new = "up"

(* The script compares every file before it writes the first: a commit      *)
(* needs the old version, a restore either of the two.                      *)
Comparable == IF helper.kind = "commit" THEN FilesAre("old")
              ELSE \A f \in Files : files[f] # "other"

CompareFiles ==
    /\ helper.kind \in {"commit", "restore"} /\ ~helper.checked
    /\ Comparable
    /\ helper' = [helper EXCEPT !.checked = TRUE]
    /\ UNCHANGED <<plan, row, worker, host, saved, tags, observer, snapshot, disturbed>>

WriteFile(f) ==
    /\ helper.checked
    /\ f \in helper.todo
    /\ files' = [files EXCEPT ![f] = IF helper.kind = "commit" /\ f \in plan.edited
                                     THEN "new" ELSE "old"]
    /\ helper' = [helper EXCEPT !.todo = @ \ {f}]
    /\ UNCHANGED <<plan, row, worker, runtime, saved, tags, observer, snapshot, disturbed>>

(* The process that waits for the helper, if it still does, goes on.        *)
Waiting == {"writing_files", "applying", "starting", "committing_files", "restoring_files"}
AfterHelper ==
    CASE worker.at = "writing_files" -> "replacing"
      [] worker.at \in {"applying", "starting"} -> "verifying"
      [] worker.at = "committing_files" -> "committing"
      [] OTHER -> "removing"

HelperDone == IF helper.kind = "apply" THEN Applied ELSE helper.checked /\ helper.todo = {}

(* The containers of a file deployment are created first; those that are to *)
(* run are started by a second command.                                     *)
StartsLater == worker.at = "applying" /\ plan.route = "files" /\ Wanted # {}
StartCreated ==
    /\ helper.kind = "apply" /\ HelperDone
    /\ StartsLater
    /\ helper' = Compose(Wanted) /\ Goto("starting")
    /\ UNCHANGED <<plan, row, host, saved, tags, observer, snapshot, disturbed>>

HelperSucceeds ==
    /\ helper.kind # "none" /\ HelperDone
    /\ ~StartsLater
    /\ helper' = Idle
    /\ IF helper.labelled /\ worker.at \in Waiting THEN Goto(AfterHelper) ELSE UNCHANGED worker
    /\ observer' = IF ~helper.labelled /\ observer = "writing" THEN "written" ELSE observer
    /\ UNCHANGED <<plan, row, host, saved, tags, snapshot, disturbed>>

(* It fails, or is removed, at any point.  An interrupted initial file      *)
(* commit is for the host to review.                                        *)
HelperFails ==
    /\ helper.kind # "none"
    /\ helper' = Idle
    /\ IF ~helper.labelled \/ worker.at \notin Waiting THEN UNCHANGED worker
       ELSE IF worker.at \in {"writing_files", "restoring_files"} THEN NotRestored
       ELSE Settle("recovery_required") \/ FailKnown
    /\ observer' = IF helper.labelled THEN observer ELSE "idle"
    /\ UNCHANGED <<plan, row, host, saved, tags, snapshot, disturbed>>

(* The deadline passes while the helper works on: jobs.State sees it.       *)
WorkerGivesUp ==
    /\ worker.at \in Waiting /\ helper.labelled
    /\ Settle("recovery_required")
    /\ UNCHANGED <<plan, row, host, saved, tags, helper, observer, snapshot, disturbed>>
=============================================================================
