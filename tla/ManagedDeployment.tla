-------------------------- MODULE ManagedDeployment --------------------------
(* Deployments of Compose projects (internal/managed): the two routes of    *)
(* the worker, their common rollback and result, the observer that settles  *)
(* a job whose worker is gone, and what the host does meanwhile.            *)
EXTENDS SourceDeployment, FileDeployment

(* enqueue: the job row, for a new project its metadata, and the worker;    *)
(* saving the metadata or launching may fail.                               *)
Enqueue ==
    /\ row.status = "none"
    /\ \/ /\ row' = [row EXCEPT !.status = "running"]
          /\ saved' = IF Initial THEN "new" ELSE saved
          /\ Goto("preparing")
       \/ /\ row' = [row EXCEPT !.status = "failed", !.outcome = "failed"]
          /\ saved' = saved \/ (Initial /\ saved' = "new")
          /\ Goto("gone")
    /\ UNCHANGED <<plan, host, tags, helper, observer, snapshot, disturbed>>

AfterRolling ==
    IF row.fileCommit THEN "restoring_files"
    ELSE IF row.backup /\ snapshot = "taken" THEN "stop_all" ELSE "removing"

\* Mutant: the row keeps the stage at which the deployment failed.
BeginRollbackUnmarked ==
    /\ worker.at = "rolling"
    /\ UNCHANGED row /\ Goto(AfterRolling)
    /\ helper' = IF row.fileCommit THEN Script("restore", TRUE) ELSE helper
    /\ UNCHANGED <<plan, host, saved, tags, observer, snapshot, disturbed>>

(* An error of writing the stage is ignored, and the rollback goes on.      *)
BeginRollback ==
    /\ worker.at = "rolling"
    /\ \/ row' = [row EXCEPT !.stage = "rolling_back"] /\ Goto(AfterRolling)
       \/ UNCHANGED row /\ worker' = [worker EXCEPT !.at = AfterRolling, !.silent = TRUE]
    /\ helper' = IF row.fileCommit THEN Script("restore", TRUE) ELSE helper
    /\ UNCHANGED <<plan, host, saved, tags, observer, snapshot, disturbed>>

(* restoreRuntime lists the containers of the target's services: those of   *)
(* this operation are removed, one that nobody knows stops everything.      *)
RemoveCandidates ==
    /\ worker.at = "removing"
    /\ LET made == {s \in plan.next : runtime[s].new # "none"}
       IN \E removed \in SUBSET made :
              /\ runtime' = [s \in Services |-> IF s \in removed
                                 THEN [runtime[s] EXCEPT !.new = "none"] ELSE runtime[s]]
              /\ \/ NotRestored
                 \/ /\ removed = made /\ \A s \in plan.next : ~runtime[s].other
                    /\ worker' = [worker EXCEPT !.at = "recreating", !.left = Replaced]
    /\ UNCHANGED <<plan, row, files, saved, tags, helper, observer, snapshot, disturbed>>

\* Mutant: everything is started, whatever was inspected.
RecreateRunning ==
    /\ worker.at = "recreating"
    /\ \/ worker.left = {} /\ Goto("previous") /\ UNCHANGED runtime
       \/ \E s \in worker.left :
              \/ /\ s \in tags
                 /\ runtime' = [runtime EXCEPT ![s].old = "up"]
                 /\ worker' = [worker EXCEPT !.left = @ \ {s}]
              \/ /\ \E reached \in {runtime[s].old, "down", Inspected[s].old} :
                        runtime' = [runtime EXCEPT ![s].old = reached]
                 /\ NotRestored
    /\ UNCHANGED <<plan, row, files, saved, tags, helper, observer, snapshot, disturbed>>

(* Each is created again if it is gone, started or stopped as inspected,    *)
(* and waited for; the image is one of those retained.  Each call may fail. *)
RecreatePrevious ==
    /\ worker.at = "recreating"
    /\ \/ worker.left = {} /\ Goto("previous") /\ UNCHANGED runtime
       \/ \E s \in worker.left :
              \/ /\ s \in tags
                 /\ runtime' = [runtime EXCEPT ![s].old = Inspected[s].old]
                 /\ worker' = [worker EXCEPT !.left = @ \ {s}]
              \/ /\ \E reached \in {runtime[s].old, "down", Inspected[s].old} :
                        runtime' = [runtime EXCEPT ![s].old = reached]
                 /\ NotRestored
    /\ UNCHANGED <<plan, row, files, saved, tags, helper, observer, snapshot, disturbed>>

(* FinishJob; when the result cannot be written the row stays running.      *)
Record ==
    /\ worker.at = "recording"
    /\ row' = [row EXCEPT !.outcome = worker.verdict,
                          !.status = IF worker.verdict \in {"verified", "cached", "skipped",
                                                            "unchanged"}
                                     THEN "succeeded" ELSE "failed"]
    /\ Goto("gone")
    /\ UNCHANGED <<plan, host, saved, tags, helper, observer, snapshot, disturbed>>

(* The worker is killed or returns without a result.                        *)
WorkerDies ==
    /\ worker.at \notin {"none", "gone"}
    /\ Goto("gone")
    /\ UNCHANGED <<plan, row, host, saved, tags, helper, observer, snapshot, disturbed>>

-----------------------------------------------------------------------------
(* Observe: no worker, and no helper that bears the job's label.  A job of  *)
(* Yard's own containers is observed by whichever of them runs.             *)
WebRuns == Self => \E s \in plan.yard : Up(s)

Observe ==
    /\ WebRuns
    /\ worker.at = "gone" /\ row.status = "running"
    /\ helper.kind = "none" \/ ~helper.labelled
    /\ observer = "idle"
    /\ \/ /\ row.stage \in {"verifying", "committing"}
          /\ helper.kind = "none"
          /\ Reconcile \/ FinishFiles \/ ReconcileHosted
       \/ /\ row' = [row EXCEPT !.status = "failed", !.outcome = "recovery_required"]
          /\ UNCHANGED <<saved, helper, observer>>
    /\ UNCHANGED <<plan, worker, host, tags, snapshot, disturbed>>

(* The web process ends; the helper it waited for does not.                 *)
WebDies ==
    /\ observer # "idle"
    /\ observer' = "idle"
    /\ UNCHANGED <<plan, row, worker, host, saved, tags, helper, snapshot, disturbed>>

AcknowledgeRecovery ==
    /\ WebRuns
    /\ worker.at = "gone" /\ row.outcome = "recovery_required"
    /\ helper.kind = "none" \/ ~helper.labelled
    /\ row' = [row EXCEPT !.outcome = "recovery_acknowledged"]
    /\ UNCHANGED <<plan, worker, host, saved, tags, helper, observer, snapshot, disturbed>>

(* A container of the project exits or is started or stopped from outside,  *)
(* one is added to it, or a file is edited.                                 *)
HostActs(x) ==
    /\ row.status # "none"
    /\ Cardinality(disturbed) < MaxDisturbed /\ x \notin disturbed
    /\ disturbed' = disturbed \cup {x}
    /\ IF x \in Files THEN files' = [files EXCEPT ![x] = "other"] /\ UNCHANGED runtime
       ELSE /\ UNCHANGED files
            /\ LET flip(state) == IF state = "up" THEN "down" ELSE "up"
               IN \/ runtime[x].old # "none" /\ runtime' = [runtime EXCEPT ![x].old = flip(@)]
                  \/ runtime[x].new # "none" /\ runtime' = [runtime EXCEPT ![x].new = flip(@)]
                  \/ runtime' = [runtime EXCEPT ![x].other = TRUE]
    /\ UNCHANGED <<plan, row, worker, saved, tags, helper, observer, snapshot>>

Forward ==
    \/ Begin \/ Check \/ Pull \/ Identify \/ Candidate \/ BeginReplacing
    \/ BeginVerifying \/ Verify \/ BeginCommit \/ Commit \/ Record
    \/ CheckHosted \/ PullHosted \/ IdentifyHosted \/ BeginHosted \/ JournalBackup
    \/ StopSelected \/ Backup \/ VerifyHosted \/ JournalTag \/ TagImage
Backward ==
    \/ BeginRollback \/ StopProject \/ RestoreDatabase \/ RemoveCandidates
    \/ RecreatePrevious \/ VerifyPrevious \/ PreviousRestored
Helper ==
    \/ \E s \in Services : ApplyService(s)
    \/ CompareFiles \/ \E f \in Files : WriteFile(f)
    \/ StartCreated \/ HelperSucceeds \/ HelperFails
Cleanup == (\E s \in Services : CleanupTag(s)) \/ CleanupSnapshot
Web == Observe \/ CommitWritten

Next ==
    \/ Enqueue \/ Forward \/ Backward \/ Helper \/ Cleanup \/ Web
    \/ WorkerGivesUp \/ WorkerDies \/ WebDies \/ AcknowledgeRecovery
    \/ \E x \in Services \cup Files : HostActs(x)

Spec == Init /\ [][Next]_vars
FairSpec ==
    /\ Spec
    /\ WF_vars(Forward \/ Backward) /\ WF_vars(Helper)
    /\ WF_vars(Web) /\ WF_vars(Cleanup)

-----------------------------------------------------------------------------
(* A row whose worker is gone tells what may be different: containers only  *)
(* after the row says so, files only after it announces their commit, and   *)
(* no rollback reference or database copy without its name on the row.      *)
JournalIsAhead ==
    /\ \A s \in Services \ disturbed : runtime[s] # Inspected[s] => row.mutation
    /\ \A f \in Files \ disturbed : files[f] # "old" => row.fileCommit
    /\ tags \subseteq row.retained
    /\ snapshot = "taken" => row.backup

(* The copy of Yard's database is taken, and put back, only while no        *)
(* container of Yard runs (unless the host started one).                    *)
SnapshotWindow ==
    [][snapshot' \in {"taken", "restored"} /\ snapshot' # snapshot =>
           \A s \in plan.yard \ disturbed : ~Up(s)]_vars

(* With the worker gone nothing is replayed: the only command still issued  *)
(* is the file commit of a complete replacement none of whose files was     *)
(* written yet.                                                             *)
NothingReplayed ==
    [][worker.at = "gone" /\ helper.kind = "none" /\ helper'.kind # "none" =>
           /\ helper'.kind = "commit"
           /\ \A f \in Files \ disturbed : files[f] = "old"
           /\ \A s \in plan.next \ disturbed : HasTarget(s)]_vars

(* What the host disturbed may be up or down, and may have a stranger.      *)
AsBefore(s) == IF s \in disturbed THEN runtime[s].new = "none" ELSE runtime[s] = Inspected[s]
AsAfter(s) ==
    /\ runtime[s].old = "none" /\ runtime[s].new # "none"
    /\ s \notin disturbed => (runtime[s].new = "up") = (s \in Wanted)

AllOld == \A s \in plan.next : AsBefore(s)
AllNew == \A s \in plan.next : AsAfter(s)
PeersOld == \A s \in Services \ plan.next : AsBefore(s)
FilesOld == \A f \in Files \ disturbed : files[f] = "old"
FilesNew == \A f \in Files \ disturbed : files[f] = IF f \in plan.edited THEN "new" ELSE "old"

(* Peers that run beside Yard are stopped with it to put its database back, *)
(* and nobody starts them again.                                            *)
StopIsSafe == plan.scoped \/ plan.up \subseteq plan.next
PeersKept == (Self => StopIsSafe) => PeersOld

IsOriginal == AllOld /\ PeersKept /\ FilesOld /\ (Initial \/ saved = "old")
IsReplaced == AllNew /\ PeersKept /\ FilesNew /\ (Saved => saved = "new")

-----------------------------------------------------------------------------
(* The inductive invariant.  Rows, journal and metadata, whatever the       *)
(* worker does.                                                             *)
Recovery == {"recovery_required", "recovery_acknowledged"}
Restored == {"failed", "skipped", "cached", "unchanged", "rolled_back"}

Admitted ==
    /\ plan \in Plans
    /\ (row.status = "none") = (worker.at = "none")
    /\ worker.at \notin {"none", "gone"} => row.status = "running"
    /\ row.status \in {"none", "running"} => row.outcome = ""
    /\ saved = "new" => Initial \/ row.outcome \in {"verified", "reconciled"}

Journalled ==
    /\ ~row.mutation => AllOld /\ PeersOld
    /\ ~row.fileCommit => FilesOld
    /\ tags \subseteq row.retained
    /\ snapshot # "none" => row.backup
    /\ row.backup => Self /\ row.mutation
    /\ row.fileCommit => plan.operation \in {"new", "sync"} /\ (Initial \/ row.mutation)
    /\ row.mutation => plan.operation # "pull"
    /\ \A s \in Services \ disturbed : ~runtime[s].other
    /\ \A s \in Services \ plan.previous : runtime[s].old = "none"
    /\ PeersKept

(* A helper container, whoever waits for it: Compose works only under a     *)
(* journalled mutation, the script only under an announced commit.          *)
Helping ==
    /\ helper.kind = "apply" =>
           /\ row.mutation /\ row.stage = "replacing" /\ helper.start \subseteq Wanted
           /\ helper.labelled /\ ~helper.checked
           /\ \A s \in plan.next \ disturbed :
                  runtime[s].new = "up" => s \in helper.start
    /\ helper.kind \in {"commit", "restore"} =>
           /\ row.fileCommit
           /\ ~helper.checked => helper.todo = Files
           /\ helper.checked => \A f \in Files \ (disturbed \cup helper.todo) :
                  files[f] = IF helper.kind = "commit" /\ f \in plan.edited THEN "new" ELSE "old"
    /\ helper.kind = "none" => ~helper.checked
    /\ helper.kind # "none" /\ ~helper.labelled =>
           worker.at = "gone" /\ helper.kind = "commit" /\ row.stage = "committing_files"
    /\ helper.kind # "none" /\ helper.labelled =>
           worker.at \in Waiting \cup {"recording", "gone"}

(* The web process that finishes a commit.                                  *)
Finishing ==
    observer # "idle" =>
        /\ worker.at = "gone" /\ row.status = "running" /\ row.mutation /\ Saved
        /\ row.stage = "committing_files"
        /\ worker.silent \/ AllNew
        /\ observer = "writing" => helper.kind = "commit" /\ ~helper.labelled
        /\ observer = "written" => helper.kind = "none" /\ FilesNew

(* The way forward.                                                         *)
Preparing == {"none", "preparing", "checking", "retain", "tag", "pulling", "identify", "candidate"}
Retained == plan.operation = "pull" \/ Selected \subseteq tags
FilesFirst == IF Initial THEN FilesNew ELSE ~row.fileCommit
Unhelped == helper.kind = "none"

PreparePhase ==
    /\ worker.at \in Preparing =>
           ~row.mutation /\ ~row.fileCommit /\ ~row.backup /\ Unhelped
    /\ worker.at \in {"retain", "tag"} => Selected \ worker.left \subseteq tags
    /\ worker.at = "tag" => \E s \in worker.left : s \in row.retained
    /\ worker.at \in {"pulling", "identify", "candidate"} => Retained
    /\ worker.at = "candidate" => plan.operation # "pull"
    /\ worker.at = "writing_files" =>
           /\ Saved /\ Initial /\ ~row.mutation
           /\ helper.kind = "commit" /\ helper.labelled

StopPhase ==
    /\ worker.at = "replacing" =>
           /\ Saved /\ ~row.mutation /\ ~row.backup /\ Unhelped
           /\ plan.operation # "pull" /\ Retained /\ FilesFirst
    /\ worker.at \in {"journal_backup", "stop", "backup"} =>
           /\ Hosted /\ Self /\ row.mutation /\ row.stage = "replacing" /\ Unhelped
           /\ \A s \in plan.next : runtime[s].new = "none"
    /\ worker.at \in {"stop", "backup"} => row.backup
    /\ worker.at \in {"backup", "restore_database"} =>
           \A s \in plan.yard \ disturbed : ~Up(s)

ApplyPhase ==
    /\ worker.at \in {"applying", "starting"} =>
           row.mutation /\ helper.kind = "apply" /\ FilesFirst
    /\ worker.at = "applying" => helper.start = IF Saved THEN plan.next ELSE {}
    /\ worker.at = "starting" => Hosted /\ helper.start = Wanted
    /\ worker.at \in {"verifying", "verify"} =>
           row.mutation /\ AllNew /\ FilesFirst /\ Unhelped
    /\ worker.at = "committing_files" =>
           /\ Saved /\ row.mutation /\ AllNew
           /\ helper.kind = "commit" /\ helper.labelled
    /\ worker.at \in {"committing", "commit"} =>
           Saved /\ row.mutation /\ AllNew /\ FilesNew /\ Unhelped

(* The way back, and what a verdict claims.                                 *)
RollbackPhase ==
    /\ worker.at \in {"rolling", "stop_all", "restore_database", "restoring_files",
                       "removing", "recreating", "previous"} => ~Initial /\ row.mutation
    /\ worker.at \in {"rolling", "stop_all", "restore_database",
                       "removing", "recreating", "previous"} => Unhelped
    /\ worker.at \in {"stop_all", "restore_database", "restoring_files",
                       "removing", "recreating", "previous"} =>
           worker.silent \/ row.stage \notin {"verifying", "committing"}
    /\ worker.at = "restoring_files" => helper.kind = "restore" /\ helper.labelled
    /\ worker.at \in {"stop_all", "restore_database"} => row.backup
    /\ worker.at \in {"stop_all", "restore_database", "removing", "recreating", "previous"} =>
           FilesOld
    /\ worker.at = "recreating" =>
           /\ worker.left \subseteq Replaced
           /\ \A s \in plan.next : runtime[s].new = "none"
           /\ \A s \in plan.next \ worker.left : AsBefore(s)
    /\ worker.at = "previous" => AllOld

Truthful(verdict) ==
    /\ verdict = "verified" \/ (verdict = "reconciled" /\ ~worker.silent) =>
           AllNew /\ FilesNew
    /\ verdict \in Restored /\ ~(verdict = "failed" /\ Initial /\ row.mutation) =>
           AllOld /\ FilesOld

VerdictPhase ==
    worker.at = "recording" =>
        /\ worker.verdict \in {"verified", "recovery_required"} \cup Restored
        /\ worker.verdict = "verified" => Hosted
        /\ worker.verdict # "recovery_required" => Unhelped /\ Truthful(worker.verdict)

StageTells ==
    ~worker.silent /\ row.stage \in {"verifying", "committing"} => row.mutation /\ AllNew

Results ==
    Settled =>
        /\ row.outcome \in {"verified", "reconciled"} \cup Restored \cup Recovery
        /\ row.outcome \notin Recovery => Unhelped /\ Truthful(row.outcome)
        /\ Saved /\ row.outcome \in {"verified", "reconciled"} => saved = "new"

DeploymentInv ==
    /\ TypeOK /\ Admitted /\ Journalled /\ Helping /\ Finishing /\ StageTells /\ Results
    /\ PreparePhase /\ StopPhase /\ ApplyPhase /\ RollbackPhase /\ VerdictPhase

ResultOf ==
    CASE row.status \in {"none", "running"} -> "none"
      [] row.outcome = "failed" /\ Initial /\ row.mutation -> "review"
      [] row.outcome \in {"verified", "reconciled"} -> "replaced"
      [] row.outcome = "recovery_required" -> "review"
      [] row.outcome = "recovery_acknowledged" -> "reviewed"
      [] OTHER -> "kept_original"

Promise == INSTANCE Replacement WITH
    target <- IF IsReplaced /\ (IsOriginal => ResultOf = "replaced") THEN "replaced"
              ELSE IF IsOriginal THEN "original" ELSE "between",
    kept <- row.mutation => Selected \subseteq tags,
    result <- ResultOf

(* A deployment keeps the promise of every replacement: success means new   *)
(* containers, files and metadata together, failure without review all of   *)
(* the old ones, and the previous images are kept until one is on the row.  *)
(* Only the observer can break it, by a success it reads from the stage     *)
(* that a rollback could not overwrite (reconcileDeployment).               *)
Misled == worker.silent /\ row.outcome = "reconciled"
PromiseKept == Promise!Init /\ [][~Misled' => [Promise!Next]_(Promise!vars)]_vars

(* Every job comes to a result, unless it took the only Yard down with it,  *)
(* and what was retained for a rollback is released once that is settled.   *)
EverythingSettles ==
    /\ (row.status = "running" /\ ~Self) ~> Settled
    /\ (Settled /\ row.outcome # "recovery_required") ~> (tags = {})
=============================================================================
