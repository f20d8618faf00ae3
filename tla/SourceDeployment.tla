--------------------------- MODULE SourceDeployment ---------------------------
(* deploy (internal/managed/deployment.go): a project whose source Yard     *)
(* holds is created, updated, synchronised with its source, or pulled.  The *)
(* host files follow only when the containers were verified, the metadata   *)
(* and the result of the job last, in one transaction.                      *)
EXTENDS ComposeWork

(* ScheduleEnabled, the source and its environment.                         *)
Begin ==
    /\ Saved /\ worker.at = "preparing"
    /\ \/ Save("preparing", row, IF plan.operation = "pull" THEN "pulling" ELSE "checking")
       \/ /\ row' = [row EXCEPT !.stage = "preparing"]
          /\ Fail \/ (plan.scheduled /\ Settle("skipped"))
    /\ UNCHANGED <<plan, host, saved, tags, helper, observer, snapshot, disturbed>>

AutomaticRuntime == plan.previous # {} /\ plan.previous \subseteq plan.up

(* The files must be absent for an initial deployment and as saved for any  *)
(* other; then the containers must be those of the request and agree with   *)
(* the old source (snapshotDeployment).                                     *)
Check ==
    /\ Saved /\ worker.at = "checking"
    /\ \/ Fail /\ UNCHANGED row
       \/ Initial /\ FilesAre("old") /\ Goto("pulling") /\ UNCHANGED row
       \/ /\ ~Initial /\ FilesAre("old") /\ RuntimeUnchanged
          /\ \/ plan.scheduled /\ Settle("skipped") /\ UNCHANGED row
             \/ /\ plan.scheduled => AutomaticRuntime
                /\ row' = [row EXCEPT !.stage = "preparing"]
                /\ worker' = [worker EXCEPT !.at = "retain", !.left = Selected]
    /\ UNCHANGED <<plan, host, saved, tags, helper, observer, snapshot, disturbed>>

Pull ==
    /\ Saved /\ worker.at = "pulling"
    /\ \/ Save("pulling", row, "identify")
       \/ row' = [row EXCEPT !.stage = "pulling"] /\ Fail
    /\ UNCHANGED <<plan, host, saved, tags, helper, observer, snapshot, disturbed>>

(* The identities of the target's images, and the first decision of         *)
(* Store.UpdateCandidate about them.                                        *)
Identify ==
    /\ Saved /\ worker.at = "identify"
    /\ \/ Fail /\ UNCHANGED row
       \/ /\ row' = [row EXCEPT !.stage = "preparing"]
          /\ IF plan.operation = "pull" THEN Settle("cached")
             ELSE Goto("candidate") \/ (plan.scheduled /\ Settle("skipped"))
    /\ UNCHANGED <<plan, host, saved, tags, helper, observer, snapshot, disturbed>>

(* What may have changed during the pull is looked at again, and the host   *)
(* ports; an initial deployment then writes its files.                      *)
Candidate ==
    /\ Saved /\ worker.at = "candidate"
    /\ \/ Fail /\ UNCHANGED <<row, helper>>
       \/ plan.scheduled /\ Settle("skipped") /\ UNCHANGED <<row, helper>>
       \/ /\ ~Initial => (RuntimeUnchanged /\ FilesAre("old"))
          /\ plan.scheduled => AutomaticRuntime
          /\ IF plan.operation = "update" /\ plan.image = {} /\ plan.next \subseteq plan.previous
             THEN Settle("unchanged") /\ UNCHANGED <<row, helper>>
             ELSE IF Initial
             THEN /\ Save("writing_files", [row EXCEPT !.fileCommit = TRUE], "writing_files")
                  /\ helper' = IF worker'.at = "gone" THEN Idle ELSE Script("commit", TRUE)
             ELSE Goto("replacing") /\ UNCHANGED <<row, helper>>
    /\ UNCHANGED <<plan, host, saved, tags, observer, snapshot, disturbed>>

\* Mutant: the row does not say that containers are changed.
BeginReplacingUnjournalled ==
    /\ Saved /\ worker.at = "replacing"
    /\ Save("replacing", row, "applying")
    /\ helper' = IF worker'.at = "gone" THEN Idle ELSE Compose(plan.next)
    /\ UNCHANGED <<plan, host, saved, tags, observer, snapshot, disturbed>>

(* Compose is started once the row says that containers are changed.        *)
BeginReplacing ==
    /\ Saved /\ worker.at = "replacing"
    /\ Save("replacing", [row EXCEPT !.mutation = TRUE], "applying")
    /\ helper' = IF worker'.at = "gone" THEN Idle ELSE Compose(plan.next)
    /\ UNCHANGED <<plan, host, saved, tags, observer, snapshot, disturbed>>

BeginVerifying ==
    /\ worker.at = "verifying"
    /\ Save("verifying", row, "verify")
    /\ UNCHANGED <<plan, host, saved, tags, helper, observer, snapshot, disturbed>>

Verify ==
    /\ Saved /\ worker.at = "verify"
    /\ \/ /\ Ready(plan.next) /\ \A s \in plan.next : HasTarget(s)
          /\ IF plan.operation = "sync"
             THEN /\ Save("committing_files", [row EXCEPT !.fileCommit = TRUE], "committing_files")
                  /\ helper' = IF worker'.at = "gone" THEN Idle ELSE Script("commit", TRUE)
             ELSE Goto("committing") /\ UNCHANGED <<row, helper>>
       \/ Fail /\ UNCHANGED <<row, helper>>
    /\ UNCHANGED <<plan, host, saved, tags, observer, snapshot, disturbed>>

BeginCommit ==
    /\ Saved /\ worker.at = "committing"
    /\ Save("committing", row, "commit")
    /\ UNCHANGED <<plan, host, saved, tags, helper, observer, snapshot, disturbed>>

(* CommitManagedJob: metadata, result and locks in one transaction.         *)
CommitAs(outcome) ==
    /\ row' = [row EXCEPT !.status = "succeeded", !.outcome = outcome]
    /\ saved' = "new"

Commit ==
    /\ Saved /\ worker.at = "commit"
    /\ \/ CommitAs("verified") /\ Goto("gone")
       \/ Fail /\ UNCHANGED <<row, saved>>
    /\ UNCHANGED <<plan, host, tags, helper, observer, snapshot, disturbed>>

(* rollbackDeployment verifies all of the old project, by the old source.   *)
VerifyPrevious ==
    /\ Saved /\ worker.at = "previous"
    /\ \/ /\ Ready(plan.up) /\ \A s \in plan.previous : HasPrevious(s)
          /\ Settle("rolled_back")
       \/ NotRestored
    /\ UNCHANGED <<plan, row, host, saved, tags, helper, observer, snapshot, disturbed>>

-----------------------------------------------------------------------------
(* reconcileDeployment: with the worker gone, a replacement that is         *)
(* complete is committed; the file commit of a sync is finished only when   *)
(* the journal says that it never began.                                    *)
Complete == row.mutation /\ Ready(plan.next) /\ \A s \in plan.next : HasTarget(s)

Reconcile ==
    /\ Saved /\ Complete /\ FilesAre("new")
    /\ CommitAs("reconciled")
    /\ UNCHANGED <<helper, observer>>

\* Mutant: a half-written commit is completed too.
FinishAnyFiles ==
    /\ Saved /\ Complete /\ ~FilesAre("new")
    /\ plan.operation = "sync"
    /\ row' = [row EXCEPT !.fileCommit = TRUE, !.stage = "committing_files"]
    /\ helper' = Script("commit", FALSE)
    /\ observer' = "writing"
    /\ UNCHANGED saved

FinishFiles ==
    /\ Saved /\ Complete /\ ~FilesAre("new")
    /\ plan.operation = "sync" /\ ~row.fileCommit
    /\ row' = [row EXCEPT !.fileCommit = TRUE, !.stage = "committing_files"]
    /\ helper' = Script("commit", FALSE)
    /\ observer' = "writing"
    /\ UNCHANGED saved

CommitWritten ==
    /\ observer = "written" /\ row.status = "running"
    /\ CommitAs("reconciled")
    /\ observer' = "idle"
    /\ UNCHANGED <<plan, worker, host, tags, helper, snapshot, disturbed>>
=============================================================================
