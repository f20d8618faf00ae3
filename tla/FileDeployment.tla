---------------------------- MODULE FileDeployment ----------------------------
(* executeFileDeployment (internal/managed/configuration_deployment.go): a  *)
(* project, or one service of it, is pulled, updated or recreated from the  *)
(* host's own files, which stay as they are.  When Yard itself is among the *)
(* containers it is stopped and its database copied first, and a failure    *)
(* puts the copy back before the old containers.                            *)
EXTENDS ComposeWork

FilesUnchanged == \A f \in Files : files[f] = "old"

(* Source and containers must be those of the confirmed preview.            *)
CheckHosted ==
    /\ Hosted /\ worker.at = "preparing"
    /\ \/ Fail
       \/ /\ FilesUnchanged /\ RuntimeUnchanged
          /\ IF plan.operation = "pull" THEN Goto("pulling")
             ELSE worker' = [worker EXCEPT !.at = "retain", !.left = Selected]
    /\ UNCHANGED <<plan, row, host, saved, tags, helper, observer, snapshot, disturbed>>

PullHosted ==
    /\ Hosted /\ worker.at = "pulling"
    /\ \/ Save("pulling", row, "identify")
       \/ row' = [row EXCEPT !.stage = "pulling"] /\ Fail
    /\ UNCHANGED <<plan, host, saved, tags, helper, observer, snapshot, disturbed>>

AutomaticSelected ==
    /\ Selected # {}
    /\ \A s \in Selected : Up(s)
    /\ Self => plan.previous = plan.yard

(* Whether the images are unchanged is decided by the containers inspected  *)
(* at the start.                                                            *)
IdentifyHosted ==
    /\ Hosted /\ worker.at = "identify"
    /\ \/ Fail /\ UNCHANGED row
       \/ /\ row' = [row EXCEPT !.stage = "preparing"]
          /\ IF plan.operation = "pull" THEN Settle("cached")
             ELSE \/ plan.scheduled /\ Settle("skipped")
                  \/ /\ plan.scheduled => (Selected # {} /\ Selected \subseteq plan.up)
                     /\ IF /\ plan.operation = "update" /\ plan.image = {}
                           /\ plan.next \subseteq plan.previous
                        THEN Settle("unchanged") ELSE Goto("candidate")
    /\ UNCHANGED <<plan, host, saved, tags, helper, observer, snapshot, disturbed>>

(* Ports, source, isolation, schedule, containers and their recovery are    *)
(* looked at once more; then the row says that containers are changed.      *)
BeginHosted ==
    /\ Hosted /\ worker.at = "candidate"
    /\ \/ Fail /\ UNCHANGED <<row, helper>>
       \/ plan.scheduled /\ Settle("skipped") /\ UNCHANGED <<row, helper>>
       \/ /\ FilesUnchanged /\ RuntimeUnchanged
          /\ plan.scheduled => AutomaticSelected
          /\ Save("replacing", [row EXCEPT !.mutation = TRUE],
                  IF Self THEN "journal_backup" ELSE "applying")
          /\ helper' = IF worker'.at = "applying" THEN Compose({}) ELSE helper
    /\ UNCHANGED <<plan, host, saved, tags, observer, snapshot, disturbed>>

JournalBackup ==
    /\ worker.at = "journal_backup"
    /\ Save("replacing", [row EXCEPT !.backup = TRUE], "stop")
    /\ UNCHANGED <<plan, host, saved, tags, helper, observer, snapshot, disturbed>>

Stopped(item) == [item EXCEPT !.old = IF @ = "up" THEN "down" ELSE @,
                              !.new = IF @ = "up" THEN "down" ELSE @]
StopServices(services) ==
    runtime' = [s \in Services |-> IF s \in services THEN Stopped(runtime[s]) ELSE runtime[s]]

\* Mutant: the containers are left running.
StopNothing ==
    /\ worker.at = "stop"
    /\ Goto("backup") /\ UNCHANGED runtime
    /\ UNCHANGED <<plan, row, files, saved, tags, helper, observer, snapshot, disturbed>>

StopSelected ==
    /\ worker.at = "stop"
    /\ \E stopped \in SUBSET Selected :
           /\ StopServices(stopped)
           /\ IF stopped = Selected THEN Goto("backup") \/ Fail ELSE Fail
    /\ UNCHANGED <<plan, row, files, saved, tags, helper, observer, snapshot, disturbed>>

(* BackupForSelfUpdate leaves no part of a copy behind.                     *)
Backup ==
    /\ worker.at = "backup"
    /\ \/ snapshot' = "taken" /\ helper' = Compose({}) /\ Goto("applying")
       \/ Fail /\ UNCHANGED <<snapshot, helper>>
    /\ UNCHANGED <<plan, row, host, saved, tags, observer, disturbed>>

(* verifyFileDeployment: what ran runs again, images are those prepared and *)
(* no other service was touched.                                            *)
AsConfigured ==
    /\ Ready(Wanted) /\ PeersUnchanged
    /\ \A s \in plan.next : HasTarget(s)

VerifyHosted ==
    /\ Hosted /\ worker.at = "verify"
    /\ \/ AsConfigured /\ Settle("verified")
       \/ Fail
    /\ UNCHANGED <<plan, row, host, saved, tags, helper, observer, snapshot, disturbed>>

-----------------------------------------------------------------------------
(* Before a copy of the database is put back every container that may use   *)
(* it is stopped: all of the project's, unless one service was named.       *)
StopProject ==
    /\ worker.at = "stop_all"
    /\ LET targets == IF plan.scoped THEN plan.next ELSE Services
       IN \E stopped \in SUBSET targets :
              /\ StopServices(stopped)
              /\ IF stopped = targets THEN Goto("restore_database") \/ NotRestored
                 ELSE NotRestored
    /\ UNCHANGED <<plan, row, files, saved, tags, helper, observer, snapshot, disturbed>>

(* RestoreRollbackSnapshot: the row is again as when the copy was made.     *)
(* The worker returns when the database cannot be reopened.                 *)
RestoreDatabase ==
    /\ worker.at = "restore_database"
    /\ \/ /\ snapshot' = "restored"
          /\ row' = [row EXCEPT !.stage = "replacing"]
          /\ Goto("removing")
       \/ NotRestored /\ UNCHANGED <<row, snapshot>>
       \/ /\ snapshot' = "restored"
          /\ row' = [row EXCEPT !.stage = "replacing"]
          /\ Goto("gone")
    /\ UNCHANGED <<plan, host, saved, tags, helper, observer, disturbed>>

(* restoreRuntime verified each container; the metadata follows.            *)
PreviousRestored ==
    /\ Hosted /\ worker.at = "previous"
    /\ Settle("rolled_back") \/ NotRestored
    /\ UNCHANGED <<plan, row, host, saved, tags, helper, observer, snapshot, disturbed>>

(* Reconcile of a file deployment whose worker is gone.                     *)
ReconcileHosted ==
    /\ Hosted /\ row.stage = "verifying" /\ row.mutation
    /\ FilesUnchanged /\ AsConfigured
    /\ row' = [row EXCEPT !.status = "succeeded", !.outcome = "reconciled"]
    /\ UNCHANGED <<saved, helper, observer>>
=============================================================================
