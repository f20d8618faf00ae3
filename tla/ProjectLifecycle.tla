--------------------------- MODULE ProjectLifecycle ---------------------------
(* Start, stop, restart and removal of what exists on the host: the groups  *)
(* of internal/lifecycle, and the two processes that run them, the web      *)
(* request of internal/application and the worker of internal/managed.      *)
(*                                                                          *)
(* Containers and resources are numbered, in the order in which a removal   *)
(* takes them: containers, volumes, networks, images.                       *)
EXTENDS ComposeOrder

CONSTANTS
    Containers, Volumes, Networks, Images,
    Requests,    \* what is asked for, and the host it is asked of
    MaxDisturbed \* how often the host changes by itself

VARIABLES
    asked,     \* the request and what does not change: labels, mounts, membership
    host,      \* state of each container, the resources that exist, the source files
    preview,   \* the removal plan the user was shown and confirmed
    row,       \* the job row, with the cleanup error of its payload
    saved,     \* whether Yard has metadata of the project
    worker,    \* the process at work
    helper,    \* the containers the Compose helper has still to act on
    disturbed  \* the containers the host changed by itself, and how often it changed

vars == <<asked, host, preview, row, saved, worker, helper, disturbed>>

Resources == Volumes \cup Networks \cup Images

ASSUME NumbersAssumption ==
    /\ Containers \cup Resources \subseteq Nat
    /\ \A c \in Containers, r \in Resources : c < r
    /\ \A v \in Volumes, n \in Networks : v < n
    /\ \A r \in Volumes \cup Networks, i \in Images : r < i
ASSUME SizesAssumption == IsFiniteSet(Containers) /\ IsFiniteSet(Resources)
ASSUME MaxDisturbedAssumption == MaxDisturbed \in Nat

States == {"none", "created", "up", "done", "failed"}
Kept == {<<"unowned">>, <<"unverified">>, <<"unselected">>}
            \cup {<<"used", c>> : c \in Containers}

(* What is asked of which host.  "yard" is what isSelf takes for Yard's own *)
(* container, which runs, for Yard runs the request.                        *)
RequestsAssumption ==
    \A a \in Requests :
        /\ a.operation \in {"start", "stop", "restart", "remove"}
        /\ a.route \in {"direct", "managed"}
        /\ a.host \in [state : [Containers -> States], there : SUBSET Resources,
                       source : {"unavailable", "plain", "declares"}]
        /\ a.scope \subseteq Containers /\ a.uses \in [Containers -> SUBSET Resources]
        /\ a.yard \subseteq {c \in Containers : a.host.state[c] = "up"}
ASSUME RequestsAreTyped == RequestsAssumption

NoPlan == [source |-> "none", items |-> <<>>]
Steps == {"none", "assess", "item", "delete", "force", "drop", "verifying",
          "inspect", "committing", "commit", "begin", "operate", "compose",
          "settled", "gone"}

TypeOK ==
    /\ host \in [state : [Containers -> States], there : SUBSET Resources,
                 source : {"unavailable", "plain", "declares"}]
    /\ preview.source \in {"none", "unavailable", "plain", "declares"}
    /\ DOMAIN preview.items \subseteq Containers \cup Resources
    /\ Range(preview.items) \subseteq Kept \cup {<<"remove">>}
    /\ row \in [status : {"none", "running", "succeeded", "failed"},
                stage : {"queued", "executing", "verifying", "committing"},
                outcome : {"", "verified", "reconciled", "failed", "recovery_required"},
                cleanup : BOOLEAN, handed : BOOLEAN]
    /\ saved \in BOOLEAN
    /\ worker \in [at : Steps, left : Seq(Containers \cup Resources),
                   found : SUBSET Containers, failed : SUBSET (Containers \cup Resources),
                   late : BOOLEAN]
    /\ helper \subseteq Containers
    /\ disturbed \in [who : SUBSET Containers, times : 0..MaxDisturbed]

NoWorker == [at |-> "none", left |-> <<>>, found |-> {}, failed |-> {}, late |-> FALSE]

Init ==
    /\ asked \in Requests
    /\ host = asked.host
    /\ preview = NoPlan
    /\ row = [status |-> "none", stage |-> "queued", outcome |-> "", cleanup |-> FALSE,
              handed |-> FALSE]
    /\ saved = (asked.route = "managed")
    /\ worker = NoWorker
    /\ helper = {}
    /\ disturbed = [who |-> {}, times |-> 0]

-----------------------------------------------------------------------------
Exists(c) == host.state[c] # "none"
Up(c) == host.state[c] = "up"
Present == {c \in Containers : Exists(c)}

(* The containers with the label of the project, or the one container.      *)
Targets == asked.scope \cap Present
Services == [service |-> [c \in Targets |-> c], needs |-> asked.needs, after |-> asked.after]
OneShots == UNION {asked.after[c] : c \in asked.scope}

(* The managed worker reads the project without one-off containers.         *)
Runtime == Targets \ asked.oneoff

Users(r) == {c \in Present : r \in asked.uses[c]}
Goto(step) == worker' = [worker EXCEPT !.at = step]

(* removalPlanWithChoices: what is deleted, and why the rest is kept.       *)
Owned(r) ==
    \/ r \in Images
    \/ asked.project /\ asked.owner[r] = "project"
    \/ r \in Volumes /\ asked.owner[r] = "anonymous"
Unverified(r) ==
    /\ asked.project /\ r \notin Images
    /\ \/ host.source = "unavailable"
       \/ host.source = "declares" /\ r \in asked.declared
Selected(r) == CASE r \in Volumes -> asked.volumes
                 [] r \in Networks -> TRUE
                 [] r \in Images -> asked.images

Verdict(r) ==
    CASE Users(r) \ Targets # {} -> <<"used", Max(Users(r) \ Targets)>>
      [] ~Owned(r) -> <<"unowned">>
      [] Unverified(r) -> <<"unverified">>
      [] ~Selected(r) -> <<"unselected">>
      [] OTHER -> <<"remove">>

(* What the targets use, and what bears the project's label.                *)
Reached ==
    {r \in host.there :
        \/ Users(r) \cap Targets # {}
        \/ asked.project /\ r \notin Images /\ asked.owner[r] = "project"}

Plan == [source |-> host.source,
         items |-> [x \in Targets \cup Reached |->
                        IF x \in Containers THEN <<"remove">> ELSE Verdict(x)]]

Plannable == (Targets # {} \/ saved) /\ Targets \cap asked.yard = {}
Removable(p) == {x \in DOMAIN p.items : p.items[x] = <<"remove">>}

-----------------------------------------------------------------------------
(* Request, and the end of a job.                                           *)

PreviewRemoval ==
    /\ asked.operation = "remove" /\ row.status = "none" /\ preview = NoPlan
    /\ Plannable
    /\ preview' = Plan
    /\ UNCHANGED <<asked, host, row, saved, worker, helper, disturbed>>

(* A managed removal is assessed again before its job is created.           *)
Submit ==
    /\ row.status = "none"
    /\ asked.operation = "remove" => preview # NoPlan
    /\ IF asked.operation = "remove" /\ asked.route = "managed" /\ (~Plannable \/ preview # Plan)
       THEN preview' = NoPlan /\ UNCHANGED <<row, worker>>
       ELSE /\ row' = [row EXCEPT !.status = "running",
                                  !.stage = IF asked.operation = "remove" THEN "executing" ELSE @]
            /\ Goto(IF asked.operation = "remove" THEN "assess" ELSE "begin")
            /\ UNCHANGED preview
    /\ UNCHANGED <<asked, host, saved, helper, disturbed>>

FinishJob(outcome) ==
    row' = [row EXCEPT !.outcome = outcome,
                       !.status = IF outcome \in {"verified", "reconciled"} THEN "succeeded"
                                  ELSE "failed"]

(* The failure is uncertain when the deadline has passed, or helpers of a   *)
(* worker may run; a request tells a deadline only of what it waited for.   *)
Failed ==
    /\ Goto("gone")
    /\ \E outcome \in {"failed", "recovery_required"} :
           /\ \/ worker.late /\ (asked.route = "managed" \/ asked.operation = "remove")
              \/ asked.route = "managed" /\ helper # {}
              => outcome = "recovery_required"
           /\ FinishJob(outcome)

-----------------------------------------------------------------------------
(* RemoveWithChoices: the plan is made again and must be the confirmed one. *)
\* Mutant: whatever the new plan says is removed.
AssessUnconfirmed ==
    /\ worker.at = "assess"
    /\ IF ~Plannable THEN Failed
       ELSE /\ worker' = [worker EXCEPT !.at = "item", !.left = InOrder(Removable(Plan))]
            /\ UNCHANGED row
    /\ UNCHANGED <<asked, host, preview, saved, helper, disturbed>>

Assess ==
    /\ worker.at = "assess"
    /\ IF ~(Plannable /\ Plan = preview) THEN Failed
       ELSE /\ worker' = [worker EXCEPT !.at = "item", !.left = InOrder(Removable(Plan))]
            /\ UNCHANGED row
    /\ UNCHANGED <<asked, host, preview, saved, helper, disturbed>>

Item == Head(worker.left)
NextItem(failed) ==
    worker' = [worker EXCEPT !.at = "item", !.left = Tail(@),
                             !.failed = IF failed THEN @ \cup {Item} ELSE @]

(* ContainerStop, then an ordinary removal, then a forced one.  A call may  *)
(* fail with or without effect.                                             *)
StopTarget ==
    /\ worker.at = "item" /\ ~worker.late /\ worker.left # <<>> /\ Item \in Containers
    /\ \/ host' = [host EXCEPT !.state[Item] = IF @ = "up" THEN "done" ELSE @] /\ Goto("delete")
       \/ UNCHANGED host /\ Goto("force")
    /\ UNCHANGED <<asked, preview, row, saved, helper, disturbed>>

DeleteTarget ==
    /\ worker.at = "delete" /\ ~worker.late
    /\ \/ /\ ~Up(Item)
          /\ host' = [host EXCEPT !.state[Item] = "none"]
          /\ NextItem(FALSE) \/ Goto("force")
       \/ UNCHANGED host /\ Goto("force")
    /\ UNCHANGED <<asked, preview, row, saved, helper, disturbed>>

ForceTarget ==
    /\ worker.at = "force" /\ ~worker.late
    /\ \/ host' = [host EXCEPT !.state[Item] = "none"] /\ NextItem(FALSE)
       \/ UNCHANGED host /\ NextItem(TRUE)
    /\ UNCHANGED <<asked, preview, row, saved, helper, disturbed>>

(* removeUnusedResource lists the containers of the whole host first.       *)
CheckUnused ==
    /\ worker.at = "item" /\ ~worker.late /\ worker.left # <<>> /\ Item \in Resources
    /\ \/ Users(Item) = {} /\ worker' = [worker EXCEPT !.at = "drop", !.found = Present]
       \/ NextItem(TRUE)
    /\ UNCHANGED <<asked, host, preview, row, saved, helper, disturbed>>

(* Docker refuses what a container uses, for a network a running one; the   *)
(* image stays when another tag refers to it.                               *)
DropResource ==
    /\ worker.at = "drop" /\ ~worker.late
    /\ \/ /\ \A c \in Users(Item) : Item \in Networks /\ ~Up(c)
          /\ host' = [host EXCEPT !.there = @ \ {Item}]
          /\ NextItem(FALSE) \/ NextItem(TRUE)
       \/ UNCHANGED host /\ NextItem(TRUE)
    /\ UNCHANGED <<asked, preview, row, saved, helper, disturbed>>

(* The deadline of the job, or the end of the request: no further call is   *)
(* answered, and the items that are left are reported as failed.            *)
Expire ==
    /\ worker.at \in {"item", "delete", "force", "drop", "verifying", "inspect", "operate",
                     "compose"}
    /\ ~worker.late
    /\ worker' = [worker EXCEPT !.late = TRUE]
    /\ UNCHANGED <<asked, host, preview, row, saved, helper, disturbed>>

SkipLate ==
    /\ worker.at \in {"item", "delete", "force", "drop"} /\ worker.late /\ worker.left # <<>>
    /\ NextItem(TRUE)
    /\ UNCHANGED <<asked, host, preview, row, saved, helper, disturbed>>

(* The web request reports any failure.  The worker stops at a container    *)
(* that is left, and puts other leftovers into the payload; when that is    *)
(* not written it returns without a result.                                 *)
\* Mutant: what is left of volumes, networks and images is not recorded.
ReportContainersOnly ==
    /\ worker.at = "item" /\ worker.left = <<>>
    /\ IF asked.route = "direct"
       THEN IF worker.failed # {} \/ worker.late THEN Failed
            ELSE FinishJob("verified") /\ Goto("gone")
       ELSE IF worker.failed \cap Containers # {} THEN Failed
            ELSE \/ UNCHANGED row /\ Goto("verifying")
                 \/ worker.failed # {} /\ UNCHANGED row /\ Goto("gone")
    /\ UNCHANGED <<asked, host, preview, saved, helper, disturbed>>

Report ==
    /\ worker.at = "item" /\ worker.left = <<>>
    /\ IF asked.route = "direct"
       THEN IF worker.failed # {} \/ worker.late THEN Failed
            ELSE FinishJob("verified") /\ Goto("gone")
       ELSE IF worker.failed \cap Containers # {} THEN Failed
            ELSE \/ row' = [row EXCEPT !.cleanup = worker.failed # {}] /\ Goto("verifying")
                 \/ worker.failed # {} /\ UNCHANGED row /\ Goto("gone")
    /\ UNCHANGED <<asked, host, preview, saved, helper, disturbed>>

(* The removal is complete when the project has no container at all.        *)
BeginVerifying ==
    /\ worker.at = "verifying"
    /\ row' = [row EXCEPT !.stage = "verifying"]
    /\ Goto("inspect")
    /\ UNCHANGED <<asked, host, preview, saved, helper, disturbed>>

Inspect ==
    /\ worker.at = "inspect"
    /\ \/ Runtime = {} /\ ~worker.late /\ UNCHANGED row /\ Goto("committing")
       \/ Failed
    /\ UNCHANGED <<asked, host, preview, saved, helper, disturbed>>

BeginCommit ==
    /\ worker.at = "committing"
    /\ row' = [row EXCEPT !.stage = "committing"]
    /\ Goto("commit")
    /\ UNCHANGED <<asked, host, preview, saved, helper, disturbed>>

(* CommitManagedJob deletes the metadata and writes the result in one       *)
(* transaction.                                                             *)
Commit ==
    /\ worker.at = "commit"
    /\ \/ FinishJob("verified") /\ saved' = FALSE /\ Goto("gone")
       \/ Failed /\ UNCHANGED saved
    /\ UNCHANGED <<asked, host, preview, helper, disturbed>>

-----------------------------------------------------------------------------
(* Start, stop and restart.  The Compose files of the project are used when *)
(* they can be read and none of its containers is Yard's own; otherwise     *)
(* Project, or Container for a single one, takes the containers in the      *)
(* order of their dependencies, the last first to stop them.                *)
Operating == asked.operation \in {"start", "stop", "restart"}
Wanted(c) == IF asked.operation = "stop" THEN ~Up(c) ELSE Up(c)
Order == IF asked.project THEN Labels(Services)
         ELSE [order |-> SetToSeq(Targets), error |-> FALSE]
Protected == asked.operation = "stop" /\ Targets \cap asked.yard # {}

\* Mutant: a group that holds Yard is stopped like any other.
BeginUnprotected ==
    /\ worker.at = "begin"
    /\ LET files == asked.project /\ host.source # "unavailable" /\ Runtime \cap asked.yard = {}
       IN \/ Failed /\ UNCHANGED helper
          \/ /\ files
             /\ helper' = Runtime \cap asked.active
             /\ worker' = [worker EXCEPT !.at = "compose", !.found = Runtime]
             /\ UNCHANGED row
          \/ /\ ~files /\ Targets # {} /\ ~Order.error
             /\ worker' = [worker EXCEPT !.at = "operate", !.found = Targets,
                            !.left = IF asked.operation = "stop" THEN Reverse(Order.order)
                                     ELSE Order.order]
             /\ UNCHANGED <<row, helper>>
    /\ UNCHANGED <<asked, host, preview, saved, disturbed>>

Begin ==
    /\ worker.at = "begin"
    /\ LET files == asked.project /\ host.source # "unavailable" /\ Runtime \cap asked.yard = {}
       IN \/ Failed /\ UNCHANGED helper
          \/ /\ files
             /\ helper' = Runtime \cap asked.active
             /\ worker' = [worker EXCEPT !.at = "compose", !.found = Runtime]
             /\ UNCHANGED row
          \/ /\ ~files /\ Targets # {} /\ ~Order.error /\ ~Protected
             /\ worker' = [worker EXCEPT !.at = "operate", !.found = Targets,
                            !.left = IF asked.operation = "stop" THEN Reverse(Order.order)
                                     ELSE Order.order]
             /\ UNCHANGED <<row, helper>>
    /\ UNCHANGED <<asked, host, preview, saved, disturbed>>

(* Yard itself is left for last or alone, and so is what needs nothing.     *)
Skipped(c) ==
    \/ c \in asked.yard /\ asked.operation \in {"start", "restart"}
    \/ asked.operation = "start" /\ Up(c)
    \/ asked.operation = "stop" /\ ~Up(c)

(* waitObservedDependencies, within two minutes.                            *)
DependenciesReady(c) ==
    \/ asked.operation = "stop" \/ ~asked.project
    \/ /\ \A d \in asked.needs[c] \cap worker.found : Up(d)
       /\ \A d \in asked.after[c] \cap worker.found : host.state[d] = "done"

NextContainer(failed) ==
    worker' = [worker EXCEPT !.left = Tail(@),
                             !.failed = IF failed THEN @ \cup {Item} ELSE @]
After(c) == IF asked.operation = "stop" THEN "done" ELSE "up"

(* A call may fail with or without effect; the others are still made.       *)
Operate ==
    /\ worker.at = "operate" /\ worker.left # <<>>
    /\ \/ Skipped(Item) /\ NextContainer(FALSE) /\ UNCHANGED host
       \/ /\ ~Skipped(Item) /\ Exists(Item) /\ ~worker.late /\ DependenciesReady(Item)
          /\ host' = [host EXCEPT !.state[Item] = After(Item)]
          /\ NextContainer(FALSE) \/ NextContainer(TRUE)
       \/ ~Skipped(Item) /\ NextContainer(TRUE) /\ UNCHANGED host
    /\ UNCHANGED <<asked, preview, row, saved, helper, disturbed>>

(* A request hands the restart of Yard itself over to a container of its    *)
(* own with the failures so far; then the result is that container's to     *)
(* write.  The engine of a worker has no store and no job, and refuses      *)
(* while any helper container runs: the worker is one (isHelper).           *)
LaunchSelfRestart ==
    /\ worker.at = "operate" /\ worker.left = <<>>
    /\ asked.operation = "restart" /\ worker.found \cap asked.yard # {}
    /\ \/ asked.route = "direct" /\ row' = [row EXCEPT !.handed = TRUE] /\ Goto("gone")
       \/ Failed
    /\ UNCHANGED <<asked, host, preview, saved, helper, disturbed>>

FinishGroup ==
    /\ worker.at = "operate" /\ worker.left = <<>>
    /\ asked.operation = "restart" => worker.found \cap asked.yard = {}
    /\ IF worker.failed = {} THEN FinishJob("verified") /\ Goto("gone") ELSE Failed
    /\ UNCHANGED <<asked, host, preview, saved, helper, disturbed>>

(* The Compose helper works on the active services, on its own.             *)
ComposeActs(c) ==
    /\ c \in helper
    /\ helper' = helper \ {c}
    /\ host' = IF Exists(c) THEN [host EXCEPT !.state[c] = After(c)] ELSE host
    /\ UNCHANGED <<asked, preview, row, saved, worker, disturbed>>

ComposeDone ==
    /\ worker.at = "compose" /\ helper = {}
    /\ Goto("settled")
    /\ UNCHANGED <<asked, host, preview, row, saved, helper, disturbed>>

ComposeFails ==
    /\ worker.at = "compose" \/ helper # {}
    /\ helper' \in {{}, helper}
    /\ IF worker.at = "compose" THEN Failed ELSE UNCHANGED <<row, worker>>
    /\ UNCHANGED <<asked, host, preview, saved, disturbed>>

(* What was there before is read again; a one-shot service may be done.     *)
InState(c) ==
    \/ Wanted(c)
    \/ asked.operation # "stop" /\ c \in OneShots /\ host.state[c] = "done"
ReadAfter ==
    /\ worker.at = "settled"
    /\ \/ /\ \A c \in worker.found \cap asked.active : Exists(c) /\ InState(c)
          /\ FinishJob("verified") /\ Goto("gone")
       \/ Failed
    /\ UNCHANGED <<asked, host, preview, saved, helper, disturbed>>

-----------------------------------------------------------------------------
(* The process dies or the row could not be written.                        *)
WorkerDies ==
    /\ worker.at \notin {"none", "gone"}
    /\ Goto("gone")
    /\ UNCHANGED <<asked, host, preview, row, saved, helper, disturbed>>

(* ReconcileDirectJobs; Observe and Reconcile of a removal that had begun   *)
(* to be verified.                                                          *)
Observe ==
    /\ worker.at = "gone" /\ row.status = "running" /\ ~row.handed
    /\ asked.route = "managed" => helper = {}
    /\ \/ FinishJob("recovery_required") /\ UNCHANGED saved
       \/ /\ asked.route = "managed" /\ row.stage \in {"verifying", "committing"}
          /\ Runtime = {}
          /\ FinishJob("reconciled") /\ saved' = FALSE
    /\ UNCHANGED <<asked, host, preview, worker, helper, disturbed>>

(* A one-shot container completes.                                          *)
Complete(c) ==
    /\ c \in OneShots /\ Up(c)
    /\ \E end \in {"done", "failed"} : host' = [host EXCEPT !.state[c] = end]
    /\ UNCHANGED <<asked, preview, row, saved, worker, helper, disturbed>>

(* By other hands a container is created, started, stopped or removed, a    *)
(* resource that nobody uses removed, the source edited.                    *)
HostActs(c) ==
    /\ row.status # "none" \/ preview # NoPlan
    /\ disturbed.times < MaxDisturbed
    /\ disturbed' = [who |-> disturbed.who \cup {c}, times |-> disturbed.times + 1]
    /\ \E state \in States \ {host.state[c]} :
           /\ ~Exists(c) => (state \in {"created", "up"} /\ asked.uses[c] \subseteq host.there)
           /\ Exists(c) => state # "created" /\ (state = "failed" => Up(c))
           /\ host' = [host EXCEPT !.state[c] = state]
    /\ UNCHANGED <<asked, preview, row, saved, worker, helper>>

EditSource ==
    /\ row.status # "none" \/ preview # NoPlan
    /\ disturbed.times < MaxDisturbed
    /\ disturbed' = [disturbed EXCEPT !.times = @ + 1]
    /\ \E source \in {"unavailable", "plain", "declares"} \ {host.source} :
           host' = [host EXCEPT !.source = source]
    /\ UNCHANGED <<asked, preview, row, saved, worker, helper>>

Removal ==
    \/ PreviewRemoval \/ Assess \/ StopTarget \/ DeleteTarget \/ ForceTarget
    \/ CheckUnused \/ DropResource \/ SkipLate \/ Report \/ BeginVerifying
    \/ Inspect \/ BeginCommit \/ Commit
Operation ==
    \/ Begin \/ Operate \/ LaunchSelfRestart \/ FinishGroup \/ ComposeDone
    \/ ComposeFails \/ ReadAfter \/ \E c \in Containers : ComposeActs(c)
Next ==
    \/ Submit \/ Removal \/ Operation \/ Expire \/ WorkerDies \/ Observe \/ EditSource
    \/ \E c \in Containers : Complete(c) \/ HostActs(c)

Spec == Init /\ [][Next]_vars

-----------------------------------------------------------------------------
(* Yard deletes only what the plan that the user confirmed lists as         *)
(* deleted, however the host changed since, and no resource of a container  *)
(* that existed at the last look; it never stops or deletes its own         *)
(* container (RemovalItem: "Only items with action=remove are ever sent to  *)
(* a Docker delete endpoint"; removeUnusedResource; ErrProtected).          *)
OnlyConfirmed ==
    [][worker' # worker =>
         /\ \A r \in host.there \ host'.there :
                /\ r \in Removable(preview)
                /\ \A c \in worker.found : r \notin asked.uses[c]
         /\ \A c \in Present : host'.state[c] = "none" => c \in Removable(preview)
         /\ \A c \in asked.yard : host'.state[c] = host.state[c]]_vars

(* A result that says success is true: of a removal every confirmed         *)
(* container is gone, every confirmed resource is gone or its rest is on    *)
(* the row, and then, and only then, the metadata is gone; of the others    *)
(* every container of an active service that nobody else touched is in the  *)
(* state asked for (execute, Reconcile, LifecycleFiles, Project).           *)
VerifiedIsTrue ==
    /\ asked.operation = "remove" /\ row.status = "succeeded" =>
           /\ Removable(preview) \cap Containers \subseteq
                  {c \in Containers : ~Exists(c)} \cup disturbed.who
           /\ row.cleanup \/ Removable(preview) \cap host.there = {}
    /\ asked.route = "managed" =>
           ~saved = (asked.operation = "remove" /\ row.status = "succeeded")
    /\ Operating /\ row.status = "succeeded" =>
           \A c \in (worker.found \cap asked.active) \ (disturbed.who \cup OneShots) :
               Wanted(c)

-----------------------------------------------------------------------------
(* The inductive invariant behind both: whose steps a worker takes, and     *)
(* what its row and the metadata say then.                                  *)
Deleting == {"item", "delete", "force", "drop"}
Closing == {"verifying", "inspect", "committing", "commit"}

Admitted ==
    /\ asked \in Requests
    /\ row.status = "none" <=> worker.at = "none"
    /\ row.status = "none" => row.stage = "queued"
    /\ worker.at \notin {"none", "gone"} => row.status = "running"
    /\ worker.at \in Deleting \cup Closing \cup {"assess"} => asked.operation = "remove"
    /\ worker.at \in {"begin", "operate", "compose", "settled"} \/ helper # {} =>
           asked.operation # "remove"
    /\ row.stage \in {"verifying", "committing"} => asked.operation = "remove"

(* Yard's own container is left alone by everybody but the host.            *)
YardRuns ==
    /\ \A c \in asked.yard \ (disturbed.who \cup OneShots) : Up(c)
    /\ helper \cap asked.yard = {}

(* What is still to be deleted was confirmed, and what was is gone or has   *)
(* failed.  A resource about to be dropped was seen unused.                 *)
Gone(x) ==
    /\ x \in Containers => ~Exists(x) \/ x \in disturbed.who
    /\ x \in Resources => x \notin host.there
DeletePhase ==
    worker.at \in Deleting =>
        /\ Range(worker.left) \subseteq Removable(preview)
        /\ Removable(preview) \cap asked.yard = {}
        /\ \A x \in Removable(preview) \ Range(worker.left) : x \in worker.failed \/ Gone(x)
        /\ worker.at # "item" => worker.left # <<>>
        /\ worker.at \in {"delete", "force"} => Item \in Containers
        /\ worker.at = "drop" =>
               Item \in Resources /\ \A c \in worker.found : Item \notin asked.uses[c]

(* From the report on, the confirmed containers are gone, and the resources *)
(* too unless the row says that some were left.                             *)
Reported ==
    \/ worker.at \in Closing \/ row.stage \in {"verifying", "committing"}
    \/ asked.operation = "remove" /\ row.status = "succeeded"
Cleared ==
    \A x \in Removable(preview) : Gone(x) \/ (x \in Resources /\ row.cleanup)
ReportPhase == Reported => Cleared

(* A group is worked through: a container that was passed is as asked for,  *)
(* or counted as failed.                                                    *)
InPlace(c) == c \in disturbed.who \cup OneShots \/ Wanted(c)
OperatePhase ==
    worker.at = "operate" =>
        /\ Range(worker.left) \subseteq Containers
        /\ asked.operation = "stop" => Range(worker.left) \cap asked.yard = {}
        /\ \A c \in worker.found \ Range(worker.left) : c \in worker.failed \/ InPlace(c)

LifecycleInv ==
    /\ TypeOK /\ Admitted /\ YardRuns
    /\ DeletePhase /\ ReportPhase /\ OperatePhase /\ VerifiedIsTrue
=============================================================================
