-------------------------- MODULE EngineReplacement --------------------------
(* One replacement of the containers of a target by Engine calls            *)
(* (internal/recreate): the worker of an update or recreate job, its        *)
(* journal in the job row, its rollback, the observer that settles it when  *)
(* the worker is gone, and the removal of the retained originals.  Launch   *)
(* and claim of the job row are in OperationJobs, the decisions of          *)
(* Store.UpdateCandidate in ProjectScheduler.                               *)
EXTENDS ComposeOrder

CONSTANTS
    Projects,     \* the projects a preview may be asked for
    Confirmed,    \* those of them whose replacement is submitted
    MaxDisturbed  \* how many containers the host starts or stops by itself

VARIABLES
    project,      \* the project the preview inspected
    order,        \* journal.Order
    row,          \* the job row with its durable journal
    worker,       \* the worker: its program counter and its copy of the journal
    original,     \* the inspected containers in the Engine
    replacement,  \* the containers created for them
    disturbed     \* containers the host started or stopped since the preview

vars == <<project, order, row, worker, original, replacement, disturbed>>
engine == <<original, replacement>>

\* Containers are numbered, and what is confirmed has some of its own.
ASSUME ProjectsAssumption ==
    /\ Confirmed \subseteq Projects
    /\ \A p \in Projects : Numbered(p) /\ p.selected \subseteq Items(p)
    /\ \A p \in Confirmed : p.selected # {}

E == project.selected

Outcomes == {"", "verified", "reconciled", "unchanged", "skipped", "failed",
             "rolled_back", "recovery_required", "recovery_acknowledged"}
Stages == {"queued", "preparing", "pulling", "replacing", "rolling_back",
           "verifying", "committing"}
Steps == {"none", "preparing", "pulling", "candidate", "replacing", "touch", "stop",
          "retain", "detach", "create", "record", "retarget", "start", "ready",
          "verifying", "verify", "own", "rolling", "remove", "restore", "reattach",
          "restart", "settle", "disown", "recording", "close", "gone"}
Operations == {"update", "recreate"}

TypeOK ==
    /\ order \in Seq(E)
    /\ row \in [status : {"none", "running", "succeeded", "failed"}, stage : Stages,
                outcome : Outcomes, mutated : BOOLEAN, touched : SUBSET E, made : SUBSET E]
    /\ worker \in [at : Steps, i : 0..Len(order), operation : Operations,
                   scheduled : BOOLEAN, image : {"same", "new", "volumes"},
                   verdict : Outcomes, mutated : BOOLEAN,
                   touched : SUBSET E, made : SUBSET E]
    /\ original \in [E -> [name : {"own", "backup"}, attached : BOOLEAN,
                           up : BOOLEAN, there : BOOLEAN]]
    /\ replacement \in [E -> [there : BOOLEAN, up : BOOLEAN, same : BOOLEAN]]
    /\ disturbed \subseteq E

-----------------------------------------------------------------------------
Inspected(p) == [e \in p.selected |-> [name |-> "own", attached |-> TRUE,
                                     up |-> e \in p.running, there |-> TRUE]]

Absent == [there |-> FALSE, up |-> FALSE, same |-> FALSE]
NoReplacement(p) == [e \in p.selected |-> Absent]

Init ==
    /\ project \in Projects
    /\ order = ScopedOrder(project)
    /\ row = [status |-> "none", stage |-> "queued", outcome |-> "",
              mutated |-> FALSE, touched |-> {}, made |-> {}]
    /\ worker = [at |-> "none", i |-> 0, operation |-> "update", scheduled |-> FALSE,
                 image |-> "same", verdict |-> "", mutated |-> FALSE,
                 touched |-> {}, made |-> {}]
    /\ original = Inspected(project)
    /\ replacement = NoReplacement(project)
    /\ disturbed = {}

(* Submit: the preview is assessed and confirmed and its worker launched.   *)
(* Only an update can be an automatic one.                                  *)
Submit(op, scheduled) ==
    /\ row.status = "none"
    /\ project \in Confirmed
    /\ Assessed(project) /\ Supported(project) /\ Isolated(project)
    /\ disturbed = {}
    /\ scheduled => op = "update"
    /\ row' = [row EXCEPT !.status = "running"]
    /\ worker' = [worker EXCEPT !.at = "preparing", !.operation = op,
                                !.scheduled = scheduled]
    /\ UNCHANGED <<project, order, engine, disturbed>>

(* save: the journal, then the stage, in two statements of which the second *)
(* or both may fail; the worker then returns and leaves the row running.    *)
Journal(w) == [row EXCEPT !.mutated = w.mutated, !.touched = w.touched, !.made = w.made]

Save(stage, w, next) ==
    \/ row' = [Journal(w) EXCEPT !.stage = stage] /\ worker' = [w EXCEPT !.at = next]
    \/ row' \in {row, Journal(w)} /\ worker' = [w EXCEPT !.at = "gone"]

Goto(step) == worker' = [worker EXCEPT !.at = step]
GotoAt(step, i) == worker' = [worker EXCEPT !.at = step, !.i = i]
Settle(verdict, step) == worker' = [worker EXCEPT !.at = step, !.verdict = verdict]

(* The worker's fail: an error of an expired context leaves everything as   *)
(* it is for the host; any other error after the first change rolls back.   *)
Fail ==
    \/ Settle("recovery_required", "recording")
    \/ IF worker.mutated THEN Goto("rolling") ELSE Settle("failed", "recording")

(* The fingerprint covers every inspected container, so anything the host   *)
(* started or stopped shows.                                                *)
Unchanged == disturbed = {}

(* automaticRuntime: every container runs, or is a one-shot dependency.     *)
AutomaticRuntime == E \cap project.running # {} /\ E \ project.running \subseteq OneShot(project)

Prepare ==
    /\ worker.at = "preparing"
    /\ \/ Save("preparing", worker, "pulling") /\ Unchanged
             /\ (worker.scheduled => AutomaticRuntime)
       \/ row' = [row EXCEPT !.stage = "preparing"] /\ Fail
       \/ /\ row' = [row EXCEPT !.stage = "preparing"]
          /\ worker.scheduled
          /\ Settle("skipped", "close")
    /\ UNCHANGED <<project, order, engine, disturbed>>

(* Pull or inspection of the images of all entries.  "same" is an update    *)
(* that finds the images in use, "volumes" an image that declares volumes   *)
(* the containers do not have.                                              *)
Pull ==
    /\ worker.at = "pulling"
    /\ row' = IF worker.operation = "update" THEN [row EXCEPT !.stage = "pulling"] ELSE row
    /\ \/ \E image \in {"same", "new", "volumes"} :
              worker' = [worker EXCEPT !.at = "candidate", !.image = image]
       \/ Fail
    /\ UNCHANGED <<project, order, engine, disturbed>>

(* Second fingerprint, the store's decision about the candidate, and the    *)
(* last reasons not to begin.                                               *)
Candidate ==
    /\ worker.at = "candidate"
    /\ \/ Fail
       \/ Unchanged /\ \/ Settle("skipped", "recording")
                       \/ worker.scheduled /\ Settle("skipped", "close")
                       \/ /\ worker.image # "volumes"
                          /\ IF worker.operation = "update" /\ worker.image = "same"
                             THEN Settle("unchanged", "recording")
                             ELSE Goto("replacing")
    /\ UNCHANGED <<project, order, row, engine, disturbed>>

\* Mutant: originals are stopped in the order in which they start.
BeginReplacingFromFirst ==
    /\ worker.at = "replacing"
    /\ Save("replacing", [worker EXCEPT !.mutated = TRUE, !.i = 1], "touch")
    /\ UNCHANGED <<project, order, engine, disturbed>>

BeginReplacing ==
    /\ worker.at = "replacing"
    /\ Save("replacing", [worker EXCEPT !.mutated = TRUE, !.i = Len(order)], "touch")
    /\ UNCHANGED <<project, order, engine, disturbed>>

-----------------------------------------------------------------------------
(* The originals are stopped and retained, dependants first.                *)
Current == order[worker.i]

\* Mutant: the original is not stopped before it is replaced.
TouchWithoutStop ==
    /\ worker.at = "touch"
    /\ Save("replacing", [worker EXCEPT !.touched = @ \cup {Current}], "retain")
    /\ UNCHANGED <<project, order, engine, disturbed>>

Touch ==
    /\ worker.at = "touch"
    /\ Save("replacing", [worker EXCEPT !.touched = @ \cup {Current}],
            IF Current \in project.running THEN "stop" ELSE "retain")
    /\ UNCHANGED <<project, order, engine, disturbed>>

(* An Engine call on one container: it takes effect and the worker goes on, *)
(* or an error is reported, with the effect or without.                     *)
OriginalBecomes(e, after, proceed, fail) ==
    /\ \/ original' = [original EXCEPT ![e] = after] /\ proceed
       \/ original' \in {original, [original EXCEPT ![e] = after]} /\ fail
    /\ UNCHANGED replacement

ReplacementBecomes(e, after, proceed, fail) ==
    /\ \/ replacement' = [replacement EXCEPT ![e] = after] /\ proceed
       \/ replacement' \in {replacement, [replacement EXCEPT ![e] = after]} /\ fail
    /\ UNCHANGED original

StopOriginal ==
    /\ worker.at = "stop"
    /\ OriginalBecomes(Current, [original[Current] EXCEPT !.up = FALSE], Goto("retain"), Fail)
    /\ UNCHANGED <<project, order, row, disturbed>>

RetainOriginal ==
    /\ worker.at = "retain"
    /\ OriginalBecomes(Current, [original[Current] EXCEPT !.name = "backup"],
                       Goto("detach"), Fail)
    /\ UNCHANGED <<project, order, row, disturbed>>

DetachOriginal ==
    /\ worker.at = "detach"
    /\ OriginalBecomes(Current, [original[Current] EXCEPT !.attached = FALSE],
                       IF worker.i > 1 THEN GotoAt("touch", worker.i - 1)
                                       ELSE GotoAt("create", 1), Fail)
    /\ UNCHANGED <<project, order, row, disturbed>>

(* The replacements are created under the original names, dependencies      *)
(* first, each ready before the next.  A lost response to create leaves a   *)
(* container whose ID the journal never learns.  creation copies the        *)
(* inspected settings; whether the Engine takes them unchanged is seen only *)
(* when they are verified.                                                  *)
Created(e) ==
    {[there |-> TRUE, up |-> FALSE, same |-> same] :
        same \in IF e \in project.unsupported THEN {FALSE} ELSE BOOLEAN}

NameFree(e) == ~(original[e].there /\ original[e].name = "own")

CreateReplacement ==
    /\ worker.at = "create"
    /\ IF NameFree(Current)
       THEN \E c \in Created(Current) : ReplacementBecomes(Current, c, Goto("record"), Fail)
       ELSE Fail /\ UNCHANGED engine
    /\ UNCHANGED <<project, order, row, disturbed>>

\* Mutant: the new ID is not saved in the row.
RecordInMemory ==
    /\ worker.at = "record"
    /\ worker' = [worker EXCEPT !.made = @ \cup {Current}, !.at = "retarget"]
    /\ UNCHANGED <<project, order, row, engine, disturbed>>

RecordReplacement ==
    /\ worker.at = "record"
    /\ Save("replacing", [worker EXCEPT !.made = @ \cup {Current}], "retarget")
    /\ UNCHANGED <<project, order, engine, disturbed>>

ReserveReplacement ==
    /\ worker.at = "retarget"
    /\ \/ Goto(IF Current \in project.running \cup OneShot(project) THEN "start" ELSE "ready")
       \/ Fail
    /\ UNCHANGED <<project, order, row, engine, disturbed>>

StartReplacement ==
    /\ worker.at = "start"
    /\ ReplacementBecomes(Current, [replacement[Current] EXCEPT !.up = TRUE],
                          Goto("ready"), Fail)
    /\ UNCHANGED <<project, order, row, disturbed>>

(* ready: a running container stays up and is healthy, a stopped one stays  *)
(* stopped, a one-shot exits with code 0.                                   *)
Ready(e, c) == e \in OneShot(project) \/ c.up = (e \in project.running)

AwaitReplacement ==
    /\ worker.at = "ready"
    /\ LET done == IF Current \in OneShot(project)
                   THEN [replacement EXCEPT ![Current].up = FALSE] ELSE replacement
       IN \/ /\ Ready(Current, replacement[Current])
             /\ replacement' = done
             /\ IF worker.i < Len(order) THEN GotoAt("create", worker.i + 1)
                                         ELSE Goto("verifying")
          \/ replacement' \in {replacement, done} /\ Fail
    /\ UNCHANGED <<project, order, row, original, disturbed>>

-----------------------------------------------------------------------------
BeginVerifying ==
    /\ worker.at = "verifying"
    /\ Save("verifying", worker, "verify")
    /\ UNCHANGED <<project, order, engine, disturbed>>

(* verify: every original is retained and stopped, every replacement is     *)
(* known, has the preserved configuration, and is ready.                    *)
Verified(made) ==
    \A e \in E :
        /\ e \in made
        /\ original[e].there /\ original[e].name = "backup" /\ ~original[e].up
        /\ replacement[e].there /\ replacement[e].same
        /\ replacement[e].up = (e \in project.running)

Verify ==
    /\ worker.at = "verify"
    /\ \/ Verified(worker.made) /\ Goto("own")
       \/ Fail
    /\ UNCHANGED <<project, order, row, engine, disturbed>>

(* complete: the row is retargeted to the replacement, the result saved,    *)
(* then the job finished.                                                   *)
Own ==
    /\ worker.at = "own"
    /\ Settle("verified", "recording") \/ Goto("gone")
    /\ UNCHANGED <<project, order, row, engine, disturbed>>

Record ==
    /\ worker.at = "recording"
    /\ Save("committing", worker, "close")
    /\ UNCHANGED <<project, order, engine, disturbed>>

StatusOf(verdict) ==
    IF verdict \in {"verified", "reconciled", "unchanged", "skipped"} THEN "succeeded"
                                                                     ELSE "failed"

Finish(verdict) == row' = [row EXCEPT !.status = StatusOf(verdict), !.outcome = verdict]

Close ==
    /\ worker.at = "close"
    /\ row.status = "running"
    /\ Finish(worker.verdict) \/ UNCHANGED row
    /\ Goto("gone")
    /\ UNCHANGED <<project, order, engine, disturbed>>

-----------------------------------------------------------------------------
(* rollback: the known replacements are removed in reverse order, then each *)
(* touched original gets its name, networks and running state back, in      *)
(* start order.  The first error ends it.                                   *)
NotRestored == Settle("recovery_required", "recording")

BeginRollback ==
    /\ worker.at = "rolling"
    /\ row' \in {row, Journal(worker), [Journal(worker) EXCEPT !.stage = "rolling_back"]}
    /\ GotoAt("remove", Len(order))
    /\ UNCHANGED <<project, order, engine, disturbed>>

RemoveReplacement ==
    /\ worker.at = "remove"
    /\ LET next == IF worker.i > 1 THEN GotoAt("remove", worker.i - 1)
                                   ELSE GotoAt("restore", 1)
       IN IF Current \in worker.made
          THEN ReplacementBecomes(Current, Absent, next, NotRestored)
          ELSE next /\ UNCHANGED engine
    /\ UNCHANGED <<project, order, row, disturbed>>

\* Mutant: the loop runs one past the last original.
NextOriginalPastEnd == GotoAt("restore", worker.i + 1)

NextOriginal == IF worker.i < Len(order) THEN GotoAt("restore", worker.i + 1)
                                         ELSE Goto("disown")

(* The original name is free only when no replacement holds it.             *)
RestoreName ==
    /\ worker.at = "restore"
    /\ IF Current \notin worker.touched
       THEN NextOriginal /\ UNCHANGED engine
       ELSE IF replacement[Current].there /\ original[Current].name = "backup"
       THEN NotRestored /\ UNCHANGED engine
       ELSE OriginalBecomes(Current, [original[Current] EXCEPT !.name = "own"],
                            Goto("reattach"), NotRestored)
    /\ UNCHANGED <<project, order, row, disturbed>>

\* Mutant: a rolled-back original gets no networks.
RestoreNoNetworks ==
    /\ worker.at = "reattach"
    /\ Goto("restart")
    /\ UNCHANGED <<project, order, row, engine, disturbed>>

RestoreNetworks ==
    /\ worker.at = "reattach"
    /\ OriginalBecomes(Current, [original[Current] EXCEPT !.attached = TRUE],
                       Goto("restart"), NotRestored)
    /\ UNCHANGED <<project, order, row, disturbed>>

(* A container that was stopped and now runs was started by someone else.   *)
RestoreRunning ==
    /\ worker.at = "restart"
    /\ IF Current \in project.running
       THEN OriginalBecomes(Current, [original[Current] EXCEPT !.up = TRUE],
                            Goto("settle"), NotRestored)
       ELSE /\ IF original[Current].up THEN NotRestored ELSE Goto("settle")
            /\ UNCHANGED engine
    /\ UNCHANGED <<project, order, row, disturbed>>

AwaitOriginal ==
    /\ worker.at = "settle"
    /\ \/ Ready(Current, original[Current]) /\ NextOriginal
       \/ NotRestored
    /\ UNCHANGED <<project, order, row, engine, disturbed>>

ReserveOriginal ==
    /\ worker.at = "disown"
    /\ Settle("rolled_back", "recording") \/ NotRestored
    /\ UNCHANGED <<project, order, row, engine, disturbed>>

-----------------------------------------------------------------------------
(* The worker container is killed, at any point of its program.             *)
WorkerDies ==
    /\ worker.at \notin {"none", "gone"}
    /\ Goto("gone")
    /\ UNCHANGED <<project, order, row, engine, disturbed>>

(* Observe: with the worker gone, a job that had begun to verify is         *)
(* completed if everything is in place (Reconcile), any other is uncertain. *)
Observe ==
    /\ worker.at = "gone"
    /\ row.status = "running"
    /\ \/ /\ row.stage \in {"verifying", "committing"}
          /\ row.mutated
          /\ Verified(row.made)
          /\ Finish("reconciled")
       \/ Finish("recovery_required")
    /\ UNCHANGED <<project, order, worker, engine, disturbed>>

(* Cleanup: after verified success the retained originals are removed, in   *)
(* the journal's order; one that is no longer as retained stops it.         *)
RemoveOriginal(e) ==
    /\ worker.at = "gone"
    /\ row.outcome \in {"verified", "reconciled"}
    /\ \A d \in E : d < e => ~original[d].there
    /\ original[e].there /\ original[e].name = "backup" /\ ~original[e].up
    /\ original' = [original EXCEPT ![e].there = FALSE]
    /\ UNCHANGED <<project, order, row, worker, replacement, disturbed>>

(* The host's review; it removes nothing.                                   *)
AcknowledgeRecovery ==
    /\ worker.at = "gone"
    /\ row.outcome = "recovery_required"
    /\ row' = [row EXCEPT !.outcome = "recovery_acknowledged"]
    /\ UNCHANGED <<project, order, worker, engine, disturbed>>

(* A container exits, or someone starts or stops it from the host.          *)
HostActs(e) ==
    /\ Cardinality(disturbed) < MaxDisturbed
    /\ e \notin disturbed
    /\ project \in Confirmed
    /\ disturbed' = disturbed \cup {e}
    /\ \/ /\ original[e].there
          /\ original' = [original EXCEPT ![e].up = ~@]
          /\ UNCHANGED replacement
       \/ /\ replacement[e].there
          /\ replacement' = [replacement EXCEPT ![e].up = ~@]
          /\ UNCHANGED original
    /\ UNCHANGED <<project, order, row, worker>>

Forward ==
    \/ Prepare \/ Pull \/ Candidate \/ BeginReplacing \/ Touch \/ StopOriginal
    \/ RetainOriginal \/ DetachOriginal \/ CreateReplacement \/ RecordReplacement
    \/ ReserveReplacement \/ StartReplacement \/ AwaitReplacement \/ BeginVerifying
    \/ Verify \/ Own \/ Record \/ Close

Backward ==
    \/ BeginRollback \/ RemoveReplacement \/ RestoreName \/ RestoreNetworks
    \/ RestoreRunning \/ AwaitOriginal \/ ReserveOriginal

Next ==
    \/ \E op \in Operations, scheduled \in BOOLEAN : Submit(op, scheduled)
    \/ Forward
    \/ Backward
    \/ WorkerDies
    \/ Observe
    \/ \E e \in E : RemoveOriginal(e) \/ HostActs(e)
    \/ AcknowledgeRecovery

Spec == Init /\ [][Next]_vars

-----------------------------------------------------------------------------
(* The order the journal works through is an error exactly when the labels  *)
(* have a cycle or name a service without containers, and otherwise a start *)
(* order.                                                                   *)
OrderRespectsDependencies ==
    row.status = "none" =>
        /\ Labels(project).error <=> ~Orderable(project)
        /\ ~Labels(project).error => StartOrder(project, order)

(* Two containers on the same data never run at once: an original and its   *)
(* replacement are both up only after the host started one of them.         *)
NeverBothRunning ==
    \A e \in E \ disturbed : ~(original[e].up /\ replacement[e].up)

(* What the worker did to the Engine can be told from the row of a job      *)
(* whose worker is gone: an original that is not as inspected is journalled *)
(* as touched, and at most one replacement, the one being created, is not   *)
(* known by its ID.                                                         *)
JournalIsAhead ==
    /\ \A e \in E \ disturbed :
           original[e] # Inspected(project)[e] => row.mutated /\ e \in row.touched
    /\ Cardinality({e \in E : replacement[e].there} \ row.made) <= 1

(* Within one project the worker, going forward or back, starts a container *)
(* only when what it depends on runs, and stops an original only when no    *)
(* dependant runs.                                                          *)
Starts(c, cNext) == ~c.up /\ cNext.up
DependenciesFirst ==
    [][\A e \in E \ disturbed', d \in E \ disturbed' :
           /\ d \in Dependencies(project, e) /\ d \in project.running =>
                  /\ Starts(replacement[e], replacement'[e]) => replacement[d].up
                  /\ Starts(original[e], original'[e]) => original[d].up
           /\ e \in Dependencies(project, d) /\ Starts(original'[e], original[e]) =>
                  ~original[d].up]_vars

(* What the Engine holds for one container.  The host may have started or   *)
(* stopped a disturbed one since.                                           *)
IsOriginal(e) ==
    /\ original[e].there /\ original[e].name = "own" /\ original[e].attached
    /\ ~replacement[e].there
    /\ e \notin disturbed => original[e].up = (e \in project.running)

IsReplaced(e) ==
    /\ replacement[e].there /\ replacement[e].same
    /\ original[e].there => original[e].name = "backup"
    /\ e \notin disturbed => /\ ~original[e].up
                             /\ replacement[e].up = (e \in project.running)

(* The inductive invariant behind the properties above.  By its program     *)
(* counter the worker has retained the originals after the current one, has *)
(* created the replacements before it, or has put the originals before it   *)
(* back; the row knows what it knows, and a verdict is true when it is      *)
(* passed.                                                                  *)
Before(i) == {order[k] : k \in 1..(i - 1)}
After(i)  == {order[k] : k \in (i + 1)..Len(order)}

Early    == {"none", "preparing", "pulling", "candidate", "replacing"}
Stopping == {"touch", "stop", "retain", "detach"}
Creating == {"create", "record", "retarget", "start", "ready"}
Restoring == {"restore", "reattach", "restart", "settle"}
Mutating == Stopping \cup Creating \cup Restoring \cup {"verifying", "verify", "rolling", "remove"}

Retained(e) ==
    /\ original[e].there /\ original[e].name = "backup" /\ ~original[e].attached
    /\ e \notin disturbed => ~original[e].up

Admitted ==
    /\ order \in Seq(E)
    /\ IF worker.at = "none"
       THEN project \in Projects /\ order = ScopedOrder(project) /\ row.status = "none"
       ELSE /\ IsInjective(order) /\ Range(order) = E /\ E # {}
            /\ OneShot(project) \cap project.running = {}
            /\ row.status # "none"
    /\ worker.at \in Mutating \ {"verifying", "verify", "rolling"} => worker.i # 0

\* What the row says, compared with the Engine and with the worker's own copy.
Journalled ==
    /\ worker.at # "gone" => /\ row.mutated = worker.mutated /\ row.touched = worker.touched
                             /\ row.made = worker.made
    /\ worker.at \in Early => ~row.mutated
    /\ worker.at \in Mutating => row.mutated
    /\ ~row.mutated => row.touched = {}
    /\ \A e \in E \ row.touched : IsOriginal(e)
    /\ \A a, b \in {e \in E : replacement[e].there} \ row.made : a = b

Exclusive ==
    \A e \in E : /\ replacement[e].up => replacement[e].there
                 /\ replacement[e].there =>
                        original[e].name = "backup" /\ (e \notin disturbed => ~original[e].up)

StopPhase ==
    worker.at \in Stopping =>
        /\ \A e \in After(worker.i) : Retained(e)
        /\ \A e \in E : ~replacement[e].there
        /\ Before(worker.i) \cap row.touched = {}
        /\ Current \in row.touched <=> worker.at # "touch"
        /\ worker.at \in {"retain", "detach"} =>
               (Current \notin disturbed => ~original[Current].up)
        /\ worker.at = "detach" => original[Current].name = "backup"

CreatePhase ==
    worker.at \in Creating =>
        /\ \A e \in E : Retained(e)
        /\ Before(worker.i) \subseteq row.made
        /\ \A e \in Before(worker.i) \ disturbed : e \in project.running => replacement[e].up
        /\ \A e \in After(worker.i) : ~replacement[e].there
        /\ replacement[Current].there <=> worker.at # "create"
        /\ worker.at \in {"retarget", "start", "ready"} => Current \in row.made

RestorePhase ==
    /\ worker.at \in Restoring => \A e \in Before(worker.i) : IsOriginal(e)
    /\ worker.at \in Restoring \ {"restore"} =>
           /\ original[Current].name = "own" /\ ~replacement[Current].there
           /\ Current \in row.touched
           /\ worker.at \in {"restart", "settle"} => original[Current].attached
           /\ worker.at = "settle" => IsOriginal(Current)
    /\ worker.at = "disown" => \A e \in E : IsOriginal(e)

\* The verdict, until it is on the row, and the outcome from then on.
Holds(verdict) ==
    /\ verdict \in {"verified", "reconciled"} => \A e \in E : IsReplaced(e)
    /\ verdict \in {"unchanged", "skipped", "failed", "rolled_back"} =>
           \A e \in E : IsOriginal(e)
    /\ verdict \notin {"verified", "reconciled"} => \A e \in E : original[e].there

ResultPhase ==
    /\ row.status \in {"none", "running"} <=> row.outcome = ""
    /\ row.status \in {"succeeded", "failed"} => worker.at = "gone"
    /\ Holds(row.outcome)
    /\ worker.at = "own" => \A e \in E : IsReplaced(e)
    /\ worker.at \in {"recording", "close"} =>
           worker.verdict \notin {"", "reconciled", "recovery_acknowledged"} /\ Holds(worker.verdict)

ReplacementInv ==
    /\ TypeOK /\ Admitted /\ Journalled /\ Exclusive
    /\ StopPhase /\ CreatePhase /\ RestorePhase /\ ResultPhase

ResultOf ==
    CASE row.status \in {"none", "running"} -> "none"
      [] row.outcome \in {"verified", "reconciled"} -> "replaced"
      [] row.outcome \in {"unchanged", "skipped", "failed", "rolled_back"} -> "kept_original"
      [] row.outcome = "recovery_acknowledged" -> "reviewed"
      [] OTHER -> "review"

Promise == INSTANCE Replacement WITH
    target <- IF \A e \in E : IsOriginal(e) THEN "original"
              ELSE IF \A e \in E : IsReplaced(e) THEN "replaced" ELSE "between",
    kept <- \A e \in E : original[e].there,
    result <- ResultOf

(* Replacement by Engine calls keeps the promise of every replacement:      *)
(* success is recorded only for a complete replacement, failure without     *)
(* review only when every original is back, and originals are removed only  *)
(* after that.                                                              *)
PromiseKept == Promise!Spec
=============================================================================
