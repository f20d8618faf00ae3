----------------------- MODULE ManagedDeploymentProofs -----------------------
(***************************************************************************)
(* Proofs about ManagedDeployment.  DeploymentInv is inductive.  Its part  *)
(* about the row, the journal, the helper and the host (Base) holds        *)
(* whatever the worker does next; the other (Place) says what is so where  *)
(* the program counter is, and an action is reduced to the place it enters.*)
(***************************************************************************)
EXTENDS ManagedDeployment, TLAPS

-----------------------------------------------------------------------------
(* The parts of the invariant.                                             *)

Base == TypeOK /\ Admitted /\ Journalled /\ Helping /\ Finishing /\ StageTells /\ Results
Place == PreparePhase /\ StopPhase /\ ApplyPhase /\ RollbackPhase /\ VerdictPhase

RowType == [status : {"none", "running", "succeeded", "failed"}, stage : Stages,
            outcome : Outcomes, mutation : BOOLEAN, fileCommit : BOOLEAN,
            backup : BOOLEAN, retained : SUBSET Services]
WorkerType == [at : Steps, verdict : Outcomes, left : SUBSET Services, silent : BOOLEAN]
\* The worker after a step: a rollback that began unmarked stays one.
WorkerNext == {w \in WorkerType : worker.silent => w.silent}
HelperType == [kind : {"none", "apply", "commit", "restore"}, start : SUBSET Services,
               checked : BOOLEAN, todo : SUBSET Files, labelled : BOOLEAN]
RuntimeType == [Services -> [old : States, new : States, other : BOOLEAN]]

\* A step of the worker that leaves the host alone, and all else but its row
\* and the rollback references that the row names.
Works == DeploymentInv /\ worker.at \notin {"none", "gone"}
HostSame == UNCHANGED <<plan, runtime, files, disturbed>>
Quiet ==
    /\ HostSame /\ UNCHANGED <<saved, helper, observer, snapshot>>
    /\ tags \subseteq tags' /\ tags' \subseteq tags \cup row.retained

\* What a save of the row leaves: its result and the announcements it made;
\* and the stage it writes is true.
SameJournal ==
    /\ row' \in RowType
    /\ row'.status = row.status /\ row'.outcome = row.outcome
    /\ row'.mutation = row.mutation /\ row'.fileCommit = row.fileCommit
    /\ row'.backup = row.backup /\ row.retained \subseteq row'.retained
    /\ row'.stage \in {"verifying", "committing"} =>
           row'.stage = row.stage \/ (row.mutation /\ AllNew)

(* The invariant is its two parts.                                         *)
LEMMA Parts ==
    /\ DeploymentInv <=> Base /\ Place
    /\ DeploymentInv' <=> Base' /\ Place'
  BY DEF DeploymentInv, Base, Place

(* What the types say of each variable.                                    *)
LEMMA Types ==
    /\ TypeOK <=>
          /\ row \in RowType /\ worker \in WorkerType /\ helper \in HelperType
          /\ runtime \in RuntimeType /\ files \in [Files -> {"old", "new", "other"}]
          /\ saved \in {"old", "new"} /\ tags \subseteq Services
          /\ observer \in {"idle", "writing", "written"}
          /\ snapshot \in {"none", "taken", "restored", "removed"}
          /\ disturbed \subseteq Services \cup Files
    /\ TypeOK' <=>
          /\ row' \in RowType /\ worker' \in WorkerType /\ helper' \in HelperType
          /\ runtime' \in RuntimeType /\ files' \in [Files -> {"old", "new", "other"}]
          /\ saved' \in {"old", "new"} /\ tags' \subseteq Services
          /\ observer' \in {"idle", "writing", "written"}
          /\ snapshot' \in {"none", "taken", "restored", "removed"}
          /\ disturbed' \subseteq Services \cup Files
  BY DEF TypeOK, RowType, WorkerType, WorkerNext, HelperType, RuntimeType

(* What depends on the plan and the host only does not change with them.   *)
LEMMA HostKeeps ==
    ASSUME HostSame
    PROVE  /\ AllOld' = AllOld /\ AllNew' = AllNew /\ PeersOld' = PeersOld
           /\ FilesOld' = FilesOld /\ FilesNew' = FilesNew
           /\ \A s \in Services : AsBefore(s)' = AsBefore(s) /\ Up(s)' = Up(s)
           /\ Selected' = Selected /\ Wanted' = Wanted /\ Replaced' = Replaced
           /\ Initial' = Initial /\ Saved' = Saved /\ Hosted' = Hosted /\ Self' = Self
           /\ StopIsSafe' = StopIsSafe /\ PeersKept' = PeersKept
  BY DEF HostSame, AllOld, AllNew, PeersOld, PeersKept, FilesOld, FilesNew, AsBefore, AsAfter, Up,
         Selected, Wanted, Replaced, Initial, Saved, Hosted, Self, StopIsSafe, Inspected

(* What the assumption on the deployments says of the one at hand.         *)
LEMMA PlanIs ==
    ASSUME plan \in Plans
    PROVE  /\ plan.operation \in Operations /\ plan.route \in {"saved", "files"}
           /\ plan.scheduled \in BOOLEAN /\ plan.scoped \in BOOLEAN
           /\ plan.previous \subseteq Services /\ plan.up \subseteq plan.previous
           /\ plan.next \subseteq Services /\ plan.image \subseteq Services
           /\ plan.edited \subseteq Files
           /\ plan.yard \subseteq Selected /\ plan.yard \subseteq plan.next
           /\ Initial => plan.previous = {} /\ Selected = {} /\ Saved
           /\ plan.operation \notin {"new", "sync"} => plan.edited = {}
           /\ Self => Hosted
           /\ Hosted <=> ~Saved
           /\ Hosted => plan.operation \notin {"new", "sync"} /\ plan.edited = {}
           /\ Selected \subseteq Services /\ Replaced \subseteq plan.next
           /\ Wanted \subseteq plan.next /\ (Saved => Wanted = plan.next)
           /\ (Hosted => Selected = Replaced)
  BY DeploymentsAssumption
    DEF PlansAssumption, Selected, Replaced, Initial, Saved, Hosted, Self, Wanted

(* What is so while the worker runs.                                       *)
LEMMA Running ==
    ASSUME Works
    PROVE  /\ Base /\ Place
           /\ row \in RowType /\ worker \in WorkerType /\ helper \in HelperType
           /\ row.status = "running" /\ row.outcome = "" /\ observer = "idle"
           /\ plan \in Plans
<1>1. Base /\ Place /\ worker.at \notin {"none", "gone"}
  BY Parts DEF Works
<1>. QED
  BY <1>1, Types DEF Base, Admitted, Finishing

(* A step that changes the row's stage and the worker, no more, keeps what *)
(* is so whatever the worker does next.                                    *)
LEMMA BaseKeeps ==
    ASSUME Works, Quiet, SameJournal, Unhelped,
           worker' \in WorkerNext, worker'.at # "none"
    PROVE  Base'
<1>1. /\ Base /\ row \in RowType /\ row.status = "running" /\ row.outcome = ""
      /\ observer = "idle"
  BY Running
<1>2. TypeOK'
  <2>1. row.retained \subseteq Services
    BY <1>1 DEF RowType
  <2>. QED
    BY <1>1, <2>1, Types DEF WorkerNext, Base, SameJournal, Quiet, HostSame
<1>3. Admitted'
  BY <1>1, HostKeeps DEF Works, Base, Admitted, SameJournal, Quiet, HostSame
<1>4. Journalled'
  <2>1. /\ AllOld' = AllOld /\ PeersOld' = PeersOld /\ FilesOld' = FilesOld
        /\ Self' = Self /\ Initial' = Initial /\ StopIsSafe' = StopIsSafe
    BY HostKeeps DEF Quiet
  <2>2. Journalled
    BY <1>1 DEF Base
  <2>. QED
    BY <2>1, <2>2 DEF PeersKept, Journalled, SameJournal, Quiet, HostSame
<1>5. Helping'
  BY <1>1 DEF Base, Helping, Unhelped, Quiet
<1>6. Finishing'
  BY <1>1 DEF Finishing, Quiet
<1>7. StageTells'
  BY <1>1, HostKeeps DEF WorkerNext, Base, StageTells, SameJournal, Quiet
<1>8. Results'
  BY <1>1 DEF Results, Settled, SameJournal
<1>. QED
  BY <1>2, <1>3, <1>4, <1>5, <1>6, <1>7, <1>8 DEF Base

(* Nothing is asked of a worker that is gone, and nothing is claimed by    *)
(* one that asks for a review.                                             *)
LEMMA GonePlaces ==
    ASSUME worker'.at = "gone" \/ (worker'.at = "recording" /\ worker'.verdict = "recovery_required")
    PROVE  Place'
  BY DEF Place, PreparePhase, StopPhase, ApplyPhase, RollbackPhase, VerdictPhase, Preparing

(* A saved row, and where the worker is afterwards.                        *)
LEMMA SaveEffect ==
    ASSUME NEW stage \in Stages, NEW journalled \in RowType, NEW next \in Steps,
           row \in RowType, worker \in WorkerType, Save(stage, journalled, next)
    PROVE  /\ worker' \in WorkerNext /\ row' \in RowType
           /\ worker'.left = worker.left
           /\ \/ worker'.at = "gone" /\ row' \in {row, journalled}
              \/ worker'.at = next /\ row' = [journalled EXCEPT !.stage = stage]
  BY DEF Save, Goto, RowType, WorkerType, WorkerNext, Steps

(* The three ways a worker goes on after a failure.                        *)
LEMMA FailGoes ==
    ASSUME worker \in WorkerType
    PROVE  /\ Settle("recovery_required") =>
                  /\ worker' \in WorkerNext /\ worker'.at = "recording"
                  /\ worker'.verdict = "recovery_required"
           /\ Settle("failed") =>
                  /\ worker' \in WorkerNext /\ worker'.at = "recording"
                  /\ worker'.verdict = "failed"
           /\ Goto("rolling") =>
                  worker' \in WorkerNext /\ worker'.at = "rolling"
<1>1. /\ "recording" \in Steps /\ "rolling" \in Steps
      /\ "recovery_required" \in Outcomes /\ "failed" \in Outcomes
  BY DEF Steps, Outcomes
<1>. QED
  BY <1>1 DEF Settle, Goto, WorkerType, WorkerNext

(* A failure is recorded as such when nothing was changed, leads to the    *)
(* rollback when something was, and is otherwise for the host to review.   *)
LEMMA FailPlaces ==
    ASSUME Works, Quiet, SameJournal, Unhelped, Fail,
           Initial => row.mutation \/ ~row.fileCommit
    PROVE  worker' \in WorkerNext /\ worker'.at \in {"recording", "rolling"} /\ Place'
<1>1. /\ Base /\ row \in RowType /\ worker \in WorkerType
  BY Running
<1>2. worker' \in WorkerNext /\ worker'.at \in {"recording", "rolling"}
  BY <1>1, FailGoes DEF Fail, FailKnown
<1>3. CASE worker'.verdict = "recovery_required" /\ worker'.at = "recording"
  BY <1>2, <1>3, GonePlaces
<1>4. CASE worker'.at = "rolling" /\ ~Initial /\ (row.mutation \/ row.fileCommit)
  BY <1>1, <1>2, <1>4, HostKeeps
    DEF Base, Journalled, Place, PreparePhase, StopPhase, ApplyPhase, RollbackPhase,
        VerdictPhase, Preparing, Unhelped, SameJournal, Quiet
<1>5. CASE /\ worker'.at = "recording" /\ worker'.verdict = "failed"
           /\ Initial \/ ~(row.mutation \/ row.fileCommit)
  <2>1. Truthful(worker.verdict)'
    BY <1>1, <1>5, HostKeeps DEF Base, Journalled, Truthful, SameJournal, Quiet
  <2>. QED
    BY <1>2, <1>5, <2>1, HostKeeps
      DEF Place, PreparePhase, StopPhase, ApplyPhase, RollbackPhase, VerdictPhase,
          Preparing, Unhelped, Quiet, Restored
<1>. QED
  BY <1>1, <1>3, <1>4, <1>5 DEF Fail, FailKnown, Settle, Goto, WorkerType, WorkerNext

-----------------------------------------------------------------------------
(* The ends of a step.                                                      *)

(* The row is as it was.                                                   *)
LEMMA SameRow ==
    ASSUME Works, row' = row
    PROVE  SameJournal
  BY Running DEF SameJournal

(* The worker goes on with at most the stage of the row changed.           *)
LEMMA Proceeds ==
    ASSUME Works, Quiet, SameJournal, Unhelped,
           worker' \in WorkerNext, worker'.at # "none", Place'
    PROVE  DeploymentInv'
  BY BaseKeeps, Parts

(* It goes on after a save, which may fail.                                *)
LEMMA Saves ==
    ASSUME NEW stage \in Stages, NEW journalled \in RowType, NEW next \in Steps \ {"none"},
           Works, Quiet, Unhelped, Save(stage, journalled, next),
           SameJournal,
           worker'.at = next /\ worker'.left = worker.left /\ row'.retained = journalled.retained
               => Place'
    PROVE  DeploymentInv'
<1>1. row \in RowType /\ worker \in WorkerType
  BY Running
<1>2. /\ worker' \in WorkerNext /\ worker'.left = worker.left
      /\ worker'.at = "gone" \/ (worker'.at = next /\ row' = [journalled EXCEPT !.stage = stage])
  BY <1>1, SaveEffect
<1>3. worker'.at = "gone" \/ (worker'.at = next /\ row'.retained = journalled.retained)
  BY <1>2 DEF RowType
<1>4. Place'
  BY <1>2, <1>3, GonePlaces
<1>. QED
  BY <1>2, <1>3, <1>4, Proceeds

(* It fails.                                                               *)
LEMMA Fails ==
    ASSUME Works, Quiet, SameJournal, Unhelped, Fail,
           Initial => row.mutation \/ ~row.fileCommit
    PROVE  DeploymentInv'
<1>1. worker' \in WorkerNext /\ worker'.at \in {"recording", "rolling"} /\ Place'
  BY FailPlaces
<1>. QED
  BY <1>1, Proceeds

(* It passes a verdict that is true.                                       *)
LEMMA Settles ==
    ASSUME NEW verdict \in {"verified", "recovery_required"} \cup Restored,
           Works, Quiet, SameJournal, Unhelped, Settle(verdict),
           verdict = "verified" => Hosted /\ AllNew /\ FilesNew,
           verdict \in Restored => AllOld /\ FilesOld
    PROVE  DeploymentInv'
<1>1. row \in RowType /\ worker \in WorkerType /\ Base
  BY Running
<1>2. worker' \in WorkerNext /\ worker'.at = "recording" /\ worker'.verdict = verdict
  BY <1>1 DEF Settle, WorkerType, WorkerNext, Steps, Outcomes, Restored
<1>3. Truthful(worker.verdict)' \/ verdict = "recovery_required"
  BY <1>2, HostKeeps DEF Truthful, Quiet, Restored
<1>4. Place'
  BY <1>2, <1>3, HostKeeps
    DEF Place, PreparePhase, StopPhase, ApplyPhase, RollbackPhase, VerdictPhase,
        Preparing, Unhelped, Quiet
<1>. QED
  BY <1>2, <1>4, Proceeds

(* What is so before anything is changed.                                  *)
LEMMA Preparations ==
    ASSUME Works, worker.at \in Preparing
    PROVE  /\ row \in RowType /\ worker \in WorkerType
           /\ Unhelped /\ AllOld /\ PeersOld /\ FilesOld
           /\ ~row.mutation /\ ~row.fileCommit /\ ~row.backup
           /\ worker.at \in {"pulling", "identify", "candidate"} => Retained
           /\ worker.at = "candidate" => plan.operation # "pull"
           /\ worker.at \in {"retain", "tag"} => Selected \ worker.left \subseteq tags
           /\ worker.at = "tag" => \E s \in worker.left : s \in row.retained
<1>1. row \in RowType /\ worker \in WorkerType /\ Base /\ Place
  BY Running
<1>2. PreparePhase /\ Journalled
  BY <1>1 DEF Base, Place
<1>. QED
  BY <1>1, <1>2 DEF PreparePhase, Journalled

(* Where the worker goes on preparing.                                     *)
LEMMA PreparingPlaces ==
    ASSUME worker'.at \in Preparing, ~row'.mutation, ~row'.fileCommit, ~row'.backup, Unhelped',
           worker'.at \in {"retain", "tag"} => Selected' \ worker'.left \subseteq tags',
           worker'.at = "tag" => \E s \in worker'.left : s \in row'.retained,
           worker'.at \in {"pulling", "identify", "candidate"} => Retained',
           worker'.at = "candidate" => plan'.operation # "pull"
    PROVE  Place'
  BY DEF Place, Preparing, PreparePhase, StopPhase, ApplyPhase, RollbackPhase, VerdictPhase

-----------------------------------------------------------------------------
(* Preparing.                                                               *)

(* Begin: the source and its environment are looked at.                    *)
LEMMA BeginKeeps == ASSUME Works, Begin PROVE DeploymentInv'
<1>1. Quiet /\ worker.at = "preparing" /\ worker.at \in Preparing
  BY DEF Begin, Quiet, HostSame, host, Preparing
<1>2. row \in RowType /\ Unhelped /\ AllOld /\ FilesOld /\ ~row.mutation /\ ~row.fileCommit /\ ~row.backup
  BY <1>1, Preparations
<1>3. CASE Save("preparing", row, IF plan.operation = "pull" THEN "pulling" ELSE "checking")
  <2>1. SameJournal
    BY <1>2, <1>3 DEF Save, SameJournal, RowType, Stages
  <2>2. worker'.at \in {"pulling", "checking"} /\ (worker'.at = "pulling" => Retained') => Place'
    BY <1>1, <1>2, <2>1, PreparingPlaces DEF Preparing, Unhelped, Quiet, SameJournal
  <2>. QED
    BY <1>1, <1>2, <1>3, <2>1, <2>2, Saves DEF Retained, Stages, Steps, Quiet, HostSame
<1>4. ASSUME row' = [row EXCEPT !.stage = "preparing"]
      PROVE  SameJournal
  BY <1>2, <1>4 DEF SameJournal, RowType, Stages
<1>. QED
  BY <1>1, <1>2, <1>3, <1>4, Fails, Settles DEF Begin, Restored

(* Check: files and containers are those of the request.                   *)
LEMMA CheckKeeps == ASSUME Works, Check PROVE DeploymentInv'
<1>1. Quiet /\ worker.at = "checking" /\ worker.at \in Preparing
  BY DEF Check, Quiet, HostSame, host, Preparing
<1>2. /\ row \in RowType /\ worker \in WorkerType
      /\ Unhelped /\ AllOld /\ FilesOld /\ ~row.mutation /\ ~row.fileCommit /\ ~row.backup
  BY <1>1, Preparations
<1>3. row' = row => SameJournal
  BY SameRow
<1>4. CASE Initial /\ Goto("pulling") /\ row' = row
  <2>1. worker' \in WorkerNext /\ worker'.at = "pulling"
    BY <1>2, <1>4 DEF Goto, WorkerType, WorkerNext, Steps
  <2>2. Retained'
    BY <1>1, <1>4, Running, PlanIs, HostKeeps DEF Retained, Quiet
  <2>3. Place'
    BY <1>1, <1>2, <1>4, <2>1, <2>2, PreparingPlaces DEF Preparing, Unhelped, Quiet
  <2>. QED
    BY <1>1, <1>2, <1>3, <1>4, <2>1, <2>3, Proceeds
<1>5. CASE /\ row' = [row EXCEPT !.stage = "preparing"]
           /\ worker' = [worker EXCEPT !.at = "retain", !.left = Selected]
  <2>1. worker' \in WorkerNext /\ worker'.at = "retain" /\ worker'.left = Selected
    BY <1>2, <1>5, Running, PlanIs DEF WorkerType, WorkerNext, Steps
  <2>2. SameJournal
    BY <1>2, <1>5 DEF SameJournal, RowType, Stages
  <2>3. Selected' = Selected
    BY <1>1, HostKeeps DEF Quiet
  <2>4. Place'
    BY <1>1, <1>2, <2>1, <2>2, <2>3, PreparingPlaces DEF Preparing, Unhelped, Quiet, SameJournal
  <2>. QED
    BY <1>1, <1>2, <2>1, <2>2, <2>4, Proceeds
<1>. QED
  BY <1>1, <1>2, <1>3, <1>4, <1>5, Fails, Settles DEF Check, Restored

(* The images are pulled, on either route.                                 *)
LEMMA PullKeeps == ASSUME Works, Pull \/ PullHosted PROVE DeploymentInv'
<1>1. Quiet /\ worker.at = "pulling" /\ worker.at \in Preparing
  BY DEF Pull, PullHosted, Quiet, HostSame, host, Preparing
<1>2. /\ row \in RowType /\ Unhelped /\ Retained
      /\ ~row.mutation /\ ~row.fileCommit /\ ~row.backup
  BY <1>1, Preparations
<1>3. CASE Save("pulling", row, "identify")
  <2>1. SameJournal
    BY <1>2, <1>3 DEF Save, SameJournal, RowType, Stages
  <2>2. Retained'
    BY <1>1, <1>2, HostKeeps DEF Retained, Quiet, HostSame
  <2>3. worker'.at = "identify" => Place'
    BY <1>1, <1>2, <2>1, <2>2, PreparingPlaces DEF Preparing, Unhelped, Quiet, SameJournal
  <2>. QED
    BY <1>1, <1>2, <1>3, <2>1, <2>3, Saves DEF Stages, Steps
<1>4. CASE row' = [row EXCEPT !.stage = "pulling"] /\ Fail
  <2>1. SameJournal
    BY <1>2, <1>4 DEF SameJournal, RowType, Stages
  <2>. QED
    BY <1>1, <1>2, <1>4, <2>1, Fails
<1>. QED
  BY <1>3, <1>4 DEF Pull, PullHosted

(* The images are identified, on either route.                             *)
LEMMA IdentifyKeeps == ASSUME Works, Identify \/ IdentifyHosted PROVE DeploymentInv'
<1>1. Quiet /\ worker.at = "identify" /\ worker.at \in Preparing
  BY DEF Identify, IdentifyHosted, Quiet, HostSame, host, Preparing
<1>2. /\ row \in RowType /\ worker \in WorkerType /\ Unhelped /\ Retained /\ AllOld /\ FilesOld
      /\ ~row.mutation /\ ~row.fileCommit /\ ~row.backup
  BY <1>1, Preparations
<1>3. CASE Fail /\ row' = row
  BY <1>1, <1>2, <1>3, SameRow, Fails
<1>4. CASE row' = [row EXCEPT !.stage = "preparing"]
  <2>1. SameJournal
    BY <1>2, <1>4 DEF SameJournal, RowType, Stages
  <2>2. CASE plan.operation # "pull" /\ Goto("candidate")
    <3>1. Retained'
      BY <1>1, <1>2, HostKeeps DEF Retained, Quiet, HostSame
    <3>2. worker' \in WorkerNext /\ worker'.at = "candidate"
      BY <1>2, <2>2 DEF Goto, WorkerType, WorkerNext, Steps
    <3>3. Place'
      BY <1>1, <1>2, <2>1, <2>2, <3>1, <3>2, PreparingPlaces
        DEF Preparing, Unhelped, Quiet, HostSame, SameJournal
    <3>. QED
      BY <1>1, <1>2, <2>1, <3>2, <3>3, Proceeds
  <2>3. CASE Fail
    BY <1>1, <1>2, <2>1, <2>3, Fails
  <2>4. CASE Settle("cached") \/ Settle("skipped") \/ Settle("unchanged")
    BY <1>1, <1>2, <2>1, <2>4, Settles DEF Restored
  <2>. QED
    BY <1>1, <1>4, <2>2, <2>3, <2>4, <1>3 DEF Identify, IdentifyHosted
<1>. QED
  BY <1>3, <1>4 DEF Identify, IdentifyHosted

(* Source and containers of a deployment of host files are compared.       *)
LEMMA CheckHostedKeeps == ASSUME Works, CheckHosted PROVE DeploymentInv'
<1>1. Quiet /\ worker.at = "preparing" /\ worker.at \in Preparing /\ row' = row
  BY DEF CheckHosted, Quiet, HostSame, host, Preparing
<1>2. /\ row \in RowType /\ worker \in WorkerType /\ Unhelped
      /\ ~row.mutation /\ ~row.fileCommit /\ ~row.backup /\ SameJournal
  BY <1>1, Preparations, SameRow
<1>3. CASE plan.operation = "pull" /\ Goto("pulling")
  <2>1. worker' \in WorkerNext /\ worker'.at = "pulling"
    BY <1>2, <1>3 DEF Goto, WorkerType, WorkerNext, Steps
  <2>2. Retained'
    BY <1>1, <1>3 DEF Retained, Quiet, HostSame
  <2>3. Place'
    BY <1>1, <1>2, <2>1, <2>2, PreparingPlaces DEF Preparing, Unhelped, Quiet
  <2>. QED
    BY <1>1, <1>2, <2>1, <2>3, Proceeds
<1>4. CASE worker' = [worker EXCEPT !.at = "retain", !.left = Selected]
  <2>1. worker' \in WorkerNext /\ worker'.at = "retain" /\ worker'.left = Selected
    BY <1>2, <1>4, Running, PlanIs DEF WorkerType, WorkerNext, Steps
  <2>2. Selected' = Selected
    BY <1>1, HostKeeps DEF Quiet
  <2>3. Place'
    BY <1>1, <1>2, <2>1, <2>2, PreparingPlaces DEF Preparing, Unhelped, Quiet
  <2>. QED
    BY <1>1, <1>2, <2>1, <2>3, Proceeds
<1>. QED
  BY <1>1, <1>2, <1>3, <1>4, Fails DEF CheckHosted

(* A rollback reference is journalled before it is made.                   *)
LEMMA JournalTagKeeps == ASSUME Works, JournalTag PROVE DeploymentInv'
<1>1. Quiet /\ worker.at = "retain" /\ worker.at \in Preparing
  BY DEF JournalTag, Quiet, HostSame, host, Preparing
<1>2. /\ row \in RowType /\ worker \in WorkerType /\ Unhelped
      /\ ~row.mutation /\ ~row.fileCommit /\ ~row.backup
      /\ Selected \ worker.left \subseteq tags /\ Selected' = Selected
  BY <1>1, Preparations, HostKeeps DEF Quiet
<1>3. CASE /\ worker.left = {} /\ row' = row
           /\ Goto(IF plan.operation = "recreate" THEN "identify" ELSE "pulling")
  <2>1. worker' \in WorkerNext /\ worker'.at \in {"identify", "pulling"}
    BY <1>2, <1>3 DEF Goto, WorkerType, WorkerNext, Steps
  <2>2. Retained'
    BY <1>1, <1>2, <1>3 DEF Retained, Quiet
  <2>3. Place'
    BY <1>1, <1>2, <1>3, <2>1, <2>2, PreparingPlaces DEF Preparing, Unhelped, Quiet
  <2>. QED
    BY <1>1, <1>2, <1>3, <2>1, <2>3, SameRow, Proceeds
<1>4. ASSUME NEW s \in worker.left,
             Save("preparing", [row EXCEPT !.retained = @ \cup {s}], "tag")
      PROVE  DeploymentInv'
  <2>. DEFINE journalled == [row EXCEPT !.retained = @ \cup {s}]
  <2>1. s \in Services
    BY <1>2 DEF WorkerType, WorkerNext
  <2>2. /\ journalled \in RowType /\ journalled.retained = row.retained \cup {s}
        /\ journalled.status = row.status /\ journalled.outcome = row.outcome
        /\ journalled.mutation = row.mutation /\ journalled.fileCommit = row.fileCommit
        /\ journalled.backup = row.backup /\ journalled.stage = row.stage
    BY <1>2, <2>1 DEF RowType
  <2>3. Save("preparing", journalled, "tag")
    BY <1>4
  <2>. HIDE DEF journalled
  <2>4. SameJournal
    BY <1>2, <2>2, <2>3 DEF Save, SameJournal, RowType, Stages
  <2>5. /\ worker'.at = "tag" /\ worker'.left = worker.left
        /\ row'.retained = journalled.retained
        => Place'
    BY <1>1, <1>2, <2>2, <2>4, PreparingPlaces DEF Preparing, Unhelped, Quiet, SameJournal
  <2>. QED
    BY <1>1, <1>2, <2>2, <2>3, <2>4, <2>5, Saves DEF Stages, Steps
<1>. QED
  BY <1>3, <1>4 DEF JournalTag

(* The reference is made, or its answer is lost.                           *)
LEMMA TagImageKeeps == ASSUME Works, TagImage PROVE DeploymentInv'
<1>. DEFINE t == CHOOSE s \in worker.left : s \in row.retained
<1>1. worker.at = "tag" /\ worker.at \in Preparing /\ row' = row
  BY DEF TagImage, Preparing
<1>2. /\ row \in RowType /\ worker \in WorkerType /\ Unhelped
      /\ ~row.mutation /\ ~row.fileCommit /\ ~row.backup /\ SameJournal
      /\ Selected \ worker.left \subseteq tags
  BY <1>1, Preparations, SameRow
<1>3. t \in worker.left /\ t \in row.retained
  <2>1. \E s \in worker.left : s \in row.retained
    BY <1>1, Preparations
  <2>. QED
    BY <2>1
<1>4. \/ /\ tags' = tags \cup {t}
         /\ worker' = [worker EXCEPT !.at = "retain", !.left = @ \ {t}]
      \/ tags' \in {tags, tags \cup {t}} /\ Fail
  BY DEF TagImage
<1>. HIDE DEF t
<1>5. Quiet
  BY <1>1, <1>3, <1>4 DEF TagImage, Quiet, HostSame, host
<1>6. CASE /\ tags' = tags \cup {t}
           /\ worker' = [worker EXCEPT !.at = "retain", !.left = @ \ {t}]
  <2>1. /\ worker' \in WorkerNext /\ worker'.at = "retain"
        /\ worker'.left = worker.left \ {t}
    BY <1>2, <1>6 DEF WorkerType, WorkerNext, Steps
  <2>2. Selected' \ worker'.left \subseteq tags'
    BY <1>2, <1>5, <1>6, <2>1, HostKeeps DEF Quiet
  <2>3. Place'
    BY <1>1, <1>2, <1>5, <2>1, <2>2, PreparingPlaces DEF Preparing, Unhelped, Quiet
  <2>. QED
    BY <1>2, <1>5, <2>1, <2>3, Proceeds
<1>. QED
  BY <1>2, <1>4, <1>5, <1>6, Fails

(* The stage "verifying" is true: Compose replaced every container.        *)
LEMMA BeginVerifyingKeeps == ASSUME Works, BeginVerifying PROVE DeploymentInv'
<1>1. Quiet /\ worker.at = "verifying"
  BY Running DEF BeginVerifying, Quiet, HostSame, host
<1>2. row \in RowType /\ row.mutation /\ AllNew /\ FilesFirst /\ Unhelped
  BY <1>1, Running DEF Place, ApplyPhase
<1>3. Save("verifying", row, "verify")
  BY DEF BeginVerifying
<1>4. SameJournal
  BY <1>2, <1>3 DEF Save, SameJournal, RowType, Stages
<1>5. worker'.at = "verify" => Place'
  BY <1>1, <1>2, <1>4, HostKeeps
    DEF Place, PreparePhase, StopPhase, ApplyPhase, RollbackPhase, VerdictPhase,
        Preparing, Unhelped, FilesFirst, Quiet, SameJournal
<1>. QED
  BY <1>1, <1>2, <1>3, <1>4, <1>5, Saves DEF Stages, Steps

(* The stage "committing" is true too.                                     *)
LEMMA BeginCommitKeeps == ASSUME Works, BeginCommit PROVE DeploymentInv'
<1>1. Quiet /\ worker.at = "committing" /\ Saved
  BY Running DEF BeginCommit, Quiet, HostSame, host
<1>2. row \in RowType /\ row.mutation /\ AllNew /\ FilesNew /\ Unhelped
  BY <1>1, Running DEF Place, ApplyPhase
<1>3. Save("committing", row, "commit")
  BY DEF BeginCommit
<1>4. SameJournal
  BY <1>2, <1>3 DEF Save, SameJournal, RowType, Stages
<1>5. worker'.at = "commit" => Place'
  BY <1>1, <1>2, <1>4, HostKeeps
    DEF Place, PreparePhase, StopPhase, ApplyPhase, RollbackPhase, VerdictPhase,
        Preparing, Unhelped, Quiet, SameJournal
<1>. QED
  BY <1>1, <1>2, <1>3, <1>4, <1>5, Saves DEF Stages, Steps

(* A deployment of host files is verified when all is new.                 *)
LEMMA VerifyHostedKeeps == ASSUME Works, VerifyHosted PROVE DeploymentInv'
<1>1. Quiet /\ worker.at = "verify" /\ Hosted /\ row' = row
  BY DEF VerifyHosted, Quiet, HostSame, host
<1>2. row \in RowType /\ row.mutation /\ AllNew /\ FilesFirst /\ Unhelped /\ Base /\ plan \in Plans
  BY <1>1, Running DEF Place, ApplyPhase
<1>3. FilesNew
  BY <1>1, <1>2, PlanIs DEF FilesFirst, FilesNew, FilesOld, Base, Journalled
<1>. QED
  BY <1>1, <1>2, <1>3, SameRow, Fails, Settles DEF VerifyHosted, Restored

(* A rollback is recorded as one when all is old.                          *)
LEMMA VerifyPreviousKeeps == ASSUME Works, VerifyPrevious \/ PreviousRestored PROVE DeploymentInv'
<1>1. Quiet /\ worker.at = "previous" /\ row' = row
  BY DEF VerifyPrevious, PreviousRestored, Quiet, HostSame, host
<1>2. AllOld /\ FilesOld /\ Unhelped
  BY <1>1, Running DEF Place, RollbackPhase
<1>. QED
  BY <1>1, <1>2, SameRow, Settles DEF VerifyPrevious, PreviousRestored, NotRestored, Restored

-----------------------------------------------------------------------------
(* Announcements and helpers.                                               *)

\* A step of the worker that announces something, and may start a helper or
\* copy the database.
RowGrows ==
    /\ row' \in RowType /\ row'.status = row.status /\ row'.outcome = row.outcome
    /\ row'.retained = row.retained
    /\ row.mutation => row'.mutation
    /\ row.fileCommit => row'.fileCommit
    /\ row.backup => row'.backup
    /\ row'.mutation => plan.operation # "pull"
    /\ row'.fileCommit => plan.operation \in {"new", "sync"} /\ (Initial \/ row'.mutation)
    /\ row'.backup => Self /\ row'.mutation
    /\ row'.stage \in {"verifying", "committing"} =>
           row'.stage = row.stage \/ (row'.mutation /\ AllNew)
Moves ==
    /\ HostSame /\ UNCHANGED <<saved, tags, observer>>
    /\ snapshot' = snapshot \/ (row.backup /\ snapshot' \in {"taken", "restored"})

(* Such a step keeps what is so whatever the worker does next, if the      *)
(* helper is one the journal allows.                                       *)
LEMMA BaseMoves ==
    ASSUME Works, Moves, RowGrows, helper' \in HelperType, Helping',
           worker' \in WorkerNext, worker'.at # "none"
    PROVE  Base'
<1>1. /\ Base /\ row \in RowType /\ row.status = "running" /\ row.outcome = ""
      /\ observer = "idle"
  BY Running
<1>2. TypeOK'
  BY <1>1, Types DEF WorkerNext, Base, RowGrows, Moves, HostSame
<1>3. Admitted'
  BY <1>1, HostKeeps DEF Works, Base, Admitted, RowGrows, Moves, HostSame
<1>4. Journalled'
  <2>1. /\ AllOld' = AllOld /\ PeersOld' = PeersOld /\ FilesOld' = FilesOld
        /\ Self' = Self /\ Initial' = Initial /\ StopIsSafe' = StopIsSafe
    BY HostKeeps DEF Moves
  <2>2. Journalled
    BY <1>1 DEF Base
  <2>. QED
    BY <2>1, <2>2 DEF PeersKept, Journalled, RowGrows, Moves, HostSame
<1>6. Finishing'
  BY <1>1 DEF Finishing, Moves
<1>7. StageTells'
  BY <1>1, HostKeeps DEF WorkerNext, Base, StageTells, RowGrows, Moves
<1>8. Results'
  BY <1>1 DEF Results, Settled, RowGrows
<1>. QED
  BY <1>2, <1>3, <1>4, <1>6, <1>7, <1>8 DEF Base

(* No helper needs no journal.                                             *)
LEMMA NoHelp ==
    ASSUME helper' = Idle \/ (helper' = helper /\ Unhelped), Works
    PROVE  helper' \in HelperType /\ Helping' /\ Unhelped'
<1>1. helper \in HelperType /\ (Unhelped => ~helper.checked)
  BY Running DEF Base, Helping, Unhelped
<1>2. Idle \in HelperType /\ Idle.kind = "none" /\ ~Idle.checked
  BY DEF Idle, HelperType
<1>3. helper' \in HelperType /\ helper'.kind = "none" /\ ~helper'.checked
  BY <1>1, <1>2 DEF Unhelped
<1>. QED
  BY <1>3 DEF Helping, Unhelped

(* Compose may be started once the row says that containers are changed,   *)
(* while none of the new ones runs yet.                                    *)
LEMMA ComposeHelps ==
    ASSUME NEW start \in SUBSET Services, start \subseteq Wanted',
           helper' = Compose(start), row'.mutation, row'.stage = "replacing",
           worker'.at \in {"applying", "starting", "gone"},
           \A s \in plan'.next \ disturbed' : runtime'[s].new = "up" => s \in start
    PROVE  /\ helper' \in HelperType /\ Helping'
           /\ helper'.kind = "apply" /\ helper'.start = start
<1>1. /\ helper' \in HelperType /\ helper'.kind = "apply" /\ helper'.start = start
      /\ helper'.labelled /\ ~helper'.checked
  BY DEF Compose, Idle, HelperType
<1>. QED
  BY <1>1 DEF Helping, Waiting

(* The script may be started once the row announces a commit.              *)
LEMMA ScriptHelps ==
    ASSUME NEW mode \in {"commit", "restore"}, NEW labelled \in BOOLEAN,
           helper' = Script(mode, labelled), row'.fileCommit,
           IF labelled THEN worker'.at \in Waiting
           ELSE worker'.at = "gone" /\ mode = "commit" /\ row'.stage = "committing_files"
    PROVE  /\ helper' \in HelperType /\ Helping'
           /\ helper'.kind = mode /\ helper'.labelled = labelled
<1>1. /\ helper' \in HelperType /\ helper'.kind = mode /\ helper'.labelled = labelled
      /\ ~helper'.checked /\ helper'.todo = Files
  BY DEF Script, Idle, HelperType
<1>. QED
  BY <1>1 DEF Helping

(* The row of a save that was announced in it.                             *)
LEMMA Announced ==
    ASSUME Works, NEW stage \in Stages \ {"verifying", "committing"},
           NEW next \in Steps, NEW journalled \in RowType,
           Save(stage, journalled, next),
           journalled.status = row.status, journalled.outcome = row.outcome,
           journalled.stage = row.stage, journalled.retained = row.retained,
           row.mutation => journalled.mutation, row.fileCommit => journalled.fileCommit,
           row.backup => journalled.backup,
           journalled.mutation => plan.operation # "pull",
           journalled.fileCommit =>
               plan.operation \in {"new", "sync"} /\ (Initial \/ journalled.mutation),
           journalled.backup => Self /\ journalled.mutation
    PROVE  /\ RowGrows /\ worker' \in WorkerNext /\ worker'.left = worker.left
           /\ \/ worker'.at = "gone"
              \/ /\ worker'.at = next /\ row'.stage = stage
                 /\ row'.mutation = journalled.mutation
                 /\ row'.fileCommit = journalled.fileCommit
                 /\ row'.backup = journalled.backup
<1>1. row \in RowType /\ worker \in WorkerType /\ Base
  BY Running
<1>2. /\ worker' \in WorkerNext /\ row' \in RowType
      /\ worker'.left = worker.left
      /\ \/ worker'.at = "gone" /\ row' \in {row, journalled}
         \/ worker'.at = next /\ row' = [journalled EXCEPT !.stage = stage]
  BY <1>1, SaveEffect
<1>3. CASE row' = [journalled EXCEPT !.stage = stage] /\ worker'.at = next
  BY <1>2, <1>3 DEF RowGrows, RowType
<1>4. CASE worker'.at = "gone" /\ row' = journalled
  BY <1>2, <1>4 DEF RowGrows
<1>5. CASE worker'.at = "gone" /\ row' = row
  BY <1>1, <1>2, <1>5 DEF RowGrows, Base, Journalled
<1>. QED
  BY <1>2, <1>3, <1>4, <1>5

(* The step after it, given the helper and the place.                      *)
LEMMA Announces ==
    ASSUME Works, Moves, RowGrows, worker' \in WorkerNext, worker'.at # "none",
           helper' \in HelperType, Helping', Place'
    PROVE  DeploymentInv'
  BY BaseMoves, Parts

-----------------------------------------------------------------------------
(* The way forward.                                                         *)

(* A service that is as before has no container of this operation.         *)
LEMMA BeforeIsOld ==
    /\ \A s \in Services : AsBefore(s) => runtime[s].new = "none"
    /\ plan \in Plans /\ AllOld => \A s \in plan.next : runtime[s].new = "none"
<1>1. \A s \in Services : AsBefore(s) => runtime[s].new = "none"
  BY DEF AsBefore, Inspected
<1>. QED
  BY <1>1, PlanIs DEF AllOld

(* Candidate: nothing is to be done, or an initial deployment announces    *)
(* and starts the commit of its files, or the replacement begins.          *)
LEMMA CandidateKeeps == ASSUME Works, Candidate PROVE DeploymentInv'
<1>1. /\ worker.at = "candidate" /\ worker.at \in Preparing /\ Saved
      /\ HostSame /\ UNCHANGED <<saved, tags, observer, snapshot>>
  BY DEF Candidate, HostSame, host, Preparing
<1>2. /\ row \in RowType /\ worker \in WorkerType /\ Unhelped /\ AllOld /\ FilesOld
      /\ ~row.mutation /\ ~row.fileCommit /\ ~row.backup
      /\ Retained /\ plan.operation # "pull"
  BY <1>1, Preparations
<1>3. UNCHANGED <<row, helper>> => Quiet /\ SameJournal
  BY <1>1, SameRow DEF Quiet
<1>4. CASE ~Initial /\ Goto("replacing") /\ UNCHANGED <<row, helper>>
  <2>1. worker' \in WorkerNext /\ worker'.at = "replacing"
    BY <1>2, <1>4 DEF Goto, WorkerType, WorkerNext, Steps
  <2>2. Place'
    BY <1>1, <1>2, <1>4, <2>1, HostKeeps
      DEF Place, PreparePhase, StopPhase, ApplyPhase, RollbackPhase, VerdictPhase,
          Preparing, Unhelped, FilesFirst, Retained, HostSame
  <2>. QED
    BY <1>2, <1>3, <1>4, <2>1, <2>2, Proceeds
<1>5. CASE /\ Initial
           /\ Save("writing_files", [row EXCEPT !.fileCommit = TRUE], "writing_files")
           /\ helper' = IF worker'.at = "gone" THEN Idle ELSE Script("commit", TRUE)
  <2>. DEFINE journalled == [row EXCEPT !.fileCommit = TRUE]
  <2>1. /\ journalled \in RowType /\ journalled.fileCommit
        /\ journalled.status = row.status /\ journalled.outcome = row.outcome
        /\ journalled.mutation = row.mutation /\ journalled.retained = row.retained
        /\ journalled.backup = row.backup /\ journalled.stage = row.stage
    BY <1>2 DEF RowType
  <2>2. Save("writing_files", journalled, "writing_files")
    BY <1>5
  <2>. HIDE DEF journalled
  <2>3. /\ RowGrows /\ worker' \in WorkerNext
        /\ worker'.at = "gone" \/ (/\ worker'.at = "writing_files" /\ row'.fileCommit
                                   /\ ~row'.mutation)
    BY ZenonT(40), <1>2, <1>5, <2>1, <2>2, Announced DEF Stages, Steps, Initial
  <2>4. CASE worker'.at = "gone"
    BY <1>1, <1>5, <2>3, <2>4, GonePlaces, NoHelp, Announces DEF Moves
  <2>5. CASE worker'.at = "writing_files" /\ row'.fileCommit /\ ~row'.mutation
    <3>1. /\ helper' \in HelperType /\ Helping'
          /\ helper'.kind = "commit" /\ helper'.labelled
      BY <1>5, <2>5, ScriptHelps DEF Waiting
    <3>2. Place'
      BY <1>1, <1>5, <2>5, <3>1, HostKeeps
        DEF Place, PreparePhase, StopPhase, ApplyPhase, RollbackPhase, VerdictPhase, Preparing
    <3>. QED
      BY <1>1, <2>3, <2>5, <3>1, <3>2, Announces DEF Moves
  <2>. QED
    BY <2>3, <2>4, <2>5
<1>. QED
  BY <1>2, <1>3, <1>4, <1>5, Fails, Settles DEF Candidate, Restored

(* BeginReplacing: the row says that containers are changed before Compose *)
(* is started.                                                             *)
LEMMA BeginReplacingKeeps == ASSUME Works, BeginReplacing PROVE DeploymentInv'
<1>1. /\ worker.at = "replacing" /\ Saved
      /\ HostSame /\ UNCHANGED <<saved, tags, observer, snapshot>>
      /\ helper' = IF worker'.at = "gone" THEN Idle ELSE Compose(plan.next)
  BY DEF BeginReplacing, HostSame, host
<1>2. /\ row \in RowType /\ worker \in WorkerType /\ Base /\ plan \in Plans
      /\ ~row.mutation /\ ~row.backup
      /\ plan.operation # "pull" /\ FilesFirst /\ AllOld
  BY <1>1, Running DEF Place, StopPhase, Base, Journalled
<1>. DEFINE journalled == [row EXCEPT !.mutation = TRUE]
<1>3. /\ journalled \in RowType /\ journalled.mutation
      /\ journalled.status = row.status /\ journalled.outcome = row.outcome
      /\ journalled.fileCommit = row.fileCommit /\ journalled.retained = row.retained
      /\ journalled.backup = row.backup /\ journalled.stage = row.stage
  BY <1>2 DEF RowType
<1>4. Save("replacing", journalled, "applying")
  BY DEF BeginReplacing
<1>. HIDE DEF journalled
<1>5. /\ RowGrows /\ worker' \in WorkerNext
      /\ worker'.at = "gone" \/ (/\ worker'.at = "applying" /\ row'.stage = "replacing"
                                 /\ row'.mutation /\ row'.fileCommit = row.fileCommit)
  BY <1>2, <1>3, <1>4, Announced DEF Stages, Steps, Base, Journalled
<1>6. CASE worker'.at = "gone"
  BY <1>1, <1>5, <1>6, GonePlaces, NoHelp, Announces DEF Moves
<1>7. CASE /\ worker'.at = "applying" /\ row'.stage = "replacing"
           /\ row'.mutation /\ row'.fileCommit = row.fileCommit
  <2>1. /\ plan.next \in SUBSET Services /\ plan.next \subseteq Wanted'
        /\ Saved' /\ plan' = plan /\ FilesNew' = FilesNew /\ Initial' = Initial
    BY <1>1, <1>2, PlanIs, HostKeeps DEF HostSame
  <2>2. \A s \in plan'.next : runtime'[s].new = "none"
    BY <1>1, <1>2, BeforeIsOld DEF HostSame
  <2>3. /\ helper' \in HelperType /\ Helping'
        /\ helper'.kind = "apply" /\ helper'.start = plan.next
    BY <1>1, <1>7, <2>1, <2>2, ComposeHelps
  <2>4. Place'
    BY <1>2, <1>7, <2>1, <2>3
      DEF Place, PreparePhase, StopPhase, ApplyPhase, RollbackPhase, VerdictPhase, Preparing,
          FilesFirst
  <2>. QED
    BY <1>1, <1>5, <1>7, <2>3, <2>4, Announces DEF Moves
<1>. QED
  BY <1>5, <1>6, <1>7

(* BeginHosted: the same for host files, whose containers are only created *)
(* at first; Yard's are stopped before.                                    *)
LEMMA BeginHostedKeeps == ASSUME Works, BeginHosted PROVE DeploymentInv'
<1>1. /\ worker.at = "candidate" /\ worker.at \in Preparing /\ Hosted
      /\ HostSame /\ UNCHANGED <<saved, tags, observer, snapshot>>
  BY DEF BeginHosted, HostSame, host, Preparing
<1>2. /\ row \in RowType /\ worker \in WorkerType /\ plan \in Plans
      /\ Unhelped /\ AllOld /\ FilesOld
      /\ ~row.mutation /\ ~row.fileCommit /\ ~row.backup
      /\ Retained /\ plan.operation # "pull"
  BY <1>1, Preparations, Running
<1>3. UNCHANGED <<row, helper>> => Quiet /\ SameJournal
  BY <1>1, SameRow DEF Quiet
<1>4. CASE /\ Save("replacing", [row EXCEPT !.mutation = TRUE],
                   IF Self THEN "journal_backup" ELSE "applying")
           /\ helper' = IF worker'.at = "applying" THEN Compose({}) ELSE helper
  <2>. DEFINE journalled == [row EXCEPT !.mutation = TRUE]
              next == IF Self THEN "journal_backup" ELSE "applying"
  <2>1. /\ journalled \in RowType /\ journalled.mutation
        /\ journalled.status = row.status /\ journalled.outcome = row.outcome
        /\ journalled.fileCommit = row.fileCommit /\ journalled.retained = row.retained
        /\ journalled.backup = row.backup /\ journalled.stage = row.stage
    BY <1>2 DEF RowType
  <2>2. Save("replacing", journalled, next)
    BY <1>4
  <2>3. next \in Steps
    BY DEF Steps
  <2>. HIDE DEF journalled, next
  <2>4. /\ RowGrows /\ worker' \in WorkerNext
        /\ worker'.at = "gone" \/ (/\ worker'.at = next /\ row'.stage = "replacing"
                                   /\ row'.mutation /\ row'.fileCommit = row.fileCommit)
    BY <1>2, <2>1, <2>2, <2>3, Announced DEF Stages
  <2>5. \A s \in plan'.next : runtime'[s].new = "none"
    BY <1>1, <1>2, BeforeIsOld DEF HostSame
  <2>6. CASE worker'.at = "gone"
    BY <1>1, <1>2, <1>4, <2>4, <2>6, GonePlaces, NoHelp, Announces DEF Moves
  <2>7. CASE /\ worker'.at = "journal_backup" /\ Self /\ row'.stage = "replacing"
             /\ row'.mutation /\ row'.fileCommit = row.fileCommit
    <3>1. helper' \in HelperType /\ Helping' /\ Unhelped'
      BY <1>2, <1>4, <2>7, NoHelp
    <3>2. Place'
      BY <1>1, <1>2, <2>5, <2>7, <3>1, HostKeeps
        DEF Place, PreparePhase, StopPhase, ApplyPhase, RollbackPhase, VerdictPhase, Preparing
    <3>. QED
      BY <1>1, <2>4, <2>7, <3>1, <3>2, Announces DEF Moves
  <2>8. CASE /\ worker'.at = "applying" /\ row'.stage = "replacing"
             /\ row'.mutation /\ row'.fileCommit = row.fileCommit
    <3>1. /\ helper' \in HelperType /\ Helping'
          /\ helper'.kind = "apply" /\ helper'.start = {}
      BY <1>4, <2>5, <2>8, ComposeHelps
    <3>2. FilesFirst'
      BY <1>1, <1>2, <2>8, PlanIs, HostKeeps DEF FilesFirst, Initial
    <3>3. ~Saved'
      BY <1>1, <1>2, PlanIs, HostKeeps
    <3>4. Place'
      BY <2>8, <3>1, <3>2, <3>3
        DEF Place, PreparePhase, StopPhase, ApplyPhase, RollbackPhase, VerdictPhase, Preparing
    <3>. QED
      BY <1>1, <2>4, <2>8, <3>1, <3>4, Announces DEF Moves
  <2>. QED
    BY <2>4, <2>6, <2>7, <2>8 DEF next
<1>. QED
  BY <1>2, <1>3, <1>4, Fails, Settles DEF BeginHosted, Restored

(* What is so while Yard's containers are being stopped.                   *)
LEMMA Stopping ==
    ASSUME Works, worker.at \in {"journal_backup", "stop", "backup"}
    PROVE  /\ row \in RowType /\ worker \in WorkerType /\ plan \in Plans /\ Base
           /\ Hosted /\ Self /\ row.mutation /\ row.stage = "replacing" /\ Unhelped
           /\ ~row.fileCommit /\ ~Initial
           /\ worker.at \in {"stop", "backup"} => row.backup
           /\ \A s \in plan.next : runtime[s].new = "none"
<1>1. row \in RowType /\ worker \in WorkerType /\ plan \in Plans /\ Base /\ StopPhase /\ Journalled
  BY Running DEF Place, Base
<1>. QED
  BY <1>1, PlanIs DEF StopPhase, Journalled, Initial

(* JournalBackup: the copy of the database is announced.                   *)
LEMMA JournalBackupKeeps == ASSUME Works, JournalBackup PROVE DeploymentInv'
<1>1. /\ worker.at = "journal_backup"
      /\ HostSame /\ UNCHANGED <<saved, tags, helper, observer, snapshot>>
  BY DEF JournalBackup, HostSame, host
<1>2. /\ row \in RowType /\ Base /\ Hosted /\ Self /\ row.mutation
      /\ ~row.fileCommit /\ Unhelped /\ plan.operation # "pull"
      /\ \A s \in plan.next : runtime[s].new = "none"
  BY <1>1, Stopping DEF Base, Journalled
<1>. DEFINE journalled == [row EXCEPT !.backup = TRUE]
<1>3. /\ journalled \in RowType /\ journalled.backup
      /\ journalled.status = row.status /\ journalled.outcome = row.outcome
      /\ journalled.fileCommit = row.fileCommit /\ journalled.retained = row.retained
      /\ journalled.mutation = row.mutation /\ journalled.stage = row.stage
  BY <1>2 DEF RowType
<1>4. Save("replacing", journalled, "stop")
  BY DEF JournalBackup
<1>. HIDE DEF journalled
<1>5. /\ RowGrows /\ worker' \in WorkerNext
      /\ worker'.at = "gone" \/ (/\ worker'.at = "stop" /\ row'.stage = "replacing"
                                 /\ row'.mutation /\ row'.backup)
  <2>1. "replacing" \in Stages \ {"verifying", "committing"} /\ "stop" \in Steps
    BY DEF Stages, Steps
  <2>. QED
    BY <1>2, <1>3, <1>4, <2>1, Announced
<1>6. helper' \in HelperType /\ Helping' /\ Unhelped'
  BY <1>1, <1>2, NoHelp
<1>7. CASE worker'.at = "gone"
  BY <1>1, <1>5, <1>6, <1>7, GonePlaces, Announces DEF Moves
<1>8. CASE /\ worker'.at = "stop" /\ row'.stage = "replacing"
           /\ row'.mutation /\ row'.backup
  <2>1. Place'
    BY <1>1, <1>2, <1>6, <1>8, HostKeeps
      DEF Place, PreparePhase, StopPhase, ApplyPhase, RollbackPhase, VerdictPhase, Preparing,
          HostSame
  <2>. QED
    BY <1>1, <1>5, <1>6, <1>8, <2>1, Announces DEF Moves
<1>. QED
  BY <1>5, <1>7, <1>8

(* Backup: the copy is made, and Compose creates the new containers.       *)
LEMMA BackupKeeps == ASSUME Works, Backup PROVE DeploymentInv'
<1>1. /\ worker.at = "backup" /\ row' = row
      /\ HostSame /\ UNCHANGED <<saved, tags, observer>>
  BY DEF Backup, HostSame, host
<1>2. /\ row \in RowType /\ worker \in WorkerType /\ Base /\ plan \in Plans
      /\ Hosted /\ row.mutation /\ row.stage = "replacing"
      /\ ~row.fileCommit /\ ~Initial /\ row.backup /\ Unhelped
      /\ \A s \in plan.next : runtime[s].new = "none"
  BY <1>1, Stopping
<1>3. CASE Fail /\ UNCHANGED <<snapshot, helper>>
  BY <1>1, <1>2, <1>3, SameRow, Fails DEF Quiet
<1>4. CASE snapshot' = "taken" /\ helper' = Compose({}) /\ Goto("applying")
  <2>1. worker' \in WorkerNext /\ worker'.at = "applying"
    BY <1>2, <1>4 DEF Goto, WorkerType, WorkerNext, Steps
  <2>2. RowGrows
    BY <1>1, <1>2 DEF RowGrows, Base, Journalled
  <2>3. Moves
    BY <1>1, <1>2, <1>4 DEF Moves
  <2>4. \A s \in plan'.next : runtime'[s].new = "none"
    BY <1>1, <1>2 DEF HostSame
  <2>5. /\ helper' \in HelperType /\ Helping'
        /\ helper'.kind = "apply" /\ helper'.start = {}
    BY <1>1, <1>2, <1>4, <2>1, <2>4, ComposeHelps
  <2>6. ~Saved' /\ FilesFirst'
    BY <1>1, <1>2, PlanIs, HostKeeps DEF FilesFirst
  <2>7. Place'
    BY <1>1, <1>2, <2>1, <2>5, <2>6
      DEF Place, PreparePhase, StopPhase, ApplyPhase, RollbackPhase, VerdictPhase, Preparing
  <2>. QED
    BY <2>1, <2>2, <2>3, <2>5, <2>7, Announces
<1>. QED
  BY <1>3, <1>4 DEF Backup

(* Verify: a source that is synchronised commits its files next, another   *)
(* has no files to commit.                                                 *)
LEMMA VerifyKeeps == ASSUME Works, Verify PROVE DeploymentInv'
<1>1. /\ worker.at = "verify" /\ Saved
      /\ HostSame /\ UNCHANGED <<saved, tags, observer, snapshot>>
  BY DEF Verify, HostSame, host
<1>2. /\ row \in RowType /\ worker \in WorkerType /\ Base /\ plan \in Plans
      /\ row.mutation /\ AllNew /\ FilesFirst /\ Unhelped
  BY <1>1, Running DEF Place, ApplyPhase
<1>3. UNCHANGED <<row, helper>> => Quiet /\ SameJournal
  BY <1>1, SameRow DEF Quiet
<1>4. CASE /\ plan.operation # "sync" /\ Goto("committing") /\ UNCHANGED <<row, helper>>
  <2>1. worker' \in WorkerNext /\ worker'.at = "committing"
    BY <1>2, <1>4 DEF Goto, WorkerType, WorkerNext, Steps
  <2>2. FilesNew
    BY <1>2, <1>4, PlanIs DEF FilesFirst, FilesNew, FilesOld, Base, Journalled, Initial
  <2>3. Place'
    BY <1>1, <1>2, <1>4, <2>1, <2>2, HostKeeps
      DEF Place, PreparePhase, StopPhase, ApplyPhase, RollbackPhase, VerdictPhase,
          Preparing, Unhelped
  <2>. QED
    BY <1>2, <1>3, <1>4, <2>1, <2>3, Proceeds
<1>5. CASE /\ plan.operation = "sync"
           /\ Save("committing_files", [row EXCEPT !.fileCommit = TRUE], "committing_files")
           /\ helper' = IF worker'.at = "gone" THEN Idle ELSE Script("commit", TRUE)
  <2>. DEFINE journalled == [row EXCEPT !.fileCommit = TRUE]
  <2>1. /\ journalled \in RowType /\ journalled.fileCommit
        /\ journalled.status = row.status /\ journalled.outcome = row.outcome
        /\ journalled.mutation = row.mutation /\ journalled.retained = row.retained
        /\ journalled.backup = row.backup /\ journalled.stage = row.stage
    BY <1>2 DEF RowType
  <2>2. Save("committing_files", journalled, "committing_files")
    BY <1>5
  <2>. HIDE DEF journalled
  <2>3. /\ RowGrows /\ worker' \in WorkerNext
        /\ worker'.at = "gone" \/ (/\ worker'.at = "committing_files" /\ row'.fileCommit
                                   /\ row'.mutation)
    <3>1. /\ journalled.backup => Self /\ journalled.mutation
          /\ row.mutation => journalled.mutation
          /\ row.fileCommit => journalled.fileCommit
          /\ row.backup => journalled.backup
          /\ journalled.mutation /\ plan.operation \in {"new", "sync"}
      BY <1>2, <1>5, <2>1 DEF Base, Journalled
    <3>2. "committing_files" \in Stages \ {"verifying", "committing"}
      BY DEF Stages
    <3>3. "committing_files" \in Steps
      BY DEF Steps
    <3>. QED
      BY <1>5, <2>1, <2>2, <3>1, <3>2, <3>3, Announced
  <2>4. CASE worker'.at = "gone"
    BY <1>1, <1>5, <2>3, <2>4, GonePlaces, NoHelp, Announces DEF Moves
  <2>5. CASE worker'.at = "committing_files" /\ row'.fileCommit /\ row'.mutation
    <3>1. /\ helper' \in HelperType /\ Helping'
          /\ helper'.kind = "commit" /\ helper'.labelled
      BY <1>5, <2>5, ScriptHelps DEF Waiting
    <3>2. Place'
      BY <1>1, <1>2, <2>5, <3>1, HostKeeps
        DEF Place, PreparePhase, StopPhase, ApplyPhase, RollbackPhase, VerdictPhase, Preparing
    <3>. QED
      BY <1>1, <2>3, <2>5, <3>1, <3>2, Announces DEF Moves
  <2>. QED
    BY <2>3, <2>4, <2>5
<1>. QED
  BY <1>2, <1>3, <1>4, <1>5, Fails DEF Verify

-----------------------------------------------------------------------------
(* Recording and rolling back.                                              *)

(* Commit: metadata and result in one transaction, when all is new.        *)
LEMMA CommitKeeps == ASSUME Works, Commit PROVE DeploymentInv'
<1>1. /\ worker.at = "commit" /\ Saved
      /\ HostSame /\ UNCHANGED <<tags, helper, observer, snapshot>>
  BY DEF Commit, HostSame, host
<1>2. /\ row \in RowType /\ worker \in WorkerType /\ Base /\ plan \in Plans
      /\ row.mutation /\ AllNew /\ FilesNew /\ Unhelped /\ observer = "idle"
  BY <1>1, Running DEF Place, ApplyPhase
<1>3. CASE Fail /\ UNCHANGED <<row, saved>>
  BY <1>1, <1>2, <1>3, SameRow, Fails DEF Quiet
<1>4. CASE CommitAs("verified") /\ Goto("gone")
  <2>1. /\ worker' \in WorkerNext /\ worker'.at = "gone"
        /\ row' \in RowType /\ row'.status = "succeeded" /\ row'.outcome = "verified"
        /\ row'.stage = row.stage /\ row'.mutation = row.mutation
        /\ row'.fileCommit = row.fileCommit /\ row'.backup = row.backup
        /\ row'.retained = row.retained /\ saved' = "new"
    BY <1>2, <1>4 DEF CommitAs, Goto, WorkerType, WorkerNext, RowType, Steps, Outcomes
  <2>2. TypeOK'
    BY <1>1, <1>2, <2>1, Types DEF WorkerNext, Base, HostSame
  <2>3. Admitted'
    BY <1>1, <1>2, <2>1 DEF Admitted, HostSame
  <2>4. Journalled'
    BY <1>1, <1>2, <2>1, HostKeeps DEF Base, Journalled, HostSame
  <2>5. Helping' /\ Finishing'
    BY <1>1, <1>2, <2>1 DEF Base, Helping, Unhelped, Finishing
  <2>6. StageTells'
    BY <1>1, <1>2, <2>1, HostKeeps DEF StageTells
  <2>7. Results'
    BY <1>1, <1>2, <2>1, HostKeeps DEF Results, Truthful, Restored, Recovery, Unhelped
  <2>. QED
    BY <2>1, <2>2, <2>3, <2>4, <2>5, <2>6, <2>7, GonePlaces, Parts DEF Base
<1>. QED
  BY <1>3, <1>4 DEF Commit

(* Record: the row has the verdict as its outcome.                         *)
LEMMA RecordKeeps == ASSUME Works, Record PROVE DeploymentInv'
<1>1. /\ worker.at = "recording"
      /\ HostSame /\ UNCHANGED <<saved, tags, helper, observer, snapshot>>
  BY DEF Record, HostSame, host
<1>2. /\ row \in RowType /\ worker \in WorkerType /\ Base /\ plan \in Plans
      /\ observer = "idle" /\ VerdictPhase /\ row.outcome = ""
  BY <1>1, Running DEF Place
<1>3. /\ worker' \in WorkerNext /\ worker'.at = "gone"
      /\ row' \in RowType /\ row'.outcome = worker.verdict
      /\ row'.status \in {"succeeded", "failed"}
      /\ row'.stage = row.stage /\ row'.mutation = row.mutation
      /\ row'.fileCommit = row.fileCommit /\ row'.backup = row.backup
      /\ row'.retained = row.retained
  BY <1>2 DEF Record, Goto, WorkerType, WorkerNext, RowType, Steps
<1>4. TypeOK'
  BY <1>1, <1>2, <1>3, Types DEF WorkerNext, Base, HostSame
<1>5. Admitted'
  BY <1>1, <1>2, <1>3, HostKeeps DEF Base, Admitted, HostSame
<1>6. Journalled'
  <2>1. /\ AllOld' = AllOld /\ PeersOld' = PeersOld /\ FilesOld' = FilesOld
        /\ Self' = Self /\ Initial' = Initial /\ StopIsSafe' = StopIsSafe
    BY <1>1, HostKeeps
  <2>2. Journalled
    BY <1>2 DEF Base
  <2>. QED
    BY <1>1, <1>3, <2>1, <2>2 DEF PeersKept, Journalled, HostSame
<1>7. Helping' /\ Finishing'
  BY <1>1, <1>2, <1>3, HostKeeps DEF Base, Helping, Finishing, Waiting, HostSame
<1>8. StageTells'
  BY <1>1, <1>2, <1>3, HostKeeps DEF WorkerNext, Base, StageTells
<1>9. Results'
  <2>1. Saved' => worker.verdict # "verified"
    BY <1>1, <1>2, PlanIs, HostKeeps DEF VerdictPhase
  <2>2. worker.verdict # "recovery_required" => Unhelped' /\ Truthful(row.outcome)'
    BY <1>1, <1>2, <1>3, HostKeeps DEF WorkerNext, VerdictPhase, Truthful, Unhelped
  <2>. QED
    BY <1>1, <1>2, <1>3, <2>1, <2>2 DEF Results, VerdictPhase, Restored, Recovery
<1>. QED
  BY <1>3, <1>4, <1>5, <1>6, <1>7, <1>8, <1>9, GonePlaces, Parts DEF Base

(* What is so on the way back.                                             *)
LEMMA Returning ==
    ASSUME Works, worker.at \in {"rolling", "stop_all", "restore_database", "restoring_files",
                                 "removing", "recreating", "previous"}
    PROVE  /\ row \in RowType /\ worker \in WorkerType /\ plan \in Plans /\ Base /\ Journalled
           /\ ~Initial /\ row.mutation /\ plan.operation # "pull"
           /\ worker.at # "restoring_files" => Unhelped
           /\ worker.at # "rolling" =>
                  worker.silent \/ row.stage \notin {"verifying", "committing"}
           /\ worker.at \in {"stop_all", "restore_database"} => row.backup /\ Self
           /\ worker.at \in {"stop_all", "restore_database", "removing", "recreating", "previous"} =>
                  FilesOld
<1>1. row \in RowType /\ worker \in WorkerType /\ plan \in Plans /\ Base /\ Place
  BY Running
<1>2. RollbackPhase /\ Journalled
  BY <1>1 DEF Base, Place
<1>. QED
  BY <1>1, <1>2 DEF RollbackPhase, Journalled

(* BeginRollback: files whose commit was announced come first, then the    *)
(* copy of the database, then the containers.                              *)
LEMMA BeginRollbackKeeps == ASSUME Works, BeginRollback PROVE DeploymentInv'
<1>1. /\ worker.at = "rolling"
      /\ HostSame /\ UNCHANGED <<saved, tags, observer, snapshot>>
  BY DEF BeginRollback, HostSame, host
<1>2. /\ row \in RowType /\ worker \in WorkerType /\ plan \in Plans /\ Base /\ Journalled
      /\ ~Initial /\ row.mutation /\ plan.operation # "pull" /\ Unhelped
  BY <1>1, Returning
<1>3. /\ row' \in RowType /\ row'.status = row.status /\ row'.outcome = row.outcome
      /\ row'.mutation = row.mutation /\ row'.fileCommit = row.fileCommit
      /\ row'.backup = row.backup /\ row'.retained = row.retained
      /\ row'.stage = "rolling_back" \/ row'.stage = row.stage
  BY <1>2 DEF BeginRollback, RowType, Stages
<1>4. /\ worker' \in WorkerNext /\ worker'.at = AfterRolling
      /\ row'.stage = "rolling_back" \/ worker'.silent
  <2>1. AfterRolling \in Steps
    BY DEF AfterRolling, Steps
  <2>2. ASSUME row' = [row EXCEPT !.stage = "rolling_back"], Goto(AfterRolling)
        PROVE  /\ worker' \in WorkerNext /\ worker'.at = AfterRolling
               /\ row'.stage = "rolling_back" \/ worker'.silent
    BY <1>2, <2>1, <2>2 DEF Goto, WorkerType, WorkerNext, RowType
  <2>3. ASSUME worker' = [worker EXCEPT !.at = AfterRolling, !.silent = TRUE]
        PROVE  /\ worker' \in WorkerNext /\ worker'.at = AfterRolling
               /\ row'.stage = "rolling_back" \/ worker'.silent
    BY <1>2, <2>1, <2>3 DEF WorkerType, WorkerNext
  <2>. QED
    BY <2>2, <2>3 DEF BeginRollback
<1>5. RowGrows /\ Moves
  BY <1>1, <1>2, <1>3 DEF RowGrows, Moves, Journalled
<1>6. CASE row.fileCommit
  <2>1. worker'.at = "restoring_files" /\ helper' = Script("restore", TRUE)
    BY <1>4, <1>6 DEF AfterRolling, BeginRollback
  <2>2. helper' \in HelperType /\ Helping' /\ helper'.kind = "restore" /\ helper'.labelled
    BY <1>3, <1>6, <2>1, ScriptHelps DEF Waiting
  <2>3. /\ ~Initial' /\ row'.mutation
        /\ worker'.silent \/ row'.stage \notin {"verifying", "committing"}
    BY <1>1, <1>2, <1>3, <1>4, HostKeeps
  <2>4. Place'
    BY <2>1, <2>2, <2>3
      DEF Place, PreparePhase, StopPhase, ApplyPhase, RollbackPhase, VerdictPhase, Preparing
  <2>. QED
    BY <1>4, <1>5, <2>1, <2>2, <2>4, Announces
<1>7. CASE ~row.fileCommit
  <2>1. /\ worker'.at \in {"stop_all", "removing"} /\ helper' = helper
        /\ worker'.at = "stop_all" => row.backup
    BY <1>4, <1>7 DEF AfterRolling, BeginRollback
  <2>2. helper' \in HelperType /\ Helping' /\ Unhelped'
    BY <1>2, <2>1, NoHelp
  <2>3. FilesOld' /\ ~Initial'
    BY <1>1, <1>2, <1>7, HostKeeps DEF Journalled
  <2>4. Place'
    BY <1>2, <1>3, <1>4, <2>1, <2>2, <2>3
      DEF Place, PreparePhase, StopPhase, ApplyPhase, RollbackPhase, VerdictPhase, Preparing
  <2>. QED
    BY <1>4, <1>5, <2>1, <2>2, <2>4, Announces
<1>. QED
  BY <1>6, <1>7

(* RestoreDatabase: the row is again as when the copy was made.            *)
LEMMA RestoreDatabaseKeeps == ASSUME Works, RestoreDatabase PROVE DeploymentInv'
<1>1. /\ worker.at = "restore_database"
      /\ HostSame /\ UNCHANGED <<saved, tags, helper, observer>>
  BY DEF RestoreDatabase, HostSame, host
<1>2. /\ row \in RowType /\ worker \in WorkerType /\ plan \in Plans /\ Base /\ Journalled
      /\ ~Initial /\ row.mutation /\ plan.operation # "pull" /\ Unhelped /\ FilesOld /\ row.backup
  BY <1>1, Returning
<1>3. CASE NotRestored /\ UNCHANGED <<row, snapshot>>
  BY <1>1, <1>2, <1>3, SameRow, Settles DEF Quiet, NotRestored, Restored
<1>4. CASE /\ snapshot' = "restored" /\ row' = [row EXCEPT !.stage = "replacing"]
           /\ Goto("removing") \/ Goto("gone")
  <2>1. worker' \in WorkerNext /\ worker'.at \in {"removing", "gone"}
    BY <1>2, <1>4 DEF Goto, WorkerType, WorkerNext, Steps
  <2>2. /\ row' \in RowType /\ row'.status = row.status /\ row'.outcome = row.outcome
        /\ row'.mutation = row.mutation /\ row'.fileCommit = row.fileCommit
        /\ row'.backup = row.backup /\ row'.retained = row.retained
        /\ row'.stage = "replacing"
    BY <1>2, <1>4 DEF RowType, Stages
  <2>3. RowGrows /\ Moves
    <3>1. RowGrows
      BY <1>2, <2>2 DEF RowGrows, Journalled
    <3>2. Moves
      BY <1>1, <1>2, <1>4 DEF Moves
    <3>. QED
      BY <3>1, <3>2
  <2>4. helper' \in HelperType /\ Helping' /\ Unhelped'
    BY <1>1, <1>2, NoHelp
  <2>5. FilesOld' /\ ~Initial'
    BY <1>1, <1>2, HostKeeps
  <2>6. Place'
    BY <1>1, <1>2, <2>1, <2>2, <2>4, <2>5
      DEF Place, PreparePhase, StopPhase, ApplyPhase, RollbackPhase, VerdictPhase, Preparing
  <2>. QED
    BY <2>1, <2>3, <2>4, <2>6, Announces
<1>. QED
  BY <1>3, <1>4 DEF RestoreDatabase

-----------------------------------------------------------------------------
(* Changing containers.                                                     *)

\* A step of the worker that changes containers.
Containers ==
    /\ UNCHANGED <<plan, row, files, saved, tags, helper, observer, snapshot, disturbed>>
    /\ runtime' \in RuntimeType
    /\ \A s \in Services : runtime'[s].other = runtime[s].other
    /\ \A s \in Services \ plan.previous : runtime[s].old = "none" => runtime'[s].old = "none"
    /\ (Self => StopIsSafe) => \A s \in Services \ plan.next : AsBefore(s) => AsBefore(s)'

(* Under a journalled mutation the worker may change the containers of the *)
(* target, unless the row says that they are being verified.               *)
LEMMA ContainersMove ==
    ASSUME Works, Containers, row.mutation, Unhelped,
           worker.silent \/ row.stage \notin {"verifying", "committing"},
           worker' \in WorkerNext, worker'.at # "none", Place'
    PROVE  DeploymentInv'
<1>1. /\ Base /\ row \in RowType /\ row.status = "running" /\ row.outcome = ""
      /\ observer = "idle"
  BY Running
<1>2. TypeOK'
  BY <1>1, Types DEF WorkerNext, Base, Containers
<1>3. Admitted'
  BY <1>1 DEF Works, Base, Admitted, Containers, Initial
<1>4. Journalled'
  <2>1. Journalled
    BY <1>1 DEF Base
  <2>2. /\ FilesOld' = FilesOld /\ Self' = Self /\ Initial' = Initial /\ StopIsSafe' = StopIsSafe
    BY DEF Containers, FilesOld, Self, Initial, StopIsSafe
  <2>3. (Self => StopIsSafe) => PeersOld'
    BY <2>1 DEF PeersKept, Journalled, PeersOld, Containers
  <2>. QED
    BY <2>1, <2>2, <2>3 DEF PeersKept, Journalled, Containers
<1>5. Helping' /\ Finishing'
  BY <1>1 DEF Base, Helping, Unhelped, Finishing, Containers
<1>6. StageTells'
  BY DEF WorkerNext, StageTells, Containers
<1>7. Results'
  BY <1>1 DEF Results, Settled, Containers
<1>. QED
  BY <1>2, <1>3, <1>4, <1>5, <1>6, <1>7, Parts DEF Base

(* A service has no inspected container unless it had one.                 *)
LEMMA InspectedIs ==
    ASSUME NEW s \in Services
    PROVE  /\ Inspected[s].old \in States /\ Inspected[s].new = "none" /\ ~Inspected[s].other
           /\ Inspected[s].old = "up" <=> s \in plan.up
           /\ plan.up \subseteq plan.previous => (Inspected[s].old = "none" <=> s \notin plan.previous)
           /\ Inspected[s] = [old |-> Inspected[s].old, new |-> "none", other |-> FALSE]
  BY DEF Inspected, States

(* What stopping does to a service.                                        *)
LEMMA Stops ==
    ASSUME NEW stopped \in SUBSET Services, StopServices(stopped), runtime \in RuntimeType
    PROVE  /\ runtime' \in RuntimeType
           /\ \A s \in Services :
                /\ runtime'[s].other = runtime[s].other
                /\ runtime'[s].old = "none" <=> runtime[s].old = "none"
                /\ runtime'[s].new = "none" <=> runtime[s].new = "none"
                /\ s \notin stopped => runtime'[s] = runtime[s]
                /\ s \in stopped => runtime'[s].old # "up" /\ runtime'[s].new # "up"
                /\ "up" \notin {runtime[s].old, runtime[s].new} => runtime'[s] = runtime[s]
<1>1. runtime' = [s \in Services |-> IF s \in stopped THEN Stopped(runtime[s]) ELSE runtime[s]]
  BY DEF StopServices
<1>2. ASSUME NEW s \in Services
      PROVE  /\ Stopped(runtime[s]) \in [old : States, new : States, other : BOOLEAN]
             /\ Stopped(runtime[s]).other = runtime[s].other
             /\ Stopped(runtime[s]).old = IF runtime[s].old = "up" THEN "down" ELSE runtime[s].old
             /\ Stopped(runtime[s]).new = IF runtime[s].new = "up" THEN "down" ELSE runtime[s].new
             /\ "up" \notin {runtime[s].old, runtime[s].new} => Stopped(runtime[s]) = runtime[s]
  BY DEF Stopped, RuntimeType, States
<1>. QED
  BY <1>1, <1>2 DEF RuntimeType

(* StopSelected: Yard's database is left alone.                            *)
LEMMA StopSelectedKeeps == ASSUME Works, StopSelected PROVE DeploymentInv'
<1>1. /\ worker.at = "stop"
      /\ UNCHANGED <<plan, row, files, saved, tags, helper, observer, snapshot, disturbed>>
  BY DEF StopSelected, host
<1>2. /\ row \in RowType /\ worker \in WorkerType /\ plan \in Plans /\ runtime \in RuntimeType
      /\ Hosted /\ Self /\ row.mutation /\ row.stage = "replacing" /\ Unhelped
      /\ ~Initial /\ row.backup /\ \A s \in plan.next : runtime[s].new = "none"
  BY <1>1, Stopping, Types DEF Base
<1>3. PICK stopped \in SUBSET Selected :
          /\ StopServices(stopped)
          /\ IF stopped = Selected THEN Goto("backup") \/ Fail ELSE Fail
  BY DEF StopSelected
<1>4. /\ Selected \subseteq Services /\ Selected \subseteq plan.next
      /\ plan.yard \subseteq Selected /\ plan.next \subseteq Services
  BY <1>2, PlanIs
<1>5. /\ runtime' \in RuntimeType
      /\ \A s \in Services :
           /\ runtime'[s].other = runtime[s].other
           /\ runtime'[s].old = "none" <=> runtime[s].old = "none"
           /\ runtime'[s].new = "none" <=> runtime[s].new = "none"
           /\ s \notin stopped => runtime'[s] = runtime[s]
           /\ s \in stopped => runtime'[s].old # "up" /\ runtime'[s].new # "up"
  BY <1>2, <1>3, <1>4, Stops
<1>6. Containers
  <2>1. \A s \in Services \ plan.next : AsBefore(s) => AsBefore(s)'
    BY <1>1, <1>4, <1>5 DEF AsBefore, Inspected
  <2>. QED
    BY <1>1, <1>5, <2>1 DEF Containers
<1>7. CASE stopped = Selected /\ Goto("backup")
  <2>1. worker' \in WorkerNext /\ worker'.at = "backup"
    BY <1>2, <1>7 DEF Goto, WorkerType, WorkerNext, Steps
  <2>2. /\ \A s \in plan'.next : runtime'[s].new = "none"
        /\ \A s \in plan'.yard \ disturbed' : ~Up(s)'
    BY <1>1, <1>2, <1>4, <1>5, <1>7 DEF Up
  <2>3. Hosted' /\ Self' /\ Unhelped'
    BY <1>1, <1>2 DEF Hosted, Self, Unhelped
  <2>4. Place'
    BY <1>1, <1>2, <2>1, <2>2, <2>3
      DEF Place, PreparePhase, StopPhase, ApplyPhase, RollbackPhase, VerdictPhase, Preparing
  <2>. QED
    BY <1>2, <1>6, <2>1, <2>4, ContainersMove
<1>8. CASE Fail
  <2>1. /\ worker' \in WorkerNext
        /\ \/ worker'.at = "recording" /\ worker'.verdict = "recovery_required"
           \/ worker'.at = "rolling"
    BY <1>2, <1>8, FailGoes DEF Fail, FailKnown
  <2>2. ~Initial' /\ Unhelped'
    BY <1>1, <1>2 DEF Initial, Unhelped
  <2>3. Place'
    BY <1>1, <1>2, <2>1, <2>2, GonePlaces
      DEF Place, PreparePhase, StopPhase, ApplyPhase, RollbackPhase, VerdictPhase, Preparing
  <2>. QED
    BY <1>2, <1>6, <2>1, <2>3, ContainersMove
<1>. QED
  BY <1>3, <1>7, <1>8

(* StopProject: the other services of the project are stopped only if none *)
(* of them may run.                                                        *)
LEMMA StopProjectKeeps == ASSUME Works, StopProject PROVE DeploymentInv'
<1>1. /\ worker.at = "stop_all"
      /\ UNCHANGED <<plan, row, files, saved, tags, helper, observer, snapshot, disturbed>>
  BY DEF StopProject, host
<1>2. /\ row \in RowType /\ worker \in WorkerType /\ plan \in Plans /\ runtime \in RuntimeType
      /\ Base /\ ~Initial /\ row.mutation /\ Unhelped /\ FilesOld /\ row.backup /\ Self
      /\ worker.silent \/ row.stage \notin {"verifying", "committing"}
  BY <1>1, Returning, Types DEF Base
<1>. DEFINE targets == IF plan.scoped THEN plan.next ELSE Services
<1>3. PICK stopped \in SUBSET targets :
          /\ StopServices(stopped)
          /\ IF stopped = targets THEN Goto("restore_database") \/ NotRestored ELSE NotRestored
  BY DEF StopProject
<1>4. /\ plan.yard \subseteq plan.next /\ plan.next \subseteq Services
      /\ plan.next \subseteq targets /\ targets \subseteq Services
      /\ plan.scoped => targets = plan.next
  BY <1>2, PlanIs
<1>. HIDE DEF targets
<1>5. /\ runtime' \in RuntimeType
      /\ \A s \in Services :
           /\ runtime'[s].other = runtime[s].other
           /\ runtime'[s].old = "none" <=> runtime[s].old = "none"
           /\ runtime'[s].new = "none" <=> runtime[s].new = "none"
           /\ s \notin stopped => runtime'[s] = runtime[s]
           /\ s \in stopped => runtime'[s].old # "up" /\ runtime'[s].new # "up"
           /\ "up" \notin {runtime[s].old, runtime[s].new} => runtime'[s] = runtime[s]
  BY <1>2, <1>3, <1>4, Stops
<1>6. Containers
  <2>1. ASSUME StopIsSafe, NEW s \in Services \ plan.next, AsBefore(s)
        PROVE  AsBefore(s)'
    <3>1. CASE s \in disturbed
      BY <1>1, <1>5, <2>1, <3>1 DEF AsBefore
    <3>2. CASE s \notin disturbed
      <4>1. runtime[s] = Inspected[s] /\ Inspected' = Inspected
        BY <1>1, <2>1, <3>2 DEF AsBefore, Inspected
      <4>2. s \notin stopped \/ "up" \notin {runtime[s].old, runtime[s].new}
        BY <1>3, <1>4, <2>1, <4>1, InspectedIs DEF StopIsSafe
      <4>. QED
        BY <1>1, <1>5, <3>2, <4>1, <4>2 DEF AsBefore
    <3>. QED
      BY <3>1, <3>2
  <2>. QED
    BY <1>1, <1>2, <1>5, <2>1 DEF Containers
<1>7. CASE NotRestored
  <2>1. worker' \in WorkerNext /\ worker'.at = "recording" /\ worker'.verdict = "recovery_required"
    BY <1>2, <1>7 DEF NotRestored, Settle, WorkerType, WorkerNext, Steps, Outcomes
  <2>. QED
    BY <1>2, <1>6, <2>1, GonePlaces, ContainersMove
<1>8. CASE stopped = targets /\ Goto("restore_database")
  <2>1. worker' \in WorkerNext /\ worker'.at = "restore_database"
    BY <1>2, <1>8 DEF Goto, WorkerType, WorkerNext, Steps
  <2>2. \A s \in plan'.yard \ disturbed' : ~Up(s)'
    BY <1>1, <1>4, <1>5, <1>8 DEF Up
  <2>3. ~Initial' /\ Unhelped' /\ FilesOld'
    BY <1>1, <1>2 DEF Initial, Unhelped, FilesOld
  <2>4. Place'
    BY <1>1, <1>2, <2>1, <2>2, <2>3
      DEF WorkerNext, Place, PreparePhase, StopPhase, ApplyPhase, RollbackPhase, VerdictPhase, Preparing
  <2>. QED
    BY <1>2, <1>6, <2>1, <2>4, ContainersMove
<1>. QED
  BY <1>3, <1>7, <1>8

(* RemoveCandidates: what this operation made is gone before the previous  *)
(* containers return.                                                      *)
LEMMA RemoveCandidatesKeeps == ASSUME Works, RemoveCandidates PROVE DeploymentInv'
<1>1. /\ worker.at = "removing"
      /\ UNCHANGED <<plan, row, files, saved, tags, helper, observer, snapshot, disturbed>>
  BY DEF RemoveCandidates, host
<1>2. /\ row \in RowType /\ worker \in WorkerType /\ plan \in Plans /\ runtime \in RuntimeType
      /\ Journalled /\ ~Initial /\ row.mutation /\ Unhelped /\ FilesOld
      /\ worker.silent \/ row.stage \notin {"verifying", "committing"}
  BY <1>1, Returning, Types DEF Base
<1>. DEFINE made == {s \in plan.next : runtime[s].new # "none"}
<1>3. PICK removed \in SUBSET made :
          /\ runtime' = [s \in Services |-> IF s \in removed
                             THEN [runtime[s] EXCEPT !.new = "none"] ELSE runtime[s]]
          /\ \/ NotRestored
             \/ /\ removed = made /\ \A s \in plan.next : ~runtime[s].other
                /\ worker' = [worker EXCEPT !.at = "recreating", !.left = Replaced]
  BY DEF RemoveCandidates
<1>4. plan.next \subseteq Services /\ Replaced \subseteq plan.next /\ Replaced' = Replaced
  BY <1>1, <1>2, PlanIs DEF Replaced
<1>5. /\ runtime' \in RuntimeType
      /\ \A s \in Services :
           /\ runtime'[s].other = runtime[s].other /\ runtime'[s].old = runtime[s].old
           /\ s \in removed => runtime'[s].new = "none"
           /\ s \notin removed => runtime'[s] = runtime[s]
  BY <1>2, <1>3 DEF RuntimeType, States
<1>6. Containers
  <2>1. \A s \in Services \ plan.next : AsBefore(s) => AsBefore(s)'
    BY <1>1, <1>3, <1>5 DEF AsBefore, Inspected
  <2>. QED
    BY <1>1, <1>5, <2>1 DEF Containers
<1>7. CASE NotRestored
  <2>1. worker' \in WorkerNext /\ worker'.at = "recording" /\ worker'.verdict = "recovery_required"
    BY <1>2, <1>7 DEF NotRestored, Settle, WorkerType, WorkerNext, Steps, Outcomes
  <2>. QED
    BY <1>2, <1>6, <2>1, GonePlaces, ContainersMove
<1>8. CASE removed = made /\ worker' = [worker EXCEPT !.at = "recreating", !.left = Replaced]
  <2>1. worker' \in WorkerNext /\ worker'.at = "recreating" /\ worker'.left = Replaced
    BY <1>2, <1>4, <1>8 DEF WorkerType, WorkerNext, Steps
  <2>2. \A s \in plan.next : runtime'[s].new = "none"
    BY <1>4, <1>5, <1>8
  <2>3. ASSUME NEW s \in plan.next \ Replaced
        PROVE  AsBefore(s)'
    <3>1. s \in Services \ plan.previous /\ runtime[s].old = "none"
      BY <1>2, <1>4, <2>3 DEF Replaced, Journalled
    <3>2. CASE s \in disturbed
      BY <1>1, <2>2, <2>3, <3>2 DEF AsBefore
    <3>3. CASE s \notin disturbed
      <4>1. /\ Inspected[s] = [old |-> "none", new |-> "none", other |-> FALSE]
            /\ Inspected' = Inspected
        BY <1>1, <1>2, <3>1, PlanIs DEF Inspected
      <4>2. runtime'[s] = [old |-> "none", new |-> "none", other |-> FALSE]
        BY <1>2, <1>5, <2>2, <2>3, <3>1, <3>3 DEF RuntimeType, Journalled
      <4>. QED
        BY <1>1, <3>3, <4>1, <4>2 DEF AsBefore
    <3>. QED
      BY <3>2, <3>3
  <2>4. ~Initial' /\ Unhelped' /\ FilesOld'
    BY <1>1, <1>2 DEF Initial, Unhelped, FilesOld
  <2>5. Place'
    BY <1>1, <1>2, <1>4, <2>1, <2>2, <2>3, <2>4
      DEF WorkerNext, Place, PreparePhase, StopPhase, ApplyPhase, RollbackPhase, VerdictPhase, Preparing
  <2>. QED
    BY <1>2, <1>6, <2>1, <2>5, ContainersMove
<1>. QED
  BY <1>3, <1>7, <1>8

(* RecreatePrevious: one container after the other is as inspected.        *)
LEMMA RecreatePreviousKeeps == ASSUME Works, RecreatePrevious PROVE DeploymentInv'
<1>1. /\ worker.at = "recreating"
      /\ UNCHANGED <<plan, row, files, saved, tags, helper, observer, snapshot, disturbed>>
  BY DEF RecreatePrevious, host
<1>2. /\ row \in RowType /\ worker \in WorkerType /\ plan \in Plans /\ runtime \in RuntimeType
      /\ Journalled /\ ~Initial /\ row.mutation /\ Unhelped /\ FilesOld
      /\ worker.silent \/ row.stage \notin {"verifying", "committing"}
  BY <1>1, Returning, Types DEF Base
<1>3. /\ worker.left \subseteq Replaced
      /\ \A s \in plan.next : runtime[s].new = "none"
      /\ \A s \in plan.next \ worker.left : AsBefore(s)
  BY <1>1, Running DEF Place, RollbackPhase
<1>4. /\ plan.next \subseteq Services /\ Replaced \subseteq plan.next /\ Replaced' = Replaced
      /\ Replaced \subseteq plan.previous
  BY <1>1, <1>2, PlanIs DEF Replaced
<1>5. ~Initial' /\ Unhelped' /\ FilesOld' /\ Inspected' = Inspected
  BY <1>1, <1>2 DEF Initial, Unhelped, FilesOld, Inspected
<1>6. CASE worker.left = {} /\ Goto("previous") /\ runtime' = runtime
  <2>1. worker' \in WorkerNext /\ worker'.at = "previous"
    BY <1>2, <1>6 DEF Goto, WorkerType, WorkerNext, Steps
  <2>2. HostSame
    BY <1>1, <1>6 DEF HostSame
  <2>3. AllOld'
    BY <1>3, <1>6, <2>2, HostKeeps DEF AllOld
  <2>4. Place'
    BY <1>1, <1>2, <1>5, <2>1, <2>3
      DEF WorkerNext, Place, PreparePhase, StopPhase, ApplyPhase, RollbackPhase, VerdictPhase, Preparing
  <2>. QED
    BY <1>1, <1>2, <2>1, <2>2, <2>4, SameRow, Proceeds DEF Quiet
<1>7. ASSUME NEW s \in worker.left, NEW reached \in States,
             runtime' = [runtime EXCEPT ![s].old = reached],
             \/ reached = Inspected[s].old /\ worker' = [worker EXCEPT !.left = @ \ {s}]
             \/ NotRestored
      PROVE  DeploymentInv'
  <2>1. s \in plan.next /\ s \in Services /\ s \in plan.previous
    BY <1>3, <1>4
  <2>2. /\ runtime' \in RuntimeType
        /\ runtime'[s].old = reached /\ runtime'[s].new = runtime[s].new
        /\ runtime'[s].other = runtime[s].other
        /\ \A t \in Services \ {s} : runtime'[t] = runtime[t]
    BY <1>2, <1>7, <2>1 DEF RuntimeType
  <2>3. Containers
    <3>1. \A t \in Services \ plan.next : AsBefore(t) => AsBefore(t)'
      BY <1>1, <1>5, <2>1, <2>2 DEF AsBefore
    <3>. QED
      BY <1>1, <2>1, <2>2, <3>1 DEF Containers
  <2>4. CASE NotRestored
    <3>1. worker' \in WorkerNext /\ worker'.at = "recording" /\ worker'.verdict = "recovery_required"
      BY <1>2, <2>4 DEF NotRestored, Settle, WorkerType, WorkerNext, Steps, Outcomes
    <3>. QED
      BY <1>2, <2>3, <3>1, GonePlaces, ContainersMove
  <2>5. CASE reached = Inspected[s].old /\ worker' = [worker EXCEPT !.left = @ \ {s}]
    <3>1. /\ worker' \in WorkerNext /\ worker'.at = "recreating"
          /\ worker'.left = worker.left \ {s}
      BY <1>1, <1>2, <2>5 DEF WorkerType, WorkerNext
    <3>2. AsBefore(s)'
      <4>1. CASE s \in disturbed
        BY <1>1, <1>3, <2>1, <2>2, <4>1 DEF AsBefore
      <4>2. CASE s \notin disturbed
        <5>1. ~runtime'[s].other /\ runtime'[s].new = "none"
          BY <1>2, <1>3, <2>1, <2>2, <4>2 DEF Journalled
        <5>2. runtime'[s] = [old |-> Inspected[s].old, new |-> "none", other |-> FALSE]
          BY <2>1, <2>2, <2>5, <5>1 DEF RuntimeType
        <5>3. runtime'[s] = Inspected[s]
          BY <2>1, <5>2, InspectedIs
        <5>. QED
          BY <1>1, <1>5, <4>2, <5>3 DEF AsBefore
      <4>. QED
        BY <4>1, <4>2
    <3>3. \A t \in plan.next \ worker'.left : AsBefore(t)'
      BY <1>1, <1>3, <1>4, <1>5, <2>2, <3>1, <3>2 DEF AsBefore
    <3>4. Place'
      BY <1>1, <1>2, <1>3, <1>4, <1>5, <2>1, <2>2, <3>1, <3>3
        DEF WorkerNext, Place, PreparePhase, StopPhase, ApplyPhase, RollbackPhase, VerdictPhase, Preparing
    <3>. QED
      BY <1>2, <2>3, <3>1, <3>4, ContainersMove
  <2>. QED
    BY <1>7, <2>4, <2>5
<1>8. \A s \in worker.left : {runtime[s].old, "down", Inspected[s].old} \subseteq States
  <2>1. worker.left \subseteq Services
    BY <1>2 DEF WorkerType, WorkerNext
  <2>. QED
    BY <1>2, <2>1, InspectedIs DEF RuntimeType, States
<1>. QED
  BY <1>6, <1>7, <1>8 DEF RecreatePrevious

-----------------------------------------------------------------------------
(* Helpers at work.                                                         *)

(* What is so while a helper works, whether or not its worker waits.       *)
LEMMA Helped ==
    ASSUME DeploymentInv, ~Unhelped
    PROVE  /\ Base /\ Place /\ plan \in Plans
           /\ row \in RowType /\ worker \in WorkerType /\ helper \in HelperType
           /\ runtime \in RuntimeType /\ files \in [Files -> {"old", "new", "other"}]
           /\ Settled => row.outcome \in Recovery
           /\ worker.at \in Waiting \cup {"recording", "gone"}
           /\ ~helper.labelled => worker.at = "gone" /\ helper.kind = "commit"
           /\ worker.at \in Waiting => row.status = "running" /\ observer = "idle"
           /\ worker.at = "recording" => worker.verdict = "recovery_required"
           /\ worker.at \in {"applying", "starting"} <=> worker.at \in Waiting /\ helper.kind = "apply"
           /\ worker.at \in {"writing_files", "committing_files"} => helper.kind = "commit"
           /\ worker.at = "restoring_files" => helper.kind = "restore"
           /\ observer # "idle" => observer = "writing" /\ ~helper.labelled /\ helper.kind = "commit"
           /\ helper.kind \in {"apply", "commit", "restore"}
<1>1. /\ Base /\ Place /\ plan \in Plans
      /\ row \in RowType /\ worker \in WorkerType /\ helper \in HelperType
      /\ runtime \in RuntimeType /\ files \in [Files -> {"old", "new", "other"}]
      /\ observer \in {"idle", "writing", "written"}
  BY Parts, Types DEF Base, Admitted
<1>2. /\ Settled => row.outcome \in Recovery
      /\ worker.at = "recording" => worker.verdict = "recovery_required"
  BY <1>1 DEF Base, Place, Results, VerdictPhase
<1>3. /\ worker.at \in Waiting \cup {"recording", "gone"}
      /\ ~helper.labelled => worker.at = "gone" /\ helper.kind = "commit"
  BY <1>1 DEF Base, Helping, Unhelped
<1>4. worker.at \in Waiting => row.status = "running"
  BY <1>1 DEF Base, Admitted, Waiting
<1>5. /\ observer # "idle" => observer = "writing" /\ ~helper.labelled /\ helper.kind = "commit"
      /\ worker.at \in Waiting => observer = "idle"
  BY <1>1 DEF Base, Finishing, Unhelped, Waiting
<1>6. /\ worker.at \in {"applying", "starting"} => helper.kind = "apply"
      /\ worker.at \in {"writing_files", "committing_files"} => helper.kind = "commit"
      /\ worker.at = "restoring_files" => helper.kind = "restore"
  BY <1>1 DEF Place, PreparePhase, ApplyPhase, RollbackPhase
<1>7. helper.kind \in {"apply", "commit", "restore"}
  BY <1>1 DEF HelperType, Unhelped
<1>. QED
  BY <1>1, <1>2, <1>3, <1>4, <1>5, <1>6, <1>7 DEF Waiting

(* ApplyService: what Compose does to a service.                           *)
LEMMA ApplyServiceKeeps ==
    ASSUME DeploymentInv, NEW t \in Services, ApplyService(t)
    PROVE  DeploymentInv'
<1>1. /\ helper.kind = "apply" /\ t \in plan.next
      /\ UNCHANGED <<plan, row, worker, files, saved, tags, helper, observer, snapshot, disturbed>>
  BY DEF ApplyService
<1>2. /\ Base /\ Place /\ runtime \in RuntimeType
      /\ Settled => row.outcome \in Recovery
      /\ worker.at \in {"applying", "starting", "recording", "gone"}
      /\ worker.at = "recording" => worker.verdict = "recovery_required"
      /\ observer = "idle"
  BY <1>1, Helped DEF Unhelped
<1>3. /\ row.mutation /\ row.stage = "replacing"
      /\ \A s \in plan.next \ disturbed : runtime[s].new = "up" => s \in helper.start
  BY <1>1, <1>2 DEF Base, Helping
<1>4. /\ runtime' \in RuntimeType
      /\ \A s \in Services \ {t} : runtime'[s] = runtime[s]
      /\ runtime'[t].other = runtime[t].other
      /\ runtime[t].old = "none" => runtime'[t].old = "none"
      /\ t \notin disturbed /\ runtime'[t].new = "up" =>
             runtime[t].new = "up" \/ t \in helper.start
  <2>1. CASE runtime' = [runtime EXCEPT ![t].old = "none"]
    BY <1>2, <2>1 DEF RuntimeType, States
  <2>2. CASE runtime[t].new = "none" /\ runtime' = [runtime EXCEPT ![t].new = "down"]
    BY <1>2, <2>2 DEF RuntimeType, States
  <2>3. CASE t \in helper.start /\ runtime' = [runtime EXCEPT ![t].new = "up"]
    BY <1>2, <2>3 DEF RuntimeType, States
  <2>. QED
    BY <2>1, <2>2, <2>3 DEF ApplyService
<1>5. TypeOK'
  BY <1>1, <1>2, <1>4, Types DEF Base
<1>6. Admitted'
  BY <1>1, <1>2 DEF Base, Admitted, Initial
<1>7. Journalled'
  <2>1. Journalled
    BY <1>2 DEF Base
  <2>2. /\ FilesOld' = FilesOld /\ Self' = Self /\ Initial' = Initial /\ StopIsSafe' = StopIsSafe
    BY <1>1 DEF FilesOld, Self, Initial, StopIsSafe
  <2>3. PeersOld => PeersOld'
    BY <1>1, <1>4 DEF PeersOld, AsBefore, Inspected
  <2>. QED
    BY <1>1, <1>3, <1>4, <2>1, <2>2, <2>3 DEF PeersKept, Journalled
<1>8. Helping'
  <2>1. Helping
    BY <1>2 DEF Base
  <2>2. Wanted' = Wanted
    BY <1>1 DEF Wanted
  <2>3. \A s \in plan.next \ disturbed : runtime'[s].new = "up" => s \in helper.start
    <3>1. plan.next \subseteq Services
      BY <1>2, PlanIs DEF Base, Admitted
    <3>. QED
      BY <1>3, <1>4, <3>1
  <2>. QED
    BY <1>1, <2>1, <2>2, <2>3 DEF Helping
<1>9. Finishing' /\ StageTells' /\ Results'
  BY <1>1, <1>2, <1>3 DEF Finishing, StageTells, Results, Settled, Recovery, Base
<1>10. Place'
  <2>1. /\ worker.at \in {"applying", "starting"} => FilesFirst'
        /\ Wanted' = Wanted /\ Saved' = Saved /\ Hosted' = Hosted
    BY <1>1, <1>2 DEF Place, ApplyPhase, FilesFirst, FilesNew, Initial, Wanted, Saved, Hosted
  <2>2. CASE worker.at \in {"applying", "starting"}
    BY <1>1, <1>2, <1>3, <2>1, <2>2
      DEF Place, PreparePhase, StopPhase, ApplyPhase, RollbackPhase, VerdictPhase, Preparing
  <2>. QED
    BY <1>1, <1>2, <2>2, GonePlaces
<1>. QED
  BY <1>5, <1>6, <1>7, <1>8, <1>9, <1>10, Parts DEF Base

(* CompareFiles: nothing is written yet.                                   *)
LEMMA CompareFilesKeeps == ASSUME DeploymentInv, CompareFiles PROVE DeploymentInv'
<1>1. /\ helper.kind \in {"commit", "restore"} /\ ~helper.checked
      /\ helper' = [helper EXCEPT !.checked = TRUE]
      /\ HostSame /\ UNCHANGED <<row, worker, saved, tags, observer, snapshot>>
  BY DEF CompareFiles, HostSame, host
<1>2. Base /\ Place /\ helper \in HelperType
  BY <1>1, Helped DEF Unhelped
<1>3. /\ helper' \in HelperType /\ helper'.kind = helper.kind /\ helper'.start = helper.start
      /\ helper'.todo = helper.todo /\ helper'.labelled = helper.labelled /\ helper'.checked
  BY <1>1, <1>2 DEF HelperType
<1>4. TypeOK'
  BY <1>1, <1>2, <1>3, Types DEF Base, HostSame
<1>5. Admitted'
  BY <1>1, <1>2, HostKeeps DEF Base, Admitted, HostSame
<1>6. Journalled'
  <2>1. /\ AllOld' = AllOld /\ PeersOld' = PeersOld /\ FilesOld' = FilesOld
        /\ Self' = Self /\ Initial' = Initial /\ StopIsSafe' = StopIsSafe
    BY <1>1, HostKeeps
  <2>2. Journalled
    BY <1>2 DEF Base
  <2>. QED
    BY <1>1, <2>1, <2>2 DEF PeersKept, Journalled, HostSame
<1>7. Helping'
  <2>1. Helping
    BY <1>2 DEF Base
  <2>. QED
    BY <1>1, <1>3, <2>1 DEF Helping
<1>8. Finishing'
  <2>1. Finishing /\ AllNew' = AllNew /\ FilesNew' = FilesNew /\ Saved' = Saved
    BY <1>1, <1>2, HostKeeps DEF Base
  <2>. QED
    BY <1>1, <1>3, <2>1 DEF Finishing
<1>9. StageTells'
  BY <1>1, <1>2, HostKeeps DEF Base, StageTells
<1>10. Results'
  BY <1>1, <1>2, <1>3, HostKeeps DEF Base, Results, Settled, Truthful, Unhelped
<1>11. Place'
  <2>1. /\ AllOld' = AllOld /\ AllNew' = AllNew /\ FilesOld' = FilesOld /\ FilesNew' = FilesNew
        /\ Wanted' = Wanted /\ Initial' = Initial /\ Saved' = Saved
        /\ Hosted' = Hosted /\ Self' = Self
    BY <1>1, HostKeeps
  <2>2. worker.at \in Waiting \cup {"recording", "gone"}
    BY <1>1, Helped DEF Unhelped
  <2>3. CASE worker.at \in Waiting
    BY <1>1, <1>2, <1>3, <2>1, <2>3
      DEF Waiting, Place, PreparePhase, StopPhase, ApplyPhase, RollbackPhase, VerdictPhase,
          Preparing, FilesFirst
  <2>4. CASE worker.at \in {"recording", "gone"}
    BY <1>1, <2>4, Helped, GonePlaces DEF Unhelped
  <2>. QED
    BY <2>2, <2>3, <2>4
<1>. QED
  BY <1>4, <1>5, <1>6, <1>7, <1>8, <1>9, <1>10, <1>11, Parts DEF Base

(* WriteFile: a file that is written is as the script was told.            *)
LEMMA WriteFileKeeps ==
    ASSUME DeploymentInv, NEW g \in Files, WriteFile(g)
    PROVE  DeploymentInv'
<1>1. /\ helper.checked /\ g \in helper.todo
      /\ files' = [files EXCEPT ![g] = IF helper.kind = "commit" /\ g \in plan.edited
                                       THEN "new" ELSE "old"]
      /\ helper' = [helper EXCEPT !.todo = @ \ {g}]
      /\ UNCHANGED <<plan, row, worker, runtime, saved, tags, observer, snapshot, disturbed>>
  BY DEF WriteFile
<1>2. helper.kind \in {"commit", "restore"}
  BY <1>1, Types DEF DeploymentInv, Helping, HelperType
<1>3. /\ Base /\ Place /\ helper \in HelperType /\ files \in [Files -> {"old", "new", "other"}]
      /\ Settled => row.outcome \in Recovery
      /\ worker.at \in Waiting \cup {"recording", "gone"}
      /\ worker.at = "recording" => worker.verdict = "recovery_required"
      /\ worker.at \notin {"applying", "starting"}
      /\ observer # "written"
  BY <1>2, Helped DEF Unhelped
<1>4. /\ helper' \in HelperType /\ helper'.kind = helper.kind /\ helper'.start = helper.start
      /\ helper'.checked /\ helper'.labelled = helper.labelled
      /\ helper'.todo = helper.todo \ {g}
  BY <1>1, <1>3 DEF HelperType
<1>5. /\ files' \in [Files -> {"old", "new", "other"}]
      /\ files'[g] = IF helper.kind = "commit" /\ g \in plan.edited THEN "new" ELSE "old"
      /\ \A f \in Files \ {g} : files'[f] = files[f]
  BY <1>1, <1>3
<1>6. TypeOK'
  BY <1>1, <1>3, <1>4, <1>5, Types DEF Base
<1>7. Admitted'
  BY <1>1, <1>3 DEF Base, Admitted, Initial
<1>8. row.fileCommit
  BY <1>2, <1>3 DEF Base, Helping
<1>9. Journalled'
  <2>1. Journalled
    BY <1>3 DEF Base
  <2>2. /\ AllOld' = AllOld /\ PeersOld' = PeersOld
        /\ Self' = Self /\ Initial' = Initial /\ StopIsSafe' = StopIsSafe
    BY <1>1 DEF AllOld, PeersOld, AsBefore, Inspected, Self, Initial, StopIsSafe
  <2>. QED
    BY <1>1, <1>8, <2>1, <2>2 DEF PeersKept, Journalled
<1>10. Helping'
  <2>1. Helping
    BY <1>3 DEF Base
  <2>2. \A f \in Files \ (disturbed \cup helper'.todo) :
            files'[f] = IF helper.kind = "commit" /\ f \in plan.edited THEN "new" ELSE "old"
    BY <1>1, <1>2, <1>4, <1>5, <2>1 DEF Helping
  <2>. QED
    BY <1>1, <1>2, <1>4, <2>1, <2>2 DEF Helping
<1>11. AllNew' = AllNew /\ Saved' = Saved /\ Initial' = Initial
  BY <1>1 DEF AllNew, AsAfter, Wanted, Saved, Initial
<1>12. Finishing' /\ StageTells' /\ Results'
  BY <1>1, <1>3, <1>4, <1>11
    DEF Base, Finishing, StageTells, Results, Settled, Recovery
<1>13. Place'
  <2>1. CASE worker.at \in {"writing_files", "committing_files", "restoring_files"}
    BY <1>1, <1>3, <1>4, <1>11, <2>1
      DEF Place, PreparePhase, StopPhase, ApplyPhase, RollbackPhase, VerdictPhase, Preparing
  <2>. QED
    BY <1>1, <1>3, <2>1, GonePlaces DEF Waiting
<1>. QED
  BY <1>6, <1>7, <1>9, <1>10, <1>12, <1>13, Parts DEF Base

(* StartCreated: those containers of host files that are to run.           *)
LEMMA StartCreatedKeeps == ASSUME DeploymentInv, StartCreated PROVE DeploymentInv'
<1>1. /\ worker.at = "applying" /\ Hosted /\ helper.kind = "apply"
      /\ helper' = Compose(Wanted) /\ Goto("starting")
      /\ HostSame /\ UNCHANGED <<row, saved, tags, observer, snapshot>>
  BY DEF StartCreated, StartsLater, Hosted, HostSame, host
<1>2. Works
  BY <1>1 DEF Works
<1>3. /\ Base /\ Place /\ row \in RowType /\ worker \in WorkerType /\ plan \in Plans
      /\ row.mutation /\ FilesFirst
  BY <1>1, <1>2, Running DEF Place, ApplyPhase
<1>4. worker' \in WorkerNext /\ worker'.at = "starting"
  BY <1>1, <1>3 DEF Goto, WorkerType, WorkerNext, Steps
<1>5. RowGrows /\ Moves
  BY <1>1, <1>3 DEF RowGrows, Moves, Base, Journalled
<1>6. /\ Wanted \in SUBSET Services /\ Wanted' = Wanted /\ Hosted' /\ FilesFirst' /\ Saved' = Saved
  BY <1>1, <1>3, PlanIs, HostKeeps DEF FilesFirst
<1>7. \A s \in plan'.next \ disturbed' : runtime'[s].new = "up" => s \in Wanted
  BY <1>1, <1>3 DEF Base, Helping, HostSame
<1>8. row'.mutation /\ row'.stage = "replacing"
  BY <1>1, <1>3 DEF Base, Helping
<1>9. /\ helper' \in HelperType /\ Helping'
      /\ helper'.kind = "apply" /\ helper'.start = Wanted
  BY <1>1, <1>4, <1>6, <1>7, <1>8, ComposeHelps
<1>10. Place'
  BY <1>4, <1>6, <1>8, <1>9
    DEF Place, PreparePhase, StopPhase, ApplyPhase, RollbackPhase, VerdictPhase, Preparing
<1>. QED
  BY <1>2, <1>4, <1>5, <1>9, <1>10, Announces

(* A worker stops waiting for its helper, which is gone or works on.       *)
LEMMA WaitEnds ==
    ASSUME DeploymentInv, HostSame, UNCHANGED <<row, saved, tags, snapshot>>,
           helper' = Idle \/ (helper' = helper /\ worker.at # "none"
                              /\ worker'.at \in {"recording", "gone"}),
           worker' = worker \/ (/\ worker.at \notin {"none", "gone"} /\ worker'.at # "none"
                                /\ worker' \in WorkerNext),
           observer' \in {"idle", "writing", "written"}, Finishing', Place'
    PROVE  DeploymentInv'
<1>1. /\ Base /\ Place /\ row \in RowType /\ worker \in WorkerType /\ helper \in HelperType
  BY Parts, Types DEF Base
<1>2. Idle \in HelperType /\ Idle.kind = "none" /\ ~Idle.checked
  BY DEF Idle, HelperType
<1>3. TypeOK'
  BY <1>1, <1>2, Types DEF WorkerNext, Base, HostSame
<1>4. Admitted'
  BY <1>1, HostKeeps DEF Base, Admitted, HostSame
<1>5. Journalled'
  <2>1. /\ AllOld' = AllOld /\ PeersOld' = PeersOld /\ FilesOld' = FilesOld
        /\ Self' = Self /\ Initial' = Initial /\ StopIsSafe' = StopIsSafe
    BY HostKeeps
  <2>2. Journalled
    BY <1>1 DEF Base
  <2>. QED
    BY <2>1, <2>2 DEF PeersKept, Journalled, HostSame
<1>6. Helping'
  <2>1. CASE helper' = Idle
    BY <1>2, <2>1 DEF Helping
  <2>2. CASE /\ helper' = helper /\ worker.at # "none"
             /\ worker'.at \in {"recording", "gone"}
    <3>1. Helping
      BY <1>1 DEF Base
    <3>2. helper.kind # "none" /\ ~helper.labelled => worker'.at = "gone"
      BY <2>2, <3>1 DEF Helping
    <3>3. Wanted' = Wanted
      BY HostKeeps
    <3>. QED
      BY <2>2, <3>1, <3>2, <3>3 DEF Helping, HostSame
  <2>. QED
    BY <2>1, <2>2
<1>7. StageTells'
  BY <1>1, HostKeeps DEF WorkerNext, Base, StageTells
<1>8. Results'
  BY <1>1, <1>2, HostKeeps DEF WorkerNext, Base, Results, Settled, Truthful, Unhelped
<1>. QED
  BY <1>3, <1>4, <1>5, <1>6, <1>7, <1>8, Parts DEF Base

(* WorkerDies: the helper works on.                                        *)
LEMMA WorkerDiesKeeps == ASSUME DeploymentInv, WorkerDies PROVE DeploymentInv'
<1>1. /\ worker.at \notin {"none", "gone"} /\ Goto("gone")
      /\ HostSame /\ UNCHANGED <<row, saved, tags, helper, observer, snapshot>>
  BY DEF WorkerDies, HostSame, host
<1>2. /\ Base /\ worker \in WorkerType /\ observer \in {"idle", "writing", "written"}
  BY Parts, Types DEF Base
<1>3. worker' \in WorkerNext /\ worker'.at = "gone"
  BY <1>1, <1>2 DEF Goto, WorkerType, WorkerNext, Steps
<1>4. Finishing'
  BY <1>1, <1>2 DEF Base, Finishing
<1>. QED
  BY <1>1, <1>2, <1>3, <1>4, GonePlaces, WaitEnds

(* WorkerGivesUp: the deadline passes.                                     *)
LEMMA WorkerGivesUpKeeps == ASSUME DeploymentInv, WorkerGivesUp PROVE DeploymentInv'
<1>1. /\ worker.at \in Waiting /\ Settle("recovery_required")
      /\ HostSame /\ UNCHANGED <<row, saved, tags, helper, observer, snapshot>>
  BY DEF WorkerGivesUp, HostSame, host
<1>2. Works
  BY <1>1 DEF Works, Waiting
<1>3. worker \in WorkerType /\ observer = "idle"
  BY <1>2, Running
<1>4. /\ worker' \in WorkerNext /\ worker'.at = "recording"
      /\ worker'.verdict = "recovery_required"
  BY <1>1, <1>3 DEF Settle, WorkerType, WorkerNext, Steps, Outcomes
<1>5. Finishing'
  BY <1>1, <1>3 DEF Finishing
<1>. QED
  BY <1>1, <1>2, <1>3, <1>4, <1>5, GonePlaces, WaitEnds DEF Works

(* HelperFails: a rollback has only begun when Compose or a commit of      *)
(* files failed.                                                           *)
LEMMA HelperFailsKeeps == ASSUME DeploymentInv, HelperFails PROVE DeploymentInv'
<1>1. /\ ~Unhelped /\ helper' = Idle
      /\ HostSame /\ UNCHANGED <<row, saved, tags, snapshot>>
      /\ observer' = IF helper.labelled THEN observer ELSE "idle"
  BY DEF HelperFails, HostSame, host, Unhelped
<1>2. /\ Base /\ Place /\ row \in RowType /\ worker \in WorkerType
      /\ worker.at \in Waiting \cup {"recording", "gone"}
      /\ worker.at = "recording" => worker.verdict = "recovery_required"
      /\ observer # "idle" => ~helper.labelled
      /\ observer \in {"idle", "writing", "written"}
  BY <1>1, Helped, Types DEF Base
<1>3. observer' = "idle" /\ Finishing'
  BY <1>1, <1>2 DEF Finishing
<1>4. CASE worker' = worker /\ worker.at \in {"recording", "gone"}
  BY <1>1, <1>2, <1>3, <1>4, GonePlaces, WaitEnds
<1>5. CASE /\ helper.labelled /\ worker.at \in Waiting
           /\ \/ Settle("recovery_required")
              \/ worker.at \notin {"writing_files", "restoring_files"} /\ FailKnown
  <2>1. worker.at \notin {"none", "gone"}
    BY <1>5 DEF Waiting
  <2>2. worker.at \notin {"writing_files", "restoring_files"} => row.mutation
    BY <1>2, <1>5 DEF Waiting, Place, ApplyPhase
  <2>3. /\ worker' \in WorkerNext
        /\ \/ worker'.at = "recording" /\ worker'.verdict = "recovery_required"
           \/ worker'.at = "recording" /\ worker'.verdict = "failed" /\ Initial /\ row.mutation
           \/ worker'.at = "rolling" /\ ~Initial /\ row.mutation
    BY <1>2, <1>5, <2>2, FailGoes DEF FailKnown
  <2>4. Unhelped' /\ Initial' = Initial
    BY <1>1, HostKeeps DEF Unhelped, Idle
  <2>5. Place'
    <3>1. CASE worker'.at = "recording" /\ worker'.verdict = "failed" /\ Initial /\ row.mutation
      BY <1>1, <2>4, <3>1
        DEF Place, PreparePhase, StopPhase, ApplyPhase, RollbackPhase, VerdictPhase,
            Preparing, Truthful, Restored
    <3>2. CASE worker'.at = "rolling" /\ ~Initial /\ row.mutation
      BY <1>1, <2>4, <3>2
        DEF Place, PreparePhase, StopPhase, ApplyPhase, RollbackPhase, VerdictPhase, Preparing
    <3>. QED
      BY <2>3, <3>1, <3>2, GonePlaces
  <2>. QED
    BY <1>1, <1>3, <2>1, <2>3, <2>5, WaitEnds
<1>6. ~helper.labelled \/ worker.at \notin Waiting => worker.at \in {"recording", "gone"}
  BY <1>1, <1>2, Helped
<1>. QED
  BY <1>4, <1>5, <1>6 DEF HelperFails, NotRestored

(* What a helper that succeeded leaves.                                    *)
LEMMA HelperLeaves ==
    ASSUME DeploymentInv, ~Unhelped, HelperDone
    PROVE  /\ helper.kind = "commit" => FilesNew
           /\ helper.kind = "restore" => FilesOld
           /\ worker.at = "applying" /\ ~StartsLater => AllNew
           /\ worker.at = "starting" => AllNew
<1>1. /\ Helping /\ ApplyPhase /\ plan \in Plans
      /\ worker.at \in {"applying", "starting"} => helper.kind = "apply"
  BY Helped DEF Base, Place
<1>2. helper.kind \in {"commit", "restore"} => helper.checked /\ helper.todo = {}
  BY DEF HelperDone
<1>3. helper.kind = "commit" => FilesNew
  BY <1>1, <1>2 DEF Helping, FilesNew
<1>4. helper.kind = "restore" => FilesOld
  BY <1>1, <1>2 DEF Helping, FilesOld
<1>5. ASSUME worker.at = "starting" \/ (worker.at = "applying" /\ ~StartsLater)
      PROVE  AllNew
  <2>1. Applied /\ helper.kind = "apply"
    BY <1>1, <1>5 DEF HelperDone
  <2>2. Wanted \subseteq helper.start /\ helper.start \subseteq Wanted
    BY <1>1, <1>5, <2>1, PlanIs DEF ApplyPhase, Helping, StartsLater, Saved
  <2>3. ASSUME NEW s \in plan.next
        PROVE  AsAfter(s)
    <3>1. runtime[s].old = "none" /\ runtime[s].new # "none"
      BY <2>1, <2>3 DEF Applied
    <3>2. s \notin disturbed => (runtime[s].new = "up" <=> s \in Wanted)
      BY <1>1, <2>1, <2>2, <2>3 DEF Applied, Helping
    <3>. QED
      BY <3>1, <3>2 DEF AsAfter
  <2>. QED
    BY <2>3 DEF AllNew
<1>. QED
  BY <1>3, <1>4, <1>5

(* HelperSucceeds: the worker that waited goes on, another stays where it  *)
(* is; the web process finishes the commit it began.                       *)
LEMMA HelperSucceedsKeeps == ASSUME DeploymentInv, HelperSucceeds PROVE DeploymentInv'
<1>1. /\ ~Unhelped /\ HelperDone /\ ~StartsLater /\ helper' = Idle
      /\ HostSame /\ UNCHANGED <<row, saved, tags, snapshot>>
      /\ observer' = IF ~helper.labelled /\ observer = "writing" THEN "written" ELSE observer
  BY DEF HelperSucceeds, HostSame, host, Unhelped
<1>2. /\ Base /\ Place /\ plan \in Plans /\ row \in RowType /\ worker \in WorkerType
      /\ worker.at \in Waiting \cup {"recording", "gone"}
      /\ worker.at = "recording" => worker.verdict = "recovery_required"
      /\ ~helper.labelled => worker.at = "gone"
      /\ worker.at \in Waiting => observer = "idle"
      /\ observer # "idle" => observer = "writing" /\ ~helper.labelled /\ helper.kind = "commit"
      /\ observer \in {"idle", "writing", "written"}
  BY <1>1, Helped, Types DEF Base
<1>3. /\ AllNew' = AllNew /\ FilesNew' = FilesNew /\ FilesOld' = FilesOld
      /\ Saved' = Saved /\ Initial' = Initial /\ Unhelped'
      /\ Selected' = Selected /\ FilesFirst' = FilesFirst
  BY <1>1, HostKeeps DEF Unhelped, Idle, FilesFirst
<1>4. CASE worker' = worker /\ worker.at \in {"recording", "gone"}
  <2>1. Finishing'
    <3>1. Finishing
      BY <1>2 DEF Base
    <3>2. observer' # "idle" => observer' = "written" /\ FilesNew' /\ worker.at = "gone"
      BY <1>1, <1>2, <1>3, <3>1, HelperLeaves DEF Finishing
    <3>. QED
      BY <1>1, <1>2, <1>3, <1>4, <3>1, <3>2 DEF Finishing, Unhelped
  <2>. QED
    BY <1>1, <1>2, <1>4, <2>1, GonePlaces, WaitEnds
<1>5. CASE helper.labelled /\ worker.at \in Waiting /\ Goto(AfterHelper)
  <2>1. /\ worker' \in WorkerNext /\ worker'.at = AfterHelper
        /\ AfterHelper \in {"replacing", "verifying", "committing", "removing"}
        /\ worker.at \notin {"none", "gone"}
    BY <1>2, <1>5 DEF Goto, AfterHelper, WorkerType, WorkerNext, Steps, Waiting
  <2>2. Finishing' /\ observer' = "idle"
    BY <1>1, <1>2, <1>5 DEF Finishing
  <2>3. CASE worker.at = "writing_files"
    <3>1. worker'.at = "replacing"
      BY <2>1, <2>3 DEF AfterHelper
    <3>2. /\ Saved /\ Initial /\ ~row.mutation /\ ~row.backup /\ FilesNew
          /\ plan.operation # "pull" /\ Selected = {}
      BY <1>1, <1>2, <2>3, PlanIs, HelperLeaves
        DEF Place, PreparePhase, Base, Journalled, Initial
    <3>3. Place'
      BY <1>1, <1>3, <3>1, <3>2
        DEF Place, PreparePhase, StopPhase, ApplyPhase, RollbackPhase, VerdictPhase,
            Preparing, Retained, FilesFirst, HostSame
    <3>. QED
      BY <1>1, <2>1, <2>2, <3>3, WaitEnds
  <2>4. CASE worker.at \in {"applying", "starting"}
    <3>1. worker'.at = "verifying"
      BY <2>1, <2>4 DEF AfterHelper
    <3>2. AllNew /\ row.mutation /\ FilesFirst
      BY <1>1, <1>2, <2>4, HelperLeaves DEF Place, ApplyPhase
    <3>3. Place'
      BY <1>1, <1>3, <3>1, <3>2
        DEF Place, PreparePhase, StopPhase, ApplyPhase, RollbackPhase, VerdictPhase, Preparing
    <3>. QED
      BY <1>1, <2>1, <2>2, <3>3, WaitEnds
  <2>5. CASE worker.at = "committing_files"
    <3>1. worker'.at = "committing"
      BY <2>1, <2>5 DEF AfterHelper
    <3>2. Saved /\ row.mutation /\ AllNew /\ FilesNew
      BY <1>1, <1>2, <2>5, HelperLeaves DEF Place, ApplyPhase
    <3>3. Place'
      BY <1>1, <1>3, <3>1, <3>2
        DEF Place, PreparePhase, StopPhase, ApplyPhase, RollbackPhase, VerdictPhase, Preparing
    <3>. QED
      BY <1>1, <2>1, <2>2, <3>3, WaitEnds
  <2>6. CASE worker.at = "restoring_files"
    <3>1. worker'.at = "removing"
      BY <2>1, <2>6 DEF AfterHelper
    <3>2. /\ ~Initial /\ row.mutation /\ FilesOld
          /\ worker.silent \/ row.stage \notin {"verifying", "committing"}
      BY <1>1, <1>2, <2>6, HelperLeaves DEF Place, RollbackPhase
    <3>3. Place'
      BY <1>1, <1>3, <2>1, <3>1, <3>2
        DEF WorkerNext, Place, PreparePhase, StopPhase, ApplyPhase, RollbackPhase, VerdictPhase, Preparing
    <3>. QED
      BY <1>1, <2>1, <2>2, <3>3, WaitEnds
  <2>. QED
    BY <1>5, <2>3, <2>4, <2>5, <2>6 DEF Waiting
<1>. QED
  BY <1>2, <1>4, <1>5 DEF HelperSucceeds

(* Enqueue: nothing of the project is changed yet.                         *)
LEMMA EnqueueKeeps == ASSUME DeploymentInv, Enqueue PROVE DeploymentInv'
<1>1. /\ row.status = "none"
      /\ HostSame /\ UNCHANGED <<tags, helper, observer, snapshot>>
      /\ saved' = saved \/ (Initial /\ saved' = "new")
  BY DEF Enqueue, HostSame, host
<1>2. /\ Base /\ Place /\ plan \in Plans /\ row \in RowType /\ worker \in WorkerType
      /\ worker.at = "none" /\ row.outcome = ""
      /\ saved \in {"old", "new"} /\ helper \in HelperType
  BY <1>1, Parts, Types DEF Base, Admitted
<1>3. /\ ~row.mutation /\ ~row.fileCommit /\ ~row.backup /\ Unhelped
      /\ AllOld /\ PeersOld /\ FilesOld /\ observer = "idle" /\ ~helper.checked
  BY <1>2 DEF Place, PreparePhase, Preparing, Base, Journalled, Finishing, Helping, Unhelped
<1>4. /\ worker' \in WorkerNext
      /\ row' \in RowType /\ row'.stage = row.stage /\ row'.mutation = row.mutation
      /\ row'.fileCommit = row.fileCommit /\ row'.backup = row.backup
      /\ row'.retained = row.retained
      /\ \/ row'.status = "running" /\ row'.outcome = "" /\ worker'.at = "preparing"
         \/ row'.status = "failed" /\ row'.outcome = "failed" /\ worker'.at = "gone"
  <2>1. /\ "preparing" \in Steps /\ "gone" \in Steps
        /\ "failed" \in Outcomes
    BY DEF Steps, Outcomes
  <2>2. worker' \in WorkerNext /\ worker'.at \in {"preparing", "gone"}
    BY <1>2, <2>1 DEF Enqueue, Goto, WorkerType, WorkerNext
  <2>3. CASE row' = [row EXCEPT !.status = "running"] /\ Goto("preparing")
    BY <1>2, <2>1, <2>2, <2>3 DEF Goto, WorkerType, WorkerNext, RowType
  <2>4. CASE row' = [row EXCEPT !.status = "failed", !.outcome = "failed"] /\ Goto("gone")
    BY <1>2, <2>1, <2>2, <2>4 DEF Goto, WorkerType, WorkerNext, RowType
  <2>. QED
    BY <2>3, <2>4 DEF Enqueue
<1>5. TypeOK'
  BY <1>1, <1>2, <1>4, Types DEF WorkerNext, Base, HostSame
<1>6. Admitted'
  <2>1. saved' = "new" => Initial
    BY <1>1, <1>2 DEF Base, Admitted
  <2>. QED
    BY <1>1, <1>2, <1>4, <2>1, HostKeeps DEF Admitted, HostSame
<1>7. Journalled'
  <2>1. /\ AllOld' = AllOld /\ PeersOld' = PeersOld /\ FilesOld' = FilesOld
        /\ Self' = Self /\ Initial' = Initial /\ StopIsSafe' = StopIsSafe
    BY <1>1, HostKeeps
  <2>2. Journalled
    BY <1>2 DEF Base
  <2>. QED
    BY <1>1, <1>4, <2>1, <2>2 DEF PeersKept, Journalled, HostSame
<1>8. Helping' /\ Finishing' /\ StageTells'
  BY <1>1, <1>2, <1>3, <1>4, HostKeeps DEF WorkerNext, Base, Helping, Unhelped, Finishing, StageTells
<1>9. Results'
  BY <1>1, <1>3, <1>4, HostKeeps DEF Results, Settled, Restored, Truthful, Unhelped, Recovery
<1>10. Place'
  BY <1>1, <1>3, <1>4, GonePlaces, PreparingPlaces DEF Preparing, Unhelped
<1>. QED
  BY <1>5, <1>6, <1>7, <1>8, <1>9, <1>10, Parts DEF Base

-----------------------------------------------------------------------------
(* The worker is gone.                                                      *)

\* A step of the web process about a job whose worker is gone.
Observes ==
    /\ HostSame /\ worker' = worker /\ worker.at = "gone" /\ row.status # "none"
    /\ row' \in RowType /\ row'.status # "none"
    /\ row'.status = "running" => row'.outcome = ""
    /\ row'.mutation = row.mutation /\ row'.backup = row.backup
    /\ row'.retained = row.retained
    /\ row.fileCommit => row'.fileCommit
    /\ row'.fileCommit => row.fileCommit \/ (row.mutation /\ plan.operation = "sync")
    /\ saved' = saved \/ (saved' = "new" /\ row'.outcome \in {"verified", "reconciled"})
    /\ row.outcome \in {"verified", "reconciled"} => row'.outcome = row.outcome
    /\ tags' \subseteq tags
    /\ snapshot' = snapshot \/ (snapshot # "none" /\ snapshot' = "removed")
    /\ observer' \in {"idle", "writing", "written"} /\ helper' \in HelperType

(* It keeps the invariant if its helper, its observer and its result do.   *)
LEMMA ObserverKeeps ==
    ASSUME DeploymentInv, Observes, Helping', Finishing', StageTells', Results'
    PROVE  DeploymentInv'
<1>1. Base
  BY Parts
<1>2. TypeOK'
  BY <1>1, Types DEF Base, Observes, HostSame
<1>3. Admitted'
  BY <1>1, HostKeeps DEF Base, Admitted, Observes, HostSame
<1>4. Journalled'
  <2>1. /\ AllOld' = AllOld /\ PeersOld' = PeersOld /\ FilesOld' = FilesOld
        /\ Self' = Self /\ Initial' = Initial /\ StopIsSafe' = StopIsSafe
    BY HostKeeps DEF Observes
  <2>2. Journalled
    BY <1>1 DEF Base
  <2>. QED
    BY <2>1, <2>2 DEF PeersKept, Journalled, Observes, HostSame
<1>. QED
  BY <1>2, <1>3, <1>4, GonePlaces, Parts DEF Base, Observes

(* Observe: what is recorded as reconciled was announced as complete.      *)
LEMMA ObserveKeeps == ASSUME DeploymentInv, Observe PROVE DeploymentInv'
<1>1. /\ worker.at = "gone" /\ row.status = "running" /\ observer = "idle"
      /\ helper.kind = "none" \/ ~helper.labelled
      /\ HostSame /\ UNCHANGED <<worker, tags, snapshot>>
  BY DEF Observe, HostSame, host
<1>2. /\ Base /\ plan \in Plans /\ row \in RowType /\ helper \in HelperType
      /\ row.outcome = "" /\ saved \in {"old", "new"}
  BY <1>1, Parts, Types DEF Base, Admitted
<1>3. /\ AllOld' = AllOld /\ AllNew' = AllNew /\ FilesOld' = FilesOld /\ FilesNew' = FilesNew
      /\ Wanted' = Wanted /\ Saved' = Saved /\ Initial' = Initial
  BY <1>1, HostKeeps
<1>4. Helping /\ StageTells
  BY <1>2 DEF Base
<1>5. CASE /\ row' = [row EXCEPT !.status = "failed", !.outcome = "recovery_required"]
           /\ UNCHANGED <<saved, helper, observer>>
  <2>1. /\ row' \in RowType /\ row'.status = "failed" /\ row'.outcome = "recovery_required"
        /\ row'.stage = row.stage /\ row'.mutation = row.mutation
        /\ row'.fileCommit = row.fileCommit /\ row'.backup = row.backup
        /\ row'.retained = row.retained
    BY <1>2, <1>5 DEF RowType, Outcomes
  <2>2. Observes
    BY <1>1, <1>2, <1>5, <2>1 DEF Observes
  <2>3. Helping'
    BY <1>1, <1>3, <1>4, <1>5, <2>1 DEF Helping, HostSame
  <2>4. Finishing' /\ StageTells' /\ Results'
    BY <1>1, <1>3, <1>4, <1>5, <2>1 DEF Finishing, StageTells, Results, Recovery
  <2>. QED
    BY <2>2, <2>3, <2>4, ObserverKeeps
<1>6. CASE /\ row' = [row EXCEPT !.status = "succeeded", !.outcome = "reconciled"]
           /\ UNCHANGED <<helper, observer>> /\ Unhelped
           /\ saved' = saved \/ saved' = "new"
           /\ Saved => saved' = "new"
           /\ FilesNew /\ (worker.silent \/ AllNew)
  <2>1. /\ row' \in RowType /\ row'.status = "succeeded" /\ row'.outcome = "reconciled"
        /\ row'.stage = row.stage /\ row'.mutation = row.mutation
        /\ row'.fileCommit = row.fileCommit /\ row'.backup = row.backup
        /\ row'.retained = row.retained
    BY <1>2, <1>6 DEF RowType, Outcomes
  <2>2. Observes
    BY <1>1, <1>2, <1>6, <2>1 DEF Observes
  <2>3. Helping'
    BY <1>4, <1>6 DEF Helping, Unhelped
  <2>4. Finishing' /\ StageTells'
    BY <1>1, <1>3, <1>4, <1>6, <2>1 DEF Finishing, StageTells
  <2>5. Results'
    BY <1>1, <1>3, <1>6, <2>1 DEF Results, Truthful, Unhelped, Restored
  <2>. QED
    BY <2>2, <2>3, <2>4, <2>5, ObserverKeeps
<1>7. CASE FinishFiles /\ Unhelped /\ row.stage \in {"verifying", "committing"}
  <2>1. /\ row' \in RowType /\ row'.status = "running" /\ row'.outcome = ""
        /\ row'.stage = "committing_files" /\ row'.mutation = row.mutation /\ row.mutation
        /\ row'.fileCommit /\ row'.backup = row.backup /\ row'.retained = row.retained
        /\ helper' = Script("commit", FALSE) /\ observer' = "writing" /\ saved' = saved
        /\ Saved /\ plan.operation = "sync"
    BY <1>1, <1>2, <1>7 DEF FinishFiles, Complete, RowType, Stages
  <2>2. /\ helper' \in HelperType /\ Helping'
        /\ helper'.kind = "commit" /\ ~helper'.labelled
    BY <1>1, <2>1, ScriptHelps
  <2>3. Observes
    BY <1>1, <1>2, <2>1, <2>2 DEF Observes
  <2>4. worker.silent \/ AllNew
    BY <1>4, <1>7 DEF StageTells
  <2>5. Finishing'
    BY <1>1, <1>3, <2>1, <2>2, <2>4 DEF Finishing
  <2>6. StageTells' /\ Results'
    BY <2>1 DEF StageTells, Results, Settled
  <2>. QED
    BY <2>2, <2>3, <2>5, <2>6, ObserverKeeps
<1>8. row.stage \in {"verifying", "committing"} => worker.silent \/ AllNew
  BY <1>4 DEF StageTells
<1>9. CASE Reconcile /\ Unhelped /\ row.stage \in {"verifying", "committing"}
  <2>1. FilesNew
    BY <1>9 DEF Reconcile, FilesAre, FilesNew
  <2>. QED
    BY <1>2, <1>6, <1>8, <1>9, <2>1, PlanIs DEF Reconcile, CommitAs
<1>10. CASE ReconcileHosted /\ Unhelped /\ row.stage \in {"verifying", "committing"}
  <2>1. FilesNew
    BY <1>2, <1>10, PlanIs DEF ReconcileHosted, FilesUnchanged, FilesNew
  <2>. QED
    BY <1>2, <1>6, <1>8, <1>10, <2>1, PlanIs DEF ReconcileHosted
<1>. QED
  BY <1>5, <1>7, <1>9, <1>10 DEF Observe, Unhelped

(* CommitWritten: the files of a complete replacement are written.         *)
LEMMA CommitWrittenKeeps == ASSUME DeploymentInv, CommitWritten PROVE DeploymentInv'
<1>1. /\ observer = "written" /\ row.status = "running" /\ observer' = "idle" /\ saved' = "new"
      /\ row' = [row EXCEPT !.status = "succeeded", !.outcome = "reconciled"]
      /\ HostSame /\ UNCHANGED <<worker, tags, helper, snapshot>>
  BY DEF CommitWritten, CommitAs, HostSame, host
<1>2. Base /\ row \in RowType /\ helper \in HelperType /\ row.outcome = ""
  BY <1>1, Parts, Types DEF Base, Admitted
<1>3. Helping /\ StageTells /\ Finishing
  BY <1>2 DEF Base
<1>4. /\ worker.at = "gone" /\ Saved /\ Unhelped /\ FilesNew /\ (worker.silent \/ AllNew)
  BY <1>1, <1>3 DEF Finishing, Unhelped
<1>5. /\ row' \in RowType /\ row'.status = "succeeded" /\ row'.outcome = "reconciled"
      /\ row'.stage = row.stage /\ row'.mutation = row.mutation
      /\ row'.fileCommit = row.fileCommit /\ row'.backup = row.backup
      /\ row'.retained = row.retained
  BY <1>1, <1>2 DEF RowType, Outcomes
<1>6. AllNew' = AllNew /\ FilesNew' = FilesNew
  BY <1>1, HostKeeps
<1>7. Observes
  BY <1>1, <1>2, <1>4, <1>5 DEF Observes
<1>8. Helping' /\ Finishing' /\ StageTells'
  BY <1>1, <1>3, <1>4, <1>5, <1>6 DEF Helping, Unhelped, Finishing, StageTells
<1>9. Results'
  BY <1>1, <1>4, <1>5, <1>6 DEF Results, Truthful, Unhelped, Restored
<1>. QED
  BY <1>7, <1>8, <1>9, ObserverKeeps

(* WebDies: its helper works on.                                           *)
LEMMA WebDiesKeeps == ASSUME DeploymentInv, WebDies PROVE DeploymentInv'
<1>1. /\ observer # "idle" /\ observer' = "idle"
      /\ HostSame /\ UNCHANGED <<row, worker, saved, tags, helper, snapshot>>
  BY DEF WebDies, HostSame, host
<1>2. /\ Base /\ row \in RowType /\ helper \in HelperType
      /\ worker.at = "gone" /\ row.status = "running" /\ row.outcome = ""
  BY <1>1, Parts, Types DEF Base, Finishing, Admitted
<1>3. Helping /\ StageTells /\ AllNew' = AllNew /\ Wanted' = Wanted
  BY <1>1, <1>2, HostKeeps DEF Base
<1>4. Observes
  BY <1>1, <1>2 DEF Observes
<1>5. Helping' /\ Finishing' /\ StageTells' /\ Results'
  BY <1>1, <1>2, <1>3 DEF Helping, Finishing, StageTells, Results, Settled, HostSame
<1>. QED
  BY <1>4, <1>5, ObserverKeeps

(* AcknowledgeRecovery: the host has looked.                               *)
LEMMA AcknowledgeRecoveryKeeps == ASSUME DeploymentInv, AcknowledgeRecovery PROVE DeploymentInv'
<1>1. /\ worker.at = "gone" /\ row.outcome = "recovery_required"
      /\ row' = [row EXCEPT !.outcome = "recovery_acknowledged"]
      /\ HostSame /\ UNCHANGED <<worker, saved, tags, helper, observer, snapshot>>
  BY DEF AcknowledgeRecovery, HostSame, host
<1>2. /\ Base /\ row \in RowType /\ helper \in HelperType
      /\ row.status \in {"succeeded", "failed"} /\ observer \in {"idle", "writing", "written"}
  BY <1>1, Parts, Types DEF Base, Admitted, RowType
<1>3. /\ row' \in RowType /\ row'.status = row.status /\ row'.outcome = "recovery_acknowledged"
      /\ row'.stage = row.stage /\ row'.mutation = row.mutation
      /\ row'.fileCommit = row.fileCommit /\ row'.backup = row.backup
      /\ row'.retained = row.retained
  BY <1>1, <1>2 DEF RowType, Outcomes
<1>4. /\ Helping /\ StageTells /\ Finishing /\ AllNew' = AllNew /\ Wanted' = Wanted
  BY <1>1, <1>2, HostKeeps DEF Base
<1>5. Observes
  BY <1>1, <1>2, <1>3 DEF Observes
<1>6. Helping'
  BY <1>1, <1>3, <1>4 DEF Helping, HostSame
<1>7. Finishing' /\ StageTells' /\ Results'
  BY <1>1, <1>2, <1>3, <1>4 DEF Finishing, StageTells, Results, Settled, Recovery
<1>. QED
  BY <1>5, <1>6, <1>7, ObserverKeeps

(* What was kept for a rollback is removed.                                *)
LEMMA CleanupKeeps == ASSUME DeploymentInv, Cleanup PROVE DeploymentInv'
<1>1. /\ Settled /\ tags' \subseteq tags
      /\ snapshot' = snapshot \/ (snapshot = "taken" /\ snapshot' = "removed")
      /\ HostSame /\ UNCHANGED <<row, worker, saved, helper, observer>>
  BY DEF Cleanup, CleanupTag, CleanupSnapshot, HostSame, host
<1>2. /\ Base /\ row \in RowType /\ helper \in HelperType /\ worker.at = "gone"
      /\ observer \in {"idle", "writing", "written"}
  BY <1>1, Parts, Types DEF Base, Admitted, Settled, WorkerType, WorkerNext
<1>3. /\ Helping /\ StageTells /\ Finishing /\ Results
      /\ AllNew' = AllNew /\ FilesNew' = FilesNew /\ AllOld' = AllOld /\ FilesOld' = FilesOld
      /\ Wanted' = Wanted /\ Initial' = Initial /\ Saved' = Saved
  BY <1>1, <1>2, HostKeeps DEF Base
<1>4. Observes
  BY <1>1, <1>2 DEF Observes, Settled
<1>5. Helping' /\ Finishing' /\ StageTells'
  BY <1>1, <1>3 DEF Helping, Finishing, StageTells, HostSame
<1>6. Results'
  BY <1>1, <1>3 DEF Results, Settled, Truthful, Unhelped
<1>. QED
  BY <1>4, <1>5, <1>6, ObserverKeeps

(* HostActs: what is said of containers and files excepts those that the   *)
(* host disturbed, or allows for what it may have done to them.            *)
LEMMA HostActsKeeps ==
    ASSUME DeploymentInv, NEW x \in Services \cup Files, HostActs(x)
    PROVE  DeploymentInv'
<1>1. /\ disturbed' = disturbed \cup {x} /\ x \notin disturbed
      /\ UNCHANGED <<plan, row, worker, saved, tags, helper, observer, snapshot>>
      /\ row.status # "none"
  BY DEF HostActs
<1>2. /\ Base /\ Place /\ plan \in Plans /\ runtime \in RuntimeType
      /\ files \in [Files -> {"old", "new", "other"}]
      /\ disturbed \subseteq Services \cup Files
  BY Parts, Types DEF Base, Admitted
<1>3. /\ files' \in [Files -> {"old", "new", "other"}]
      /\ \A f \in Files : f # x => files'[f] = files[f]
  <2>1. CASE x \in Files /\ files' = [files EXCEPT ![x] = "other"]
    BY <1>2, <2>1
  <2>2. CASE files' = files
    BY <1>2, <2>2
  <2>. QED
    BY <2>1, <2>2 DEF HostActs
<1>4. /\ runtime' \in RuntimeType
      /\ \A s \in Services : s # x => runtime'[s] = runtime[s]
      /\ \A s \in Services :
             /\ runtime'[s].old = "none" <=> runtime[s].old = "none"
             /\ runtime'[s].new = "none" <=> runtime[s].new = "none"
  <2>1. CASE runtime' = runtime
    BY <1>2, <2>1
  <2>2. CASE x \in Services
    <3>. DEFINE flip(state) == IF state = "up" THEN "down" ELSE "up"
    <3>1. CASE runtime[x].old # "none" /\ runtime' = [runtime EXCEPT ![x].old = flip(@)]
      BY <1>2, <2>2, <3>1 DEF RuntimeType, States
    <3>2. CASE runtime[x].new # "none" /\ runtime' = [runtime EXCEPT ![x].new = flip(@)]
      BY <1>2, <2>2, <3>2 DEF RuntimeType, States
    <3>3. CASE runtime' = [runtime EXCEPT ![x].other = TRUE]
      BY <1>2, <2>2, <3>3 DEF RuntimeType, States
    <3>. QED
      BY <2>1, <2>2, <3>1, <3>2, <3>3, NamesAssumption DEF HostActs
  <2>. QED
    BY <2>1, <2>2 DEF HostActs
<1>5. ASSUME NEW s \in Services
      PROVE  /\ AsBefore(s) => AsBefore(s)'
             /\ AsAfter(s) => AsAfter(s)'
  <2>1. CASE s = x
    <3>1. s \notin disturbed /\ s \in disturbed' /\ Inspected[s].new = "none"
      BY <1>1, <2>1, InspectedIs
    <3>. QED
      BY <1>4, <3>1 DEF AsBefore, AsAfter
  <2>2. CASE s # x
    BY <1>1, <1>4, <2>2 DEF AsBefore, AsAfter, Inspected, Wanted
  <2>. QED
    BY <2>1, <2>2
<1>6. plan.next \subseteq Services /\ plan.yard \subseteq Services /\ plan.edited \subseteq Files
  BY <1>2, PlanIs
<1>7. /\ AllOld => AllOld'
      /\ AllNew => AllNew'
      /\ PeersOld => PeersOld'
      /\ FilesOld => FilesOld'
      /\ FilesNew => FilesNew'
  <2>1. AllOld => AllOld'
    BY <1>1, <1>5, <1>6 DEF AllOld
  <2>2. AllNew => AllNew'
    BY <1>1, <1>5, <1>6 DEF AllNew
  <2>3. PeersOld => PeersOld'
    BY <1>1, <1>5, <1>6 DEF PeersOld
  <2>4. (FilesOld => FilesOld') /\ (FilesNew => FilesNew')
    BY <1>1, <1>3 DEF FilesOld, FilesNew
  <2>. QED
    BY <2>1, <2>2, <2>3, <2>4
<1>8. /\ Initial' = Initial /\ Self' = Self /\ StopIsSafe' = StopIsSafe /\ Saved' = Saved
      /\ Hosted' = Hosted /\ Selected' = Selected /\ Replaced' = Replaced /\ Wanted' = Wanted
  BY <1>1 DEF Initial, Self, StopIsSafe, Saved, Hosted, Selected, Replaced, Wanted
<1>9. TypeOK'
  BY <1>1, <1>2, <1>3, <1>4, Types DEF Base
<1>10. Admitted'
  BY <1>1, <1>2, <1>8 DEF Base, Admitted
<1>11. Journalled'
  <2>1. Journalled
    BY <1>2 DEF Base
  <2>2. /\ \A s \in Services \ disturbed' : ~runtime'[s].other
        /\ \A s \in Services \ plan'.previous : runtime'[s].old = "none"
    BY <1>1, <1>4, <2>1 DEF Journalled
  <2>. QED
    BY <1>1, <1>7, <1>8, <2>1, <2>2 DEF PeersKept, Journalled
<1>12. Helping'
  <2>1. Helping
    BY <1>2 DEF Base
  <2>2. helper.kind = "apply" =>
            \A s \in plan.next \ disturbed' : runtime'[s].new = "up" => s \in helper.start
    BY <1>1, <1>4, <1>6, <2>1 DEF Helping
  <2>3. helper.kind \in {"commit", "restore"} /\ helper.checked =>
            \A f \in Files \ (disturbed' \cup helper.todo) :
                files'[f] = IF helper.kind = "commit" /\ f \in plan.edited THEN "new" ELSE "old"
    BY <1>1, <1>3, <2>1 DEF Helping
  <2>. QED
    BY <1>1, <1>8, <2>1, <2>2, <2>3 DEF Helping
<1>13. Finishing' /\ StageTells' /\ Results'
  <2>1. Finishing /\ StageTells /\ Results
    BY <1>2 DEF Base
  <2>2. Finishing' /\ StageTells'
    BY <1>1, <1>7, <1>8, <2>1 DEF Finishing, StageTells
  <2>3. Results'
    BY <1>1, <1>7, <1>8, <2>1 DEF Results, Settled, Truthful, Unhelped
  <2>. QED
    BY <2>2, <2>3
<1>14. (FilesFirst => FilesFirst') /\ (Retained => Retained') /\ Unhelped' = Unhelped
  BY <1>1, <1>7, <1>8 DEF FilesFirst, Retained, Unhelped
<1>15. PreparePhase'
  <2>1. PreparePhase
    BY <1>2 DEF Place
  <2>. QED
    BY <1>1, <1>8, <1>14, <2>1 DEF PreparePhase
<1>16. StopPhase'
  <2>1. StopPhase
    BY <1>2 DEF Place
  <2>2. worker.at \in {"journal_backup", "stop", "backup"} =>
            \A s \in plan.next : runtime'[s].new = "none"
    BY <1>4, <1>6, <2>1 DEF StopPhase
  <2>3. worker.at \in {"backup", "restore_database"} =>
            \A s \in plan.yard \ disturbed' : ~Up(s)'
    BY <1>1, <1>4, <1>6, <2>1 DEF StopPhase, Up
  <2>. QED
    BY <1>1, <1>8, <1>14, <2>1, <2>2, <2>3 DEF StopPhase
<1>17. ApplyPhase'
  <2>1. ApplyPhase
    BY <1>2 DEF Place
  <2>. QED
    BY <1>1, <1>7, <1>8, <1>14, <2>1 DEF ApplyPhase
<1>18. RollbackPhase'
  <2>1. RollbackPhase
    BY <1>2 DEF Place
  <2>2. worker.at = "recreating" =>
            /\ \A s \in plan.next : runtime'[s].new = "none"
            /\ \A s \in plan.next \ worker.left : AsBefore(s)'
    BY <1>4, <1>5, <1>6, <2>1 DEF RollbackPhase
  <2>. QED
    BY <1>1, <1>7, <1>8, <1>14, <2>1, <2>2 DEF RollbackPhase
<1>19. VerdictPhase'
  <2>1. VerdictPhase
    BY <1>2 DEF Place
  <2>. QED
    BY <1>1, <1>7, <1>8, <1>14, <2>1 DEF VerdictPhase, Truthful
<1>. QED
  BY <1>9, <1>10, <1>11, <1>12, <1>13, <1>15, <1>16, <1>17, <1>18, <1>19, Parts DEF Base, Place

-----------------------------------------------------------------------------
(* The invariant.                                                           *)

(* Nothing is changed at first.                                            *)
LEMMA InitKeeps == ASSUME Init PROVE DeploymentInv
<1>1. /\ row = [status |-> "none", stage |-> "queued", outcome |-> "", mutation |-> FALSE,
                fileCommit |-> FALSE, backup |-> FALSE, retained |-> {}]
      /\ worker = [at |-> "none", verdict |-> "", left |-> {}, silent |-> FALSE]
      /\ runtime = Inspected /\ files = [f \in Files |-> "old"] /\ saved = "old"
      /\ tags = {} /\ helper = Idle /\ observer = "idle" /\ snapshot = "none"
      /\ disturbed = {} /\ plan \in Plans
  BY DEF Init
<1>2. plan.up \subseteq plan.previous /\ plan.next \subseteq Services
  BY <1>1, PlanIs
<1>3. Inspected \in RuntimeType
  BY DEF Inspected, RuntimeType, States
<1>4. TypeOK
  BY <1>1, <1>3, Types
    DEF RowType, Stages, Outcomes, WorkerType, WorkerNext, Steps, HelperType, Idle
<1>5. AllOld /\ PeersOld /\ FilesOld
  BY <1>1, <1>2 DEF AllOld, PeersOld, FilesOld, AsBefore
<1>6. /\ \A s \in Services : ~runtime[s].other
      /\ \A s \in Services \ plan.previous : runtime[s].old = "none"
  BY <1>1, <1>2, InspectedIs
<1>7. Admitted
  BY <1>1 DEF Admitted
<1>8. Journalled
  BY <1>1, <1>5, <1>6 DEF PeersKept, Journalled
<1>9. Helping /\ Finishing /\ StageTells /\ Results
  BY <1>1 DEF Helping, Finishing, StageTells, Results, Settled, Idle
<1>10. PreparePhase /\ StopPhase /\ ApplyPhase /\ RollbackPhase /\ VerdictPhase
  BY <1>1 DEF PreparePhase, StopPhase, ApplyPhase, RollbackPhase, VerdictPhase, Preparing,
              Unhelped, Idle
<1>. QED
  BY <1>4, <1>7, <1>8, <1>9, <1>10 DEF DeploymentInv

(* So does a step that changes nothing.                                    *)
LEMMA StutterKeeps == ASSUME DeploymentInv, UNCHANGED vars PROVE DeploymentInv'
<1>1. HostSame /\ UNCHANGED <<row, worker, saved, tags, helper, observer, snapshot>>
  BY DEF vars, HostSame
<1>2. Base /\ Place
  BY Parts
<1>3. /\ AllOld' = AllOld /\ AllNew' = AllNew /\ PeersOld' = PeersOld
      /\ FilesOld' = FilesOld /\ FilesNew' = FilesNew
      /\ \A s \in Services : AsBefore(s)' = AsBefore(s) /\ Up(s)' = Up(s)
      /\ Selected' = Selected /\ Wanted' = Wanted /\ Replaced' = Replaced
      /\ Initial' = Initial /\ Saved' = Saved /\ Hosted' = Hosted /\ Self' = Self
      /\ StopIsSafe' = StopIsSafe /\ Unhelped' = Unhelped
  BY <1>1, HostKeeps DEF Unhelped
<1>4. TypeOK' /\ Admitted'
  BY <1>1, <1>2, <1>3, Types DEF Base, Admitted, HostSame
<1>5. Journalled'
  <2>1. Journalled
    BY <1>2 DEF Base
  <2>. QED
    BY <1>1, <1>3, <2>1 DEF PeersKept, Journalled, HostSame
<1>6. Helping' /\ Finishing' /\ StageTells' /\ Results'
  BY <1>1, <1>2, <1>3
    DEF Base, Helping, Finishing, StageTells, Results, Settled, Truthful, HostSame
<1>7. plan.next \subseteq Services /\ plan.yard \subseteq Services
  BY <1>2, PlanIs DEF Base, Admitted
<1>8. PreparePhase' /\ StopPhase' /\ ApplyPhase'
  BY <1>1, <1>2, <1>3, <1>7
    DEF Place, PreparePhase, StopPhase, ApplyPhase, Retained, FilesFirst, HostSame
<1>9. RollbackPhase' /\ VerdictPhase'
  BY <1>1, <1>2, <1>3, <1>7 DEF Place, RollbackPhase, VerdictPhase, Truthful, HostSame
<1>. QED
  BY <1>4, <1>5, <1>8, <1>9, <1>6 DEF DeploymentInv

(* Every action keeps it.                                                  *)
LEMMA StepKeeps == ASSUME DeploymentInv, [Next]_vars PROVE DeploymentInv'
<1>1. CASE UNCHANGED vars
  BY <1>1, StutterKeeps
<1>2. CASE Forward
  <2>1. Works
    BY <1>2 DEF Works, Forward, Begin, Check, Pull, Identify, Candidate, BeginReplacing,
        BeginVerifying, Verify, BeginCommit, Commit, Record, CheckHosted, PullHosted,
        IdentifyHosted, BeginHosted, JournalBackup, StopSelected, Backup, VerifyHosted,
        JournalTag, TagImage
  <2>. QED
    BY <1>2, <2>1, BeginKeeps, CheckKeeps, PullKeeps, IdentifyKeeps, CandidateKeeps,
       BeginReplacingKeeps, BeginVerifyingKeeps, VerifyKeeps, BeginCommitKeeps, CommitKeeps,
       RecordKeeps, CheckHostedKeeps, BeginHostedKeeps, JournalBackupKeeps, StopSelectedKeeps,
       BackupKeeps, VerifyHostedKeeps, JournalTagKeeps, TagImageKeeps
       DEF Forward
<1>3. CASE Backward
  <2>1. Works
    BY <1>3 DEF Works, Backward, BeginRollback, StopProject, RestoreDatabase, RemoveCandidates,
        RecreatePrevious, VerifyPrevious, PreviousRestored
  <2>. QED
    BY <1>3, <2>1, BeginRollbackKeeps, StopProjectKeeps, RestoreDatabaseKeeps,
       RemoveCandidatesKeeps, RecreatePreviousKeeps, VerifyPreviousKeeps
       DEF Backward
<1>4. CASE Helper
  BY <1>4, ApplyServiceKeeps, CompareFilesKeeps, WriteFileKeeps, StartCreatedKeeps,
     HelperSucceedsKeeps, HelperFailsKeeps
     DEF Helper
<1>5. CASE Cleanup \/ Web
  BY <1>5, CleanupKeeps, ObserveKeeps, CommitWrittenKeeps DEF Web
<1>. QED
  BY <1>1, <1>2, <1>3, <1>4, <1>5, EnqueueKeeps, WorkerGivesUpKeeps, WorkerDiesKeeps,
     WebDiesKeeps, AcknowledgeRecoveryKeeps, HostActsKeeps
     DEF Next

(* At every step of a deployment the row, its journal, the helper and the  *)
(* host agree as DeploymentInv says: whatever is interrupted, the journal  *)
(* announced it, and a result is only recorded when it is so.              *)
THEOREM Invariance == Spec => []DeploymentInv
<1>1. Init => DeploymentInv
  BY InitKeeps
<1>2. DeploymentInv /\ [Next]_vars => DeploymentInv'
  BY StepKeeps
<1>. QED
  BY <1>1, <1>2, PTL DEF Spec

-----------------------------------------------------------------------------
(* What follows from it.                                                    *)

(* The row, the worker, the containers, the files, the journal and the     *)
(* helpers of a deployment hold what the code writes there.                *)
THEOREM TypeCorrect == Spec => []TypeOK
<1>1. DeploymentInv => TypeOK
  BY DEF DeploymentInv
<1>. QED
  BY <1>1, Invariance, PTL

(* Whenever the worker is killed, the row it leaves tells what may be      *)
(* different: no container, file, rollback reference or database copy      *)
(* changed without its announcement.                                       *)
THEOREM JournalTellsAll == Spec => []JournalIsAhead
<1>1. DeploymentInv => JournalIsAhead
  <2>. SUFFICES ASSUME DeploymentInv PROVE JournalIsAhead
    OBVIOUS
  <2>1. Journalled
    BY DEF DeploymentInv
  <2>2. ASSUME NEW s \in Services \ disturbed, runtime[s] # Inspected[s]
        PROVE  row.mutation
    BY <2>1, <2>2 DEF Journalled, AllOld, PeersOld, AsBefore
  <2>3. ASSUME NEW f \in Files \ disturbed, files[f] # "old"
        PROVE  row.fileCommit
    BY <2>1, <2>3 DEF Journalled, FilesOld
  <2>. QED
    BY <2>1, <2>2, <2>3 DEF Journalled, JournalIsAhead
<1>. QED
  BY <1>1, Invariance, PTL

(* The database of Yard is copied, and put back, only while none of its    *)
(* containers can write to it.                                             *)
THEOREM CopiedWhileStopped == Spec => SnapshotWindow
<1>. DEFINE Window == snapshot' \in {"taken", "restored"} /\ snapshot' # snapshot =>
                          \A s \in plan.yard \ disturbed : ~Up(s)
<1>1. DeploymentInv /\ [Next]_vars => [Window]_vars
  <2>. SUFFICES ASSUME DeploymentInv, [Next]_vars,
                       snapshot' \in {"taken", "restored"}, snapshot' # snapshot
                PROVE  \A s \in plan.yard \ disturbed : ~Up(s)
    OBVIOUS
  <2>1. Backup \/ RestoreDatabase
    <3>1. CASE Forward
      BY <3>1 DEF Forward, Begin, Check, Pull, Identify, Candidate, BeginReplacing,
        BeginVerifying, Verify, BeginCommit, Commit, Record, CheckHosted, PullHosted,
        IdentifyHosted, BeginHosted, JournalBackup, StopSelected, VerifyHosted,
        JournalTag, TagImage
    <3>2. CASE Backward
      BY <3>2 DEF Backward, BeginRollback, StopProject, RemoveCandidates,
        RecreatePrevious, VerifyPrevious, PreviousRestored
    <3>3. CASE Helper \/ Cleanup \/ Web
      BY <3>3 DEF Helper, ApplyService, CompareFiles, WriteFile, StartCreated, HelperSucceeds,
        HelperFails, Cleanup, CleanupTag, CleanupSnapshot, Web, Observe, CommitWritten
    <3>. QED
      BY <3>1, <3>2, <3>3 DEF Next, Enqueue, WorkerGivesUp, WorkerDies, WebDies,
        AcknowledgeRecovery, HostActs, vars
  <2>2. worker.at \in {"backup", "restore_database"}
    BY <2>1 DEF Backup, RestoreDatabase
  <2>. QED
    BY <2>2 DEF DeploymentInv, StopPhase
<1>. QED
  BY <1>1, Invariance, PTL DEF Spec, SnapshotWindow

(* Once the worker is gone no command is replayed: at most the files of a  *)
(* complete replacement are committed, and only when none was written.     *)
THEOREM NeverReplays == Spec => NothingReplayed
<1>. DEFINE Replays ==
       worker.at = "gone" /\ helper.kind = "none" /\ helper'.kind # "none" =>
           /\ helper'.kind = "commit"
           /\ \A f \in Files \ disturbed : files[f] = "old"
           /\ \A s \in plan.next \ disturbed : HasTarget(s)
<1>1. DeploymentInv /\ [Next]_vars => [Replays]_vars
  <2>. SUFFICES ASSUME DeploymentInv, [Next]_vars, worker.at = "gone", helper.kind = "none",
                       helper'.kind # "none"
                PROVE  /\ helper'.kind = "commit"
                       /\ \A f \in Files \ disturbed : files[f] = "old"
                       /\ \A s \in plan.next \ disturbed : HasTarget(s)
    OBVIOUS
  <2>1. FinishFiles
    <3>1. ~Forward
      BY DEF Forward, Begin, Check, Pull, Identify, Candidate, BeginReplacing,
        BeginVerifying, Verify, BeginCommit, Commit, Record, CheckHosted, PullHosted,
        IdentifyHosted, BeginHosted, JournalBackup, StopSelected, Backup, VerifyHosted,
        JournalTag, TagImage
    <3>2. ~Backward
      BY DEF Backward, BeginRollback, StopProject, RestoreDatabase, RemoveCandidates,
        RecreatePrevious, VerifyPrevious, PreviousRestored
    <3>3. ~Helper
      <4>1. ~helper.checked
        BY DEF DeploymentInv, Helping
      <4>. QED
        BY <4>1 DEF Helper, ApplyService, CompareFiles, WriteFile, StartCreated, HelperSucceeds,
          HelperFails
    <3>4. Observe
      BY <3>1, <3>2, <3>3 DEF Next, Enqueue, WorkerGivesUp, WorkerDies, WebDies, Cleanup,
        CleanupTag, CleanupSnapshot, Web, CommitWritten, AcknowledgeRecovery, HostActs, vars
    <3>. QED
      BY <3>4 DEF Observe, Reconcile, ReconcileHosted
  <2>2. ~row.fileCommit /\ Complete /\ helper'.kind = "commit"
    BY <2>1 DEF FinishFiles, Script, Idle
  <2>3. FilesOld
    BY <2>2 DEF DeploymentInv, Journalled
  <2>. QED
    BY <2>2, <2>3 DEF Complete, FilesOld
<1>. QED
  BY <1>1, Invariance, PTL DEF Spec, NothingReplayed

(* No step changes both the row and the host.                              *)
LEMMA RowOrHost == ASSUME [Next]_vars PROVE row' = row \/ HostSame
<1>1. CASE Forward
  BY <1>1 DEF Forward, Begin, Check, Pull, Identify, Candidate, BeginReplacing,
    BeginVerifying, Verify, BeginCommit, Commit, Record, CheckHosted, PullHosted,
    IdentifyHosted, BeginHosted, JournalBackup, StopSelected, Backup, VerifyHosted,
    JournalTag, TagImage, HostSame, host
<1>2. CASE Backward
  BY <1>2 DEF Backward, BeginRollback, StopProject, RestoreDatabase, RemoveCandidates,
    RecreatePrevious, VerifyPrevious, PreviousRestored, HostSame, host
<1>3. CASE Helper
  BY <1>3 DEF Helper, ApplyService, CompareFiles, WriteFile, StartCreated, HelperSucceeds,
    HelperFails
<1>4. CASE Cleanup \/ Web
  BY <1>4 DEF Cleanup, CleanupTag, CleanupSnapshot, Web, Observe, CommitWritten, HostSame, host
<1>. QED
  BY <1>1, <1>2, <1>3, <1>4 DEF Next, Enqueue, WorkerGivesUp, WorkerDies, WebDies,
    AcknowledgeRecovery, HostActs, HostSame, host, vars

(* A step never forgets that the rollback began unmarked.                  *)
LEMMA Recalled ==
    ASSUME worker \in WorkerType, [Next]_vars
    PROVE  worker.silent => worker'.silent
<1>1. ASSUME NEW step, Goto(step) PROVE worker'.silent = worker.silent
  BY <1>1 DEF Goto, WorkerType
<1>2. ASSUME NEW verdict, Settle(verdict) PROVE worker'.silent = worker.silent
  BY <1>2 DEF Settle, WorkerType
<1>3. ASSUME NEW step, NEW left, worker' = [worker EXCEPT !.at = step, !.left = left]
      PROVE  worker'.silent = worker.silent
  BY <1>3 DEF WorkerType
<1>4. ASSUME NEW left, worker' = [worker EXCEPT !.left = left]
      PROVE  worker'.silent = worker.silent
  BY <1>4 DEF WorkerType
<1>5. ASSUME NEW stage, NEW journalled, NEW next, Save(stage, journalled, next)
      PROVE  worker'.silent = worker.silent
  BY <1>1, <1>5 DEF Save
<1>6. ASSUME Fail PROVE worker'.silent = worker.silent
  BY <1>1, <1>2, <1>6 DEF Fail, FailKnown
<1>7. ASSUME NotRestored PROVE worker'.silent = worker.silent
  BY <1>2, <1>7 DEF NotRestored
<1>8. CASE Begin \/ Check \/ Pull \/ Identify \/ Candidate \/ BeginReplacing \/ BeginVerifying
  BY <1>1, <1>2, <1>3, <1>5, <1>6, <1>8
    DEF Begin, Check, Pull, Identify, Candidate, BeginReplacing, BeginVerifying
<1>9. CASE Verify \/ BeginCommit \/ Commit \/ Record \/ JournalTag \/ TagImage
  BY <1>1, <1>3, <1>5, <1>6, <1>9 DEF Verify, BeginCommit, Commit, Record, JournalTag, TagImage
<1>10. CASE CheckHosted \/ PullHosted \/ IdentifyHosted \/ BeginHosted
  BY <1>1, <1>2, <1>3, <1>5, <1>6, <1>10 DEF CheckHosted, PullHosted, IdentifyHosted, BeginHosted
<1>11. CASE JournalBackup \/ StopSelected \/ Backup \/ VerifyHosted
  BY <1>1, <1>2, <1>5, <1>6, <1>11 DEF JournalBackup, StopSelected, Backup, VerifyHosted
<1>12. CASE BeginRollback
  <2>1. ASSUME worker' = [worker EXCEPT !.at = AfterRolling, !.silent = TRUE]
        PROVE  worker'.silent
    BY <2>1 DEF WorkerType
  <2>. QED
    BY <1>1, <1>12, <2>1 DEF BeginRollback
<1>13. CASE StopProject \/ RestoreDatabase \/ RemoveCandidates \/ RecreatePrevious
            \/ VerifyPrevious \/ PreviousRestored
  BY <1>1, <1>2, <1>3, <1>4, <1>7, <1>13
    DEF StopProject, RestoreDatabase, RemoveCandidates, RecreatePrevious, VerifyPrevious,
        PreviousRestored
<1>14. CASE Helper
  BY <1>1, <1>2, <1>7, <1>14
    DEF Helper, ApplyService, CompareFiles, WriteFile, StartCreated, HelperSucceeds,
        HelperFails, FailKnown
<1>15. CASE Cleanup \/ Web \/ \E x \in Services \cup Files : HostActs(x)
  BY <1>15 DEF Cleanup, CleanupTag, CleanupSnapshot, Web, Observe, CommitWritten, HostActs
<1>16. CASE Enqueue \/ WorkerGivesUp \/ WorkerDies
  BY <1>1, <1>2, <1>16 DEF Enqueue, WorkerGivesUp, WorkerDies
<1>17. CASE WebDies \/ AcknowledgeRecovery \/ UNCHANGED vars
  BY <1>17 DEF WebDies, AcknowledgeRecovery, vars
<1>. QED
  BY <1>8, <1>9, <1>10, <1>11, <1>12, <1>13, <1>14, <1>15, <1>16, <1>17
    DEF Next, Forward, Backward

(* "Reconcile verifies a completed command without replaying it": a job    *)
(* that it records as reconciled has none of the containers left that were *)
(* to be replaced, unless its worker began to roll back and could not write *)
(* so on the row: that write is the only way to the contrary               *)
(* (reconcileDeployment; finishFailure ignores the error of JobProgress).  *)
THEOREM ReconciledIsComplete ==
    Spec => [][row'.outcome = "reconciled" /\ row.outcome # "reconciled" =>
                   worker'.silent \/ \A s \in plan.next : runtime[s].old = "none"]_vars
<1>. DEFINE Applies == row'.outcome = "reconciled" /\ row.outcome # "reconciled" =>
                           worker'.silent \/ \A s \in plan.next : runtime[s].old = "none"
<1>1. DeploymentInv /\ [Next]_vars => [Applies]_vars
  <2>. SUFFICES ASSUME DeploymentInv, [Next]_vars, ~worker'.silent,
                       row'.outcome = "reconciled", row.outcome # "reconciled"
                PROVE  AllNew
    BY DEF AllNew, AsAfter
  <2>1. DeploymentInv'
    BY StepKeeps
  <2>2. Settled' /\ (Truthful(row.outcome))'
    BY <2>1 DEF DeploymentInv, Admitted, Results, Recovery, TypeOK, Settled
  <2>3. AllNew'
    BY <2>2 DEF Truthful
  <2>. QED
    BY <2>3, RowOrHost, HostKeeps
<1>. QED
  BY <1>1, Invariance, PTL DEF Spec

-----------------------------------------------------------------------------
(* The promise of every replacement.                                       *)

Target == IF IsReplaced /\ (IsOriginal => ResultOf = "replaced") THEN "replaced"
          ELSE IF IsOriginal THEN "original" ELSE "between"
Kept == row.mutation => Selected \subseteq tags
Mapped == [Promise!Next]_(Promise!vars)
Unsettled == row.status \in {"none", "running"}

\* A result is true of the target, unless the observer was misled.
Mapping ==
    /\ Unsettled => ResultOf = "none"
    /\ ~Unsettled =>
           /\ ResultOf \in {"replaced", "kept_original", "review", "reviewed"}
           /\ ResultOf = "reviewed" <=> row.outcome = "recovery_acknowledged"
           /\ row.outcome = "recovery_required" => ResultOf = "review"
    /\ ResultOf = "review" =>
           row.outcome = "recovery_required" \/ (row.outcome = "failed" /\ Initial)
    /\ Target \in {"original", "between", "replaced"}
    /\ ResultOf \in {"replaced", "kept_original"} => Unhelped
    /\ ResultOf = "replaced" => Misled \/ Target = "replaced"
    /\ ResultOf = "kept_original" => Target = "original"

(* What each result on the row stands for.                                 *)
LEMMA StateMaps == DeploymentInv => Mapping
<1>. SUFFICES ASSUME DeploymentInv PROVE Mapping
  OBVIOUS
<1>1. /\ row \in RowType /\ plan \in Plans /\ Results /\ Journalled /\ Admitted
      /\ saved \in {"old", "new"}
  BY Types DEF DeploymentInv, Admitted
<1>2. /\ Unsettled => ~Settled /\ row.outcome = ""
      /\ ~Unsettled => Settled
  BY <1>1 DEF RowType, Unsettled, Settled, Admitted
<1>3. Settled => row.outcome \in {"verified", "reconciled"} \cup Restored \cup Recovery
  BY <1>1 DEF Results
<1>4. CASE Unsettled
  <2>1. ResultOf = "none"
    BY <1>2, <1>4 DEF ResultOf, Unsettled
  <2>. QED
    BY <1>4, <2>1 DEF Mapping, Target
<1>5. CASE Settled /\ row.outcome = "failed" /\ Initial /\ row.mutation
  <2>1. ResultOf = "review"
    BY <1>2, <1>5 DEF ResultOf, Unsettled
  <2>. QED
    BY <1>2, <1>5, <2>1 DEF Mapping, Target
<1>6. CASE Settled /\ row.outcome \in {"verified", "reconciled"}
  <2>1. ResultOf = "replaced"
    BY <1>2, <1>6 DEF ResultOf, Unsettled
  <2>2. row.outcome \notin Recovery
    BY <1>6 DEF Recovery
  <2>3. Unhelped /\ (~Misled => AllNew /\ FilesNew) /\ (Saved => saved = "new")
    BY <1>1, <1>6, <2>2 DEF Results, Truthful, Misled
  <2>4. PeersKept
    BY <1>1 DEF Journalled
  <2>. QED
    BY <1>2, <1>6, <2>1, <2>3, <2>4 DEF Mapping, Target, IsReplaced
<1>7. CASE Settled /\ row.outcome \in Restored /\ ~(row.outcome = "failed" /\ Initial /\ row.mutation)
  <2>1. ResultOf = "kept_original"
    BY <1>2, <1>7 DEF ResultOf, Unsettled, Restored
  <2>2. row.outcome \notin Recovery \cup {"verified", "reconciled"}
    BY <1>7 DEF Recovery, Restored
  <2>3. Unhelped /\ AllOld /\ FilesOld /\ (Initial \/ saved = "old")
    BY <1>1, <1>7, <2>2 DEF Results, Truthful, Admitted
  <2>4. PeersKept
    BY <1>1 DEF Journalled
  <2>. QED
    BY <1>2, <1>7, <2>1, <2>2, <2>3, <2>4 DEF Mapping, Target, IsOriginal, Recovery
<1>8. CASE Settled /\ row.outcome \in Recovery
  <2>1. ResultOf = IF row.outcome = "recovery_required" THEN "review" ELSE "reviewed"
    BY <1>2, <1>8 DEF ResultOf, Unsettled, Recovery
  <2>. QED
    BY <1>2, <1>8, <2>1 DEF Mapping, Target, Recovery
<1>. QED
  BY <1>2, <1>3, <1>4, <1>5, <1>6, <1>7, <1>8

(* The same of the next state.                                             *)
LEMMA NextStateMaps == DeploymentInv' => Mapping'
<1>1. DeploymentInv => Mapping
  BY StateMaps
<1>. QED
  BY <1>1, PTL

(* The result does not change.                                             *)
LEMMA ResultSame ==
    ASSUME DeploymentInv, DeploymentInv', ~Misled', worker.silent => worker'.silent,
           row'.status = row.status, row'.outcome = row.outcome, plan' = plan,
           Unsettled \/ row'.mutation = row.mutation, Kept' = Kept
    PROVE  Mapped
<1>1. Mapping /\ Mapping'
  BY StateMaps, NextStateMaps
<1>2. ResultOf' = ResultOf
  <2>1. CASE Unsettled
    BY <1>1, <2>1 DEF Mapping, Unsettled
  <2>2. CASE row'.mutation = row.mutation
    BY <2>2 DEF ResultOf, Initial
  <2>. QED
    BY <2>1, <2>2
<1>. ~Misled
  BY DEF Misled
<1>3. /\ ResultOf = "replaced" => Target = "replaced" /\ Target' = "replaced"
      /\ ResultOf = "kept_original" => Target = "original" /\ Target' = "original"
      /\ Target' \in {"original", "between", "replaced"}
      /\ ResultOf \in {"none", "replaced", "kept_original", "review", "reviewed"}
  BY <1>1, <1>2 DEF Mapping
<1>4. CASE ResultOf \in {"none", "review", "reviewed"}
  BY <1>2, <1>3, <1>4
    DEF Mapped, Promise!Next, Promise!Change, Promise!Targets, Promise!vars, Target, Kept
<1>5. CASE Target' = Target
  BY <1>2, <1>5 DEF Mapped, Promise!vars, Target, Kept
<1>. QED
  BY <1>3, <1>4, <1>5

(* A result is recorded.                                                   *)
LEMMA ResultRecorded ==
    ASSUME DeploymentInv, DeploymentInv', ~Misled',
           Unsettled, ~Unsettled', HostSame, row'.outcome # "recovery_acknowledged",
           ResultOf' = "review" => saved' = saved,
           Kept' = Kept
    PROVE  Mapped
<1>1. Mapping /\ Mapping'
  BY StateMaps, NextStateMaps
<1>2. /\ ResultOf = "none"
      /\ ResultOf' = "replaced" => Target' = "replaced"
      /\ ResultOf' = "kept_original" => Target' = "original"
      /\ ResultOf' \in {"replaced", "kept_original", "review"}
  BY <1>1 DEF Mapping
<1>3. CASE ResultOf' \in {"replaced", "kept_original"}
  BY <1>2, <1>3
    DEF Mapped, Promise!Next, Promise!Record, Promise!vars, Target, Kept
<1>4. CASE ResultOf' = "review"
  <2>1. IsReplaced' = IsReplaced /\ IsOriginal' = IsOriginal
    BY <1>4, HostKeeps DEF IsReplaced, IsOriginal
  <2>2. Target' = Target
    BY <1>2, <1>4, <2>1 DEF Target
  <2>. QED
    BY <1>2, <1>4, <2>2 DEF Mapped, Promise!Next, Promise!AskReview, Promise!vars, Target, Kept
<1>. QED
  BY <1>2, <1>3, <1>4

(* The host has looked, or what was kept is removed.                       *)
LEMMA ResultReleased ==
    ASSUME DeploymentInv, DeploymentInv', ~Unsettled, HostSame, saved' = saved,
           \/ row' = row /\ row.outcome # "recovery_required" /\ tags' \subseteq tags
           \/ /\ row.outcome = "recovery_required" /\ row'.outcome = "recovery_acknowledged"
              /\ row'.status = row.status /\ Kept' = Kept
    PROVE  Mapped
<1>1. Mapping /\ Mapping' /\ plan \in Plans
  BY StateMaps, NextStateMaps DEF DeploymentInv, Admitted
<1>2. IsReplaced' = IsReplaced /\ IsOriginal' = IsOriginal
  BY HostKeeps DEF IsReplaced, IsOriginal
<1>3. CASE row' = row /\ row.outcome # "recovery_required" /\ tags' \subseteq tags
  <2>1. ResultOf' = ResultOf
    BY <1>3, HostKeeps DEF ResultOf
  <2>2. Target' = Target
    BY <1>2, <2>1 DEF Target
  <2>3. CASE Kept' = Kept
    BY <2>1, <2>2, <2>3 DEF Mapped, Promise!vars, Target, Kept
  <2>4. CASE Kept' # Kept
    <3>1. Kept /\ ~Kept' /\ ~Initial
      BY <1>1, <1>3, <2>4, PlanIs, HostKeeps DEF Kept
    <3>2. ResultOf \in {"replaced", "kept_original", "reviewed"}
      BY <1>1, <1>3, <3>1 DEF Mapping
    <3>. QED
      BY <2>1, <2>2, <3>1, <3>2
        DEF Mapped, Promise!Next, Promise!Release, Promise!vars, Target, Kept
  <2>. QED
    BY <2>3, <2>4
<1>4. CASE /\ row.outcome = "recovery_required" /\ row'.outcome = "recovery_acknowledged"
           /\ row'.status = row.status /\ Kept' = Kept
  <2>1. ResultOf = "review" /\ ResultOf' = "reviewed"
    BY <1>1, <1>4 DEF Mapping, Unsettled
  <2>2. Target' = Target
    BY <1>2, <2>1 DEF Target
  <2>. QED
    BY <1>4, <2>1, <2>2 DEF Mapped, Promise!Next, Promise!Acknowledge, Promise!vars, Target, Kept
<1>. QED
  BY <1>3, <1>4

(* A step that leaves status, outcome and announced mutation alone, and    *)
(* the rollback references, is none to the reader of the result.           *)
LEMMA QuietMaps ==
    ASSUME DeploymentInv, DeploymentInv', ~Misled', worker.silent => worker'.silent, plan' = plan,
           row'.status = row.status, row'.outcome = row.outcome,
           row'.mutation = row.mutation, tags' = tags
    PROVE  Mapped
<1>1. Kept' = Kept
  BY DEF Kept, Selected
<1>. QED
  BY <1>1, ResultSame

(* A step of the worker.                                                   *)
LEMMA WorkMaps ==
    ASSUME DeploymentInv, DeploymentInv', ~Misled', worker.silent => worker'.silent, Forward \/ Backward
    PROVE  Mapped
<1>1. Works
  BY DEF Works, Forward, Begin, Check, Pull, Identify, Candidate, BeginReplacing,
      BeginVerifying, Verify, BeginCommit, Commit, Record, CheckHosted, PullHosted,
      IdentifyHosted, BeginHosted, JournalBackup, StopSelected, Backup, VerifyHosted,
      JournalTag, TagImage, Backward, BeginRollback, StopProject, RestoreDatabase,
      RemoveCandidates, RecreatePrevious, VerifyPrevious, PreviousRestored
<1>2. row \in RowType /\ worker \in WorkerType /\ row.status = "running" /\ row.outcome = ""
      /\ Place /\ Unsettled
  BY <1>1, Running DEF Unsettled
<1>3. plan' = plan
  BY DEF Forward, Begin, Check, Pull, Identify, Candidate, BeginReplacing,
      BeginVerifying, Verify, BeginCommit, Commit, Record, CheckHosted, PullHosted,
      IdentifyHosted, BeginHosted, JournalBackup, StopSelected, Backup, VerifyHosted,
      JournalTag, TagImage, Backward, BeginRollback, StopProject, RestoreDatabase,
      RemoveCandidates, RecreatePrevious, VerifyPrevious, PreviousRestored
<1>4. ASSUME NEW stage, NEW journalled, NEW next, Save(stage, journalled, next),
             \/ journalled = row
             \/ journalled = [row EXCEPT !.fileCommit = TRUE]
             \/ journalled = [row EXCEPT !.backup = TRUE]
             \/ \E s : journalled = [row EXCEPT !.retained = @ \cup {s}]
      PROVE  /\ row'.status = row.status /\ row'.outcome = row.outcome
             /\ row'.mutation = row.mutation
  <2>1. /\ journalled.status = row.status /\ journalled.outcome = row.outcome
        /\ journalled.mutation = row.mutation
        /\ [journalled EXCEPT !.stage = stage].status = journalled.status
        /\ [journalled EXCEPT !.stage = stage].outcome = journalled.outcome
        /\ [journalled EXCEPT !.stage = stage].mutation = journalled.mutation
    BY <1>2, <1>4 DEF RowType
  <2>. QED
    BY <1>4, <2>1 DEF Save
<1>5. ASSUME NEW stage, row' = [row EXCEPT !.stage = stage]
      PROVE  /\ row'.status = row.status /\ row'.outcome = row.outcome
             /\ row'.mutation = row.mutation
  BY <1>2, <1>5 DEF RowType
<1>6. CASE Begin \/ Check \/ Pull \/ PullHosted \/ Identify \/ IdentifyHosted
  BY <1>2, <1>3, <1>4, <1>5, <1>6, QuietMaps
    DEF Begin, Check, Pull, PullHosted, Identify, IdentifyHosted
<1>7. CASE Candidate \/ JournalTag \/ BeginVerifying \/ Verify \/ BeginCommit \/ JournalBackup
  BY <1>2, <1>3, <1>4, <1>5, <1>7, QuietMaps
    DEF Candidate, JournalTag, BeginVerifying, Verify, BeginCommit, JournalBackup
<1>8. CASE BeginRollback \/ RestoreDatabase
  BY <1>2, <1>3, <1>5, <1>8, QuietMaps DEF BeginRollback, RestoreDatabase
<1>9. CASE CheckHosted \/ StopSelected \/ Backup \/ VerifyHosted \/ StopProject
           \/ RemoveCandidates \/ RecreatePrevious \/ VerifyPrevious \/ PreviousRestored
  BY <1>3, <1>9, QuietMaps
    DEF CheckHosted, StopSelected, Backup, VerifyHosted, StopProject, RemoveCandidates,
        RecreatePrevious, VerifyPrevious, PreviousRestored
<1>10. CASE TagImage
  <2>1. row' = row /\ ~row.mutation
    BY <1>1, <1>10, Preparations DEF TagImage, Preparing
  <2>2. Kept /\ Kept'
    BY <2>1 DEF Kept
  <2>. QED
    BY <1>2, <1>3, <2>1, <2>2, ResultSame
<1>11. CASE BeginReplacing \/ BeginHosted
  <2>1. ~row.mutation
    BY <1>1, <1>2, <1>11, Preparations
      DEF BeginReplacing, BeginHosted, Preparing, Place, StopPhase
  <2>2. Retained /\ plan.operation # "pull" /\ tags' = tags
    BY <1>1, <1>2, <1>11, Preparations
      DEF BeginReplacing, BeginHosted, Preparing, Place, StopPhase
  <2>3. Kept /\ Kept'
    BY <1>3, <2>1, <2>2 DEF Kept, Retained, Selected
  <2>4. row'.status = row.status /\ row'.outcome = row.outcome
    <3>. DEFINE journalled == [row EXCEPT !.mutation = TRUE]
    <3>1. /\ journalled.status = row.status /\ journalled.outcome = row.outcome
          /\ [journalled EXCEPT !.stage = "replacing"].status = journalled.status
          /\ [journalled EXCEPT !.stage = "replacing"].outcome = journalled.outcome
      BY <1>2 DEF RowType
    <3>2. row' \in {row, journalled, [journalled EXCEPT !.stage = "replacing"]}
      BY <1>11 DEF BeginReplacing, BeginHosted, Save
    <3>. HIDE DEF journalled
    <3>. QED
      BY <3>1, <3>2
  <2>. QED
    BY <1>2, <1>3, <2>3, <2>4, ResultSame
<1>12. CASE Commit
  <2>1. CASE UNCHANGED row
    BY <1>3, <1>12, <2>1, QuietMaps DEF Commit
  <2>2. CASE CommitAs("verified")
    <3>1. /\ row'.status = "succeeded" /\ row'.outcome = "verified"
          /\ row'.mutation = row.mutation /\ HostSame /\ tags' = tags
      BY <1>2, <1>12, <2>2 DEF Commit, CommitAs, RowType, HostSame, host
    <3>2. ~Unsettled' /\ ResultOf' # "review" /\ Kept' = Kept
      BY <1>3, <3>1, NextStateMaps DEF Unsettled, Mapping, Kept, Selected
    <3>. QED
      BY <1>2, <3>1, <3>2, ResultRecorded
  <2>. QED
    BY <1>12, <2>1, <2>2 DEF Commit
<1>13. CASE Record
  <2>1. /\ row'.status \in {"succeeded", "failed"} /\ row'.outcome = worker.verdict
        /\ row'.mutation = row.mutation /\ HostSame /\ tags' = tags /\ saved' = saved
    BY <1>2, <1>13 DEF Record, RowType, HostSame, host
  <2>2. worker.verdict # "recovery_acknowledged"
    BY <1>2, <1>13 DEF Record, Place, VerdictPhase, Restored
  <2>3. ~Unsettled' /\ Kept' = Kept
    BY <1>3, <2>1 DEF Unsettled, Kept, Selected
  <2>. QED
    BY <1>2, <2>1, <2>2, <2>3, ResultRecorded
<1>. QED
  BY <1>6, <1>7, <1>8, <1>9, <1>10, <1>11, <1>12, <1>13 DEF Forward, Backward

(* Every step maps to a step of Replacement or to a stutter.               *)
LEMMA PromiseStep ==
    ASSUME DeploymentInv, DeploymentInv', ~Misled', [Next]_vars
    PROVE  Mapped
<1>1. row \in RowType /\ worker \in WorkerType /\ Admitted
  BY Types DEF DeploymentInv
<1>. worker.silent => worker'.silent
  BY <1>1, Recalled
<1>2. CASE Enqueue
  <2>1. /\ HostSame /\ tags' = tags /\ Unsettled /\ row.outcome = ""
        /\ row'.mutation = row.mutation /\ ~row.mutation
        /\ \/ row'.status = "running" /\ row'.outcome = row.outcome
           \/ row'.status = "failed" /\ row'.outcome = "failed"
    BY <1>1, <1>2
      DEF Enqueue, RowType, HostSame, host, Unsettled, Admitted, DeploymentInv, PreparePhase,
          Preparing
  <2>2. Kept' = Kept
    BY <2>1 DEF Kept
  <2>3. CASE row'.status = "running" /\ row'.outcome = row.outcome
    <3>1. Unsettled' /\ plan' = plan
      BY <2>1, <2>3 DEF Unsettled, HostSame
    <3>2. Mapping /\ Mapping'
      BY StateMaps, NextStateMaps
    <3>3. ResultOf = "none" /\ ResultOf' = "none" /\ Target' \in {"original", "between", "replaced"}
      BY <2>1, <3>1, <3>2 DEF Mapping
    <3>. QED
      BY <2>2, <3>3
        DEF Mapped, Promise!Next, Promise!Change, Promise!Targets, Promise!vars, Target, Kept
  <2>4. CASE row'.status = "failed" /\ row'.outcome = "failed"
    <3>1. ~Unsettled' /\ ResultOf' = "kept_original"
      BY <2>1, <2>4 DEF Unsettled, ResultOf
    <3>. QED
      BY <2>1, <2>2, <2>4, <3>1, ResultRecorded
  <2>. QED
    BY <2>1, <2>3, <2>4
<1>3. CASE Helper \/ WorkerGivesUp \/ WorkerDies \/ WebDies
           \/ \E x \in Services \cup Files : HostActs(x)
  BY <1>3, QuietMaps
    DEF Helper, ApplyService, CompareFiles, WriteFile, StartCreated, HelperSucceeds,
        HelperFails, WorkerGivesUp, WorkerDies, WebDies, HostActs
<1>4. CASE Cleanup
  <2>1. /\ ~Unsettled /\ HostSame /\ saved' = saved /\ row' = row
        /\ row.outcome # "recovery_required" /\ tags' \subseteq tags
    BY <1>4 DEF Cleanup, CleanupTag, CleanupSnapshot, Settled, Unsettled, HostSame, host
  <2>. QED
    BY <2>1, ResultReleased
<1>5. CASE AcknowledgeRecovery
  <2>1. /\ ~Unsettled /\ HostSame /\ saved' = saved /\ tags' = tags
        /\ row.outcome = "recovery_required" /\ row'.outcome = "recovery_acknowledged"
        /\ row'.status = row.status /\ row'.mutation = row.mutation
    BY <1>1, <1>5 DEF AcknowledgeRecovery, RowType, Admitted, Unsettled, HostSame, host
  <2>2. Kept' = Kept
    BY <2>1, HostKeeps DEF Kept
  <2>. QED
    BY <2>1, <2>2, ResultReleased
<1>6. CASE Web
  <2>1. /\ Unsettled /\ HostSame /\ tags' = tags /\ row.outcome = ""
    BY <1>1, <1>6 DEF Web, Observe, CommitWritten, Unsettled, HostSame, host, Admitted
  <2>2. CASE Observe /\ FinishFiles
    <3>1. /\ row'.status = row.status /\ row'.outcome = row.outcome
          /\ row'.mutation = row.mutation
      BY <1>1, <2>2 DEF FinishFiles, RowType
    <3>. QED
      BY <2>1, <3>1, QuietMaps DEF HostSame
  <2>3. ASSUME NEW outcome \in {"reconciled", "recovery_required"},
               NEW status \in {"succeeded", "failed"},
               row' = [row EXCEPT !.status = status, !.outcome = outcome],
               outcome = "recovery_required" => saved' = saved
        PROVE  Mapped
    <3>1. /\ row'.status = status /\ row'.outcome = outcome /\ row'.mutation = row.mutation
      BY <1>1, <2>3 DEF RowType
    <3>2. ~Unsettled' /\ Kept' = Kept
      BY <2>1, <3>1, HostKeeps DEF Unsettled, Kept
    <3>3. ResultOf' = "review" => saved' = saved
      BY <2>3, <3>1, NextStateMaps DEF Mapping
    <3>. QED
      BY <2>1, <3>1, <3>2, <3>3, ResultRecorded
  <2>. QED
    BY <1>6, <2>2, <2>3
      DEF Web, Observe, Reconcile, ReconcileHosted, CommitWritten, CommitAs
<1>7. CASE UNCHANGED vars
  BY <1>7, QuietMaps DEF vars
<1>. QED
  BY <1>2, <1>3, <1>4, <1>5, <1>6, <1>7, WorkMaps DEF Next

(* A deployment keeps the promise of every replacement with every result   *)
(* but one: the success that the observer reads from the stage of a        *)
(* rollback that was not marked on the row.  Before and without it no step *)
(* breaks the promise, whatever fails (deploy, executeFileDeployment,      *)
(* reconcileDeployment).                                                   *)
THEOREM PromiseIsKept == Spec => PromiseKept
<1>1. ASSUME Init PROVE Promise!Init
  <2>1. DeploymentInv /\ row.status = "none" /\ ~row.mutation /\ saved = "old"
    BY <1>1, InitKeeps DEF Init
  <2>2. ResultOf = "none"
    BY <2>1, StateMaps DEF Mapping, Unsettled
  <2>3. IsOriginal
    BY <1>1, <2>1 DEF IsOriginal, DeploymentInv, Journalled, AllOld, PeersKept, PeersOld, FilesOld, AsBefore, Init
  <2>. QED
    BY <2>1, <2>2, <2>3 DEF Promise!Init
<1>2. DeploymentInv /\ DeploymentInv' /\ [Next]_vars =>
          [~Misled' => [Promise!Next]_(Promise!vars)]_vars
  BY PromiseStep DEF Mapped
<1>. QED
  BY <1>1, <1>2, Invariance, PTL DEF Spec, PromiseKept
=============================================================================
