------------------------ MODULE OperationJobsProofs ------------------------
(***************************************************************************)
(* Proofs about OperationJobs.  WorkInv is inductive; an action works on   *)
(* one job (or on none), so each action is reduced to what it does to that *)
(* job and to the observers that watch it (lemma JobStep, ObserverStep).   *)
(* ResultInv is inductive relative to it, because terminal results stand   *)
(* (NextFinal).  The same reduction, in lemmas ...Moves, gives the step of *)
(* Reservations that each action maps to.                                  *)
(***************************************************************************)
EXTENDS OperationJobs, TLAPS

----------------------------------------------------------------------------
(* The parts of WorkInv.                                                   *)

RowsTyped == row \in [Jobs -> Row] /\ lock \in [Resources -> Jobs \cup {NoJob}]
ObsTyped == obs \in [Observers -> [pc : ObsStates, job : Jobs \cup {NoJob}, snap : Snapshot]]
CellsTyped ==
    /\ sub \in [Jobs -> SubStates] /\ proc \in [Jobs -> ProcStates]
    /\ helper \in [Jobs -> BOOLEAN] /\ unlabelled \in [Jobs -> BOOLEAN]
    /\ target \in [Jobs -> {"untouched", "partial", "complete"}]
    /\ retained \in [Jobs -> BOOLEAN] /\ young \in [Jobs -> BOOLEAN]
    /\ review \in [Jobs -> {"no", "inspected", "cleaning"}]
    /\ web \in BOOLEAN

\* Everything WorkInv says about one job.
Sound(j) ==
    /\ \A r \in Resources : lock[r] = j <=> Active(j) /\ r \in row[j].res
    /\ Touching(j) => Active(j) \/ Stray(j)
    /\ Delivered(j)
    /\ JobInv(j)

\* Nothing the invariant speaks of changes for job i.
Same(i) ==
    /\ row'[i] = row[i] /\ sub'[i] = sub[i] /\ proc'[i] = proc[i]
    /\ helper'[i] = helper[i] /\ unlabelled'[i] = unlabelled[i]
    /\ target'[i] = target[i] /\ review'[i] = review[i]
    /\ \A r \in Resources : lock'[r] = i <=> lock[r] = i

\* What an observer relies on stays true of job j.
WatchSame(j) ==
    row[j].status # "none" =>
        /\ row'[j].status # "none" /\ row'[j].route = row[j].route
        /\ row[j].worker # "" => row'[j].worker # ""
        /\ Terminal(j) => Terminal(j)'
        /\ LaunchOver(j) => LaunchOver(j)'
        /\ LaunchOver(j) /\ proc[j] # "created" => proc'[j] # "created"
        /\ Gone(j) => Gone(j)' /\ target'[j] = target[j]

(* TypeOK is the conjunction of its three groups.                          *)
LEMMA Typed ==
    /\ TypeOK <=> RowsTyped /\ ObsTyped /\ CellsTyped
    /\ TypeOK' <=> RowsTyped' /\ ObsTyped' /\ CellsTyped'
  BY DEF TypeOK, RowsTyped, ObsTyped, CellsTyped

(* WorkInv, job by job and observer by observer.                           *)
LEMMA Parts ==
    /\ WorkInv <=> /\ RowsTyped /\ ObsTyped /\ CellsTyped
                   /\ \A j \in Jobs : Sound(j)
                   /\ \A o \in Observers : ObserverInv(o)
    /\ WorkInv' <=> /\ RowsTyped' /\ ObsTyped' /\ CellsTyped'
                    /\ \A j \in Jobs : Sound(j)'
                    /\ \A o \in Observers : ObserverInv(o)'
<1>1. WorkInv <=> /\ RowsTyped /\ ObsTyped /\ CellsTyped
                  /\ \A j \in Jobs : Sound(j)
                  /\ \A o \in Observers : ObserverInv(o)
  BY Typed DEF WorkInv, Sound, ReservationsExact, WorkIsReserved, SucceededIsComplete
<1>2. WorkInv' <=> /\ RowsTyped' /\ ObsTyped' /\ CellsTyped'
                   /\ \A j \in Jobs : Sound(j)'
                   /\ \A o \in Observers : ObserverInv(o)'
  BY Typed DEF WorkInv, Sound, ReservationsExact, WorkIsReserved, SucceededIsComplete
<1>. QED
  BY <1>1, <1>2

(* What does not change stays sound.                                       *)
LEMMA SameSound ==
    ASSUME NEW i \in Jobs, Sound(i), Same(i), web' = web
    PROVE  Sound(i)'
  BY ZenonT(40) DEF Sound, Delivered, Same, JobInv, Active, Running, Uncertain, Touching, Stray, LaunchOver,
         Terminal, Engine

(* What an observer watches and does not change keeps its invariant.       *)
LEMMA SameWatched ==
    ASSUME NEW o \in Observers, obs'[o] = obs[o], ObserverInv(o), obs[o].job \in Jobs,
           Same(obs[o].job)
    PROVE  ObserverInv(o)'
  BY DEF ObserverInv, Same, Gone, LaunchOver, Terminal, Engine

(* An observer's invariant survives what WatchSame allows.                 *)
LEMMA Watched ==
    ASSUME NEW o \in Observers, NEW j \in Jobs, obs'[o] = obs[o], ObserverInv(o),
           obs[o].job = j, WatchSame(j)
    PROVE  ObserverInv(o)'
  BY DEF ObserverInv, WatchSame, Engine

(* A step of one job's request, worker or review.                          *)
LEMMA JobStep ==
    ASSUME WorkInv, NEW j \in Jobs,
           RowsTyped', CellsTyped', obs' = obs, web' = web,
           \A i \in Jobs \ {j} : Same(i),
           Sound(j)',
           WatchSame(j)
    PROVE  WorkInv'
<1>1. /\ RowsTyped /\ ObsTyped /\ CellsTyped
      /\ \A i \in Jobs : Sound(i)
      /\ \A o \in Observers : ObserverInv(o)
  BY Parts
<1>2. \A i \in Jobs : Sound(i)'
  BY <1>1, SameSound
<1>3. ASSUME NEW o \in Observers PROVE ObserverInv(o)'
  <2>1. CASE obs[o].pc = "idle"
    BY <2>1 DEF ObserverInv
  <2>2. CASE obs[o].pc # "idle" /\ obs[o].job = j
    BY <1>1, <2>2, Watched
  <2>3. CASE obs[o].pc # "idle" /\ obs[o].job # j
    <3>1. ObserverInv(o) /\ obs[o].job \in Jobs
      BY <1>1, <2>3 DEF ObserverInv
    <3>2. Same(obs[o].job) /\ obs'[o] = obs[o]
      BY <2>3, <3>1
    <3>. QED
      BY <3>1, <3>2, SameWatched
  <2>. QED
    BY <2>1, <2>2, <2>3
<1>4. ObsTyped'
  BY <1>1 DEF ObsTyped
<1>. QED
  BY <1>2, <1>3, <1>4, Parts

(* A step of one observer that does not change the jobs.                   *)
LEMMA ObserverStep ==
    ASSUME WorkInv, NEW o \in Observers,
           UNCHANGED <<row, lock, sub, proc, helper, unlabelled, target, retained, young, review, web>>,
           ObsTyped', \A p \in Observers \ {o} : obs'[p] = obs[p],
           ObserverInv(o)'
    PROVE  WorkInv'
<1>1. /\ RowsTyped /\ ObsTyped /\ CellsTyped
      /\ \A i \in Jobs : Sound(i)
      /\ \A p \in Observers : ObserverInv(p)
  BY Parts
<1>2. \A i \in Jobs : Same(i)
  BY DEF Same
<1>3. \A i \in Jobs : Sound(i)'
  BY <1>1, <1>2, SameSound
<1>4. ASSUME NEW p \in Observers PROVE ObserverInv(p)'
  <2>1. CASE p = o
    BY <2>1
  <2>2. CASE p # o /\ obs[p].pc = "idle"
    BY <2>2 DEF ObserverInv
  <2>3. CASE p # o /\ obs[p].pc # "idle"
    BY <1>1, <1>2, <2>3, SameWatched DEF ObserverInv
  <2>. QED
    BY <2>1, <2>2, <2>3
<1>5. RowsTyped' /\ CellsTyped'
  BY <1>1 DEF RowsTyped, CellsTyped
<1>. QED
  BY <1>3, <1>4, <1>5, Parts

----------------------------------------------------------------------------
(* The transactions of the store.                                          *)

\* The row of j alone changes, and only in the fields a transaction may set.
RowStep(j) ==
    /\ RowsTyped'
    /\ \A i \in Jobs \ {j} : row'[i] = row[i]
    /\ \A i \in Jobs \ {j}, r \in Resources : lock'[r] = i <=> lock[r] = i
    /\ row'[j].route = row[j].route

(* FinishJob writes the result of a running job, releases its reservations *)
(* unless the result is uncertain, and leaves every other row alone.       *)
LEMMA FinishJobEffect ==
    ASSUME RowsTyped, NEW j \in Jobs, NEW status \in {"succeeded", "failed"},
           NEW outcome \in Outcomes, FinishJob(j, status, outcome)
    PROVE  /\ RowStep(j)
           /\ row'[j].res = row[j].res /\ row'[j].worker = row[j].worker
           /\ Running(j) => /\ row'[j].status = status
                            /\ row'[j].outcome = outcome
                            /\ row'[j].stage \in {"completed", "awaiting_recovery"}
                            /\ \A r \in Resources : lock'[r] = j <=>
                                  lock[r] = j /\ outcome = "recovery_required"
           /\ ~Running(j) => row' = row /\ lock' = lock
<1>1. CASE Running(j)
  <2>. DEFINE new == [row[j] EXCEPT !.status = status, !.outcome = outcome,
                                    !.stage = FinalStage(outcome)]
  <2>1. /\ row' = [row EXCEPT ![j] = new]
        /\ lock' = IF outcome = "recovery_required" THEN lock ELSE Released(j)
    BY <1>1 DEF FinishJob
  <2>2. row[j] \in Row
    BY DEF RowsTyped
  <2>3. FinalStage(outcome) \in {"completed", "awaiting_recovery"}
    BY DEF FinalStage
  <2>4. /\ new \in Row /\ new.status = status /\ new.outcome = outcome
        /\ new.stage = FinalStage(outcome) /\ new.route = row[j].route
        /\ new.res = row[j].res /\ new.worker = row[j].worker
    BY <2>2, <2>3 DEF Row, Stages
  <2>5. RowsTyped'
    BY <2>1, <2>4 DEF RowsTyped, Released
  <2>6. \A i \in Jobs, r \in Resources : lock'[r] = i <=>
            lock[r] = i /\ (i = j => outcome = "recovery_required")
    BY <2>1, ConstantsAssumption DEF RowsTyped, Released
  <2>. HIDE DEF new
  <2>. QED
    BY <1>1, <2>1, <2>3, <2>4, <2>5, <2>6 DEF RowsTyped, RowStep
<1>2. CASE ~Running(j)
  BY <1>2 DEF FinishJob, RowsTyped, RowStep
<1>. QED
  BY <1>1, <1>2

(* JobProgress moves a running job to another stage and nothing else.      *)
LEMMA JobProgressEffect ==
    ASSUME RowsTyped, NEW j \in Jobs, NEW stage \in Stages, JobProgress(j, stage),
           lock' = lock
    PROVE  /\ RowStep(j)
           /\ row'[j].res = row[j].res /\ row'[j].worker = row[j].worker
           /\ row'[j].status = row[j].status /\ row'[j].outcome = row[j].outcome
           /\ row'[j].stage = IF Running(j) THEN stage ELSE row[j].stage
<1>1. CASE Running(j)
  <2>. DEFINE new == AtStage(row[j], stage)
  <2>1. row[j] \in Row /\ row' = [row EXCEPT ![j] = new]
    BY <1>1 DEF RowsTyped, JobProgress
  <2>2. /\ new \in Row /\ new.status = row[j].status /\ new.outcome = row[j].outcome
        /\ new.stage = stage /\ new.route = row[j].route
        /\ new.res = row[j].res /\ new.worker = row[j].worker
    <3>1. CASE stage = "executing"
      BY <2>1, <3>1 DEF Row, AtStage
    <3>2. CASE stage # "executing"
      BY <2>1, <3>2 DEF Row, AtStage
    <3>. QED
      BY <3>1, <3>2
  <2>. HIDE DEF new
  <2>. QED
    BY <1>1, <2>1, <2>2 DEF RowsTyped, RowStep
<1>2. CASE ~Running(j)
  BY <1>2 DEF JobProgress, RowsTyped, RowStep
<1>. QED
  BY <1>1, <1>2

(* SetJobWorker registers the worker and moves the job to 'launching'.     *)
LEMMA SetJobWorkerEffect ==
    ASSUME RowsTyped, NEW j \in Jobs, NEW worker \in {"name", "id"},
           SetJobWorker(j, worker), lock' = lock
    PROVE  /\ RowStep(j)
           /\ row'[j].res = row[j].res /\ row'[j].worker = worker
           /\ row'[j].status = row[j].status /\ row'[j].outcome = row[j].outcome
           /\ row'[j].stage = "launching"
<1>. DEFINE new == [row[j] EXCEPT !.worker = worker, !.stage = "launching", !.started = FALSE]
<1>1. row[j] \in Row /\ row' = [row EXCEPT ![j] = new]
  BY DEF RowsTyped, SetJobWorker
<1>2. /\ new \in Row /\ new.status = row[j].status /\ new.outcome = row[j].outcome
      /\ new.stage = "launching" /\ new.route = row[j].route
      /\ new.res = row[j].res /\ new.worker = worker
  BY <1>1 DEF Row, Stages
<1>. HIDE DEF new
<1>. QED
  BY <1>1, <1>2 DEF RowsTyped, RowStep

----------------------------------------------------------------------------
(* The submitting request.                                                 *)

(* The request owns its running row when it goes on to Docker.             *)
LEMMA BeginDirectKeeps ==
    ASSUME WorkInv, NEW j \in Jobs, BeginDirect(j) PROVE WorkInv'
<1>1. RowsTyped /\ CellsTyped /\ Sound(j)
  BY Parts
<1>2. sub[j] = "admitted" /\ sub' = [sub EXCEPT ![j] = "docker"]
  BY DEF BeginDirect, Goto
<1>3. UNCHANGED <<lock, proc, helper, unlabelled, target, retained, young, obs, review, web>>
  BY DEF BeginDirect
<1>4. /\ RowStep(j)
      /\ row'[j].res = row[j].res /\ row'[j].worker = row[j].worker
      /\ row'[j].status = row[j].status /\ row'[j].outcome = row[j].outcome
      /\ row'[j].stage = IF Running(j) THEN "executing" ELSE row[j].stage
  BY <1>1, <1>3, JobProgressEffect DEF BeginDirect, Stages
<1>5. CellsTyped'
  BY <1>1, <1>2, <1>3 DEF CellsTyped, SubStates
<1>6. \A i \in Jobs \ {j} : Same(i)
  BY <1>1, <1>2, <1>3, <1>4 DEF Same, CellsTyped, RowStep
<1>7. Sound(j)'
  BY <1>1, <1>2, <1>3, <1>4
     DEF Sound, Delivered, JobInv, Active, Running, Uncertain, Touching, Stray, LaunchOver,
         Terminal, Engine, Claimed, CellsTyped, RowStep
<1>8. WatchSame(j)
  BY <1>1, <1>2, <1>3, <1>4
     DEF WatchSame, Gone, CellsTyped, LaunchOver, Terminal, RowStep
<1>. QED
  BY <1>3, <1>4, <1>5, <1>6, <1>7, <1>8, JobStep DEF RowStep

(* The request's row is running, so no success is at stake.                *)
LEMMA DirectCallKeeps ==
    ASSUME WorkInv, NEW j \in Jobs, DirectCall(j) PROVE WorkInv'
<1>1. RowsTyped /\ CellsTyped /\ Sound(j)
  BY Parts
<1>2. PICK t \in {"partial", "complete"} :
         sub[j] = "docker" /\ target' = [target EXCEPT ![j] = t]
  BY DEF DirectCall
<1>3. UNCHANGED <<row, lock, sub, proc, helper, unlabelled, retained, young, obs, review, web>>
  BY DEF DirectCall
<1>5. CellsTyped'
  BY <1>1, <1>2, <1>3 DEF CellsTyped
<1>6. \A i \in Jobs \ {j} : Same(i)
  BY <1>1, <1>2, <1>3 DEF Same, CellsTyped
<1>7. Sound(j)'
  BY <1>1, <1>2, <1>3
     DEF Sound, Delivered, JobInv, Active, Running, Uncertain, Touching, Stray, LaunchOver,
         Terminal, Engine, Claimed, CellsTyped
<1>8. WatchSame(j)
  BY <1>1, <1>2, <1>3
     DEF WatchSame, Gone, CellsTyped, LaunchOver, Terminal
<1>9. RowsTyped'
  BY <1>1, <1>3 DEF RowsTyped
<1>. QED
  BY <1>3, <1>5, <1>6, <1>7, <1>8, <1>9, JobStep

(* The helper of a request is started under a running row.                 *)
LEMMA StartUnlabelledKeeps ==
    ASSUME WorkInv, NEW j \in Jobs, StartUnlabelled(j) PROVE WorkInv'
<1>1. RowsTyped /\ CellsTyped /\ Sound(j)
  BY Parts
<1>2. /\ sub[j] = "docker" /\ row[j].route = "direct"
      /\ unlabelled' = [unlabelled EXCEPT ![j] = TRUE]
      /\ target' = [target EXCEPT ![j] = "partial"]
  BY DEF StartUnlabelled
<1>3. UNCHANGED <<row, lock, sub, proc, helper, retained, young, obs, review, web>>
  BY DEF StartUnlabelled
<1>5. CellsTyped'
  BY <1>1, <1>2, <1>3 DEF CellsTyped
<1>6. \A i \in Jobs \ {j} : Same(i)
  BY <1>1, <1>2, <1>3 DEF Same, CellsTyped
<1>7. Sound(j)'
  <2>1. Running(j) /\ Running(j)' /\ proc[j] = "absent" /\ ~helper[j] /\ row[j].worker = ""
    BY <1>1, <1>2, <1>3 DEF Sound, JobInv, Running, LaunchOver
  <2>. QED
    BY <2>1, <1>1, <1>2, <1>3
       DEF Sound, Delivered, JobInv, Active, Running, Uncertain, LaunchOver,
           Terminal, Engine, Claimed, CellsTyped
<1>8. WatchSame(j)
  BY <1>1, <1>2, <1>3
     DEF WatchSame, Gone, CellsTyped, LaunchOver, Terminal
<1>9. RowsTyped'
  BY <1>1, <1>3 DEF RowsTyped
<1>. QED
  BY <1>3, <1>5, <1>6, <1>7, <1>8, <1>9, JobStep

(* A row with such a helper is not a success, so its end undoes none; and  *)
(* no observer has found such a job's worker gone.                         *)
LEMMA UnlabelledEndsKeeps ==
    ASSUME WorkInv, NEW j \in Jobs, UnlabelledEnds(j) PROVE WorkInv'
<1>1. RowsTyped /\ CellsTyped /\ Sound(j) /\ \A o \in Observers : ObserverInv(o)
  BY Parts
<1>2. PICK t \in {"partial", "complete"} :
         /\ unlabelled[j] /\ unlabelled' = [unlabelled EXCEPT ![j] = FALSE]
         /\ target' = [target EXCEPT ![j] = t]
  BY DEF UnlabelledEnds
<1>3. UNCHANGED <<row, lock, sub, proc, helper, retained, young, obs, review, web>>
  BY DEF UnlabelledEnds
<1>4. \A i \in Jobs \ {j} : Same(i)
  BY <1>1, <1>2, <1>3 DEF Same, CellsTyped
<1>5. Sound(j)'
  <2>1. /\ ~unlabelled'[j] /\ proc[j] = "absent"
        /\ row[j].outcome \in {"", "failed", "recovery_required", "recovery_acknowledged"}
    BY <1>1, <1>2 DEF Sound, JobInv, CellsTyped
  <2>2. Touching(j)' => Active(j)'
    BY <2>1, <1>1, <1>2, <1>3 DEF Sound, JobInv, Touching, Claimed, Active, Running, Uncertain
  <2>3. JobInv(j)'
    BY <2>1, <1>1, <1>2, <1>3
       DEF Sound, JobInv, Running, Uncertain, LaunchOver, Terminal, Engine, Claimed
  <2>4. \A r \in Resources : lock'[r] = j <=> Active(j)' /\ r \in row'[j].res
    BY <1>1, <1>3 DEF Sound, Active, Running, Uncertain
  <2>. QED
    BY <2>1, <2>2, <2>3, <2>4, <1>3 DEF Sound, Delivered
<1>6. ASSUME NEW o \in Observers PROVE ObserverInv(o)'
  <2>1. CASE obs[o].pc = "idle"
    BY <1>3, <2>1 DEF ObserverInv
  <2>2. CASE obs[o].pc # "idle"
    <3>1. obs[o].job \in Jobs /\ obs[o].job # j
      BY <1>1, <1>2, <2>2 DEF ObserverInv, Sound, JobInv, Engine
    <3>. QED
      BY <1>1, <1>3, <1>4, <3>1, SameWatched
  <2>. QED
    BY <2>1, <2>2
<1>7. ASSUME NEW i \in Jobs PROVE Sound(i)'
  <2>1. Sound(i)
    BY Parts
  <2>. QED
    BY <1>3, <1>4, <1>5, <2>1, SameSound
<1>8. RowsTyped' /\ CellsTyped' /\ ObsTyped'
  <2>1. ObsTyped
    BY Parts
  <2>. QED
    BY <1>1, <1>2, <1>3, <2>1 DEF RowsTyped, CellsTyped, ObsTyped
<1>. QED
  BY <1>6, <1>7, <1>8, Parts

(* The request's final write frees the reservation as it stops working.    *)
LEMMA FinishDirectKeeps ==
    ASSUME WorkInv, NEW j \in Jobs, FinishDirect(j) PROVE WorkInv'
<1>1. RowsTyped /\ CellsTyped /\ Sound(j)
  BY Parts
<1>2. sub[j] = "docker" /\ sub' = [sub EXCEPT ![j] = "done"]
  BY DEF FinishDirect, Goto
<1>3. UNCHANGED <<proc, helper, unlabelled, target, retained, young, obs, review, web>>
  BY DEF FinishDirect
<1>4. PICK status \in {"succeeded", "failed"}, outcome \in Outcomes :
         /\ FinishJob(j, status, outcome)
         /\ status = "succeeded" => target[j] = "complete" /\ ~unlabelled[j]
                                    /\ outcome = "verified"
         /\ status = "failed" => outcome \in {"failed", "recovery_required"}
  BY <1>2 DEF FinishDirect, Outcomes
<1>5. /\ RowStep(j)
      /\ row'[j].res = row[j].res /\ row'[j].worker = row[j].worker
      /\ Running(j) => /\ row'[j].status = status /\ row'[j].outcome = outcome
                       /\ row'[j].stage \in {"completed", "awaiting_recovery"}
                       /\ \A r \in Resources : lock'[r] = j <=>
                             lock[r] = j /\ outcome = "recovery_required"
      /\ ~Running(j) => row' = row /\ lock' = lock
  BY <1>1, <1>4, FinishJobEffect
<1>6. CellsTyped'
  BY <1>1, <1>2, <1>3 DEF CellsTyped, SubStates
<1>7. \A i \in Jobs \ {j} : Same(i)
  BY <1>1, <1>2, <1>3, <1>4, <1>5 DEF Same, CellsTyped, RowStep
<1>8. Sound(j)'
  <2>1. CASE Running(j)
    <3>1. /\ sub'[j] = "done" /\ proc'[j] = proc[j] /\ proc[j] \in {"absent", "created"}
          /\ ~helper'[j] /\ unlabelled'[j] = unlabelled[j] /\ target'[j] = target[j]
          /\ review'[j] = "no"
          /\ unlabelled[j] => row[j].route = "direct" /\ row[j].worker = "" /\ proc[j] = "absent"
      BY <2>1, <1>1, <1>2, <1>3 DEF Sound, JobInv, LaunchOver, Running, Terminal, CellsTyped
    <3>2. /\ row'[j].status = status /\ row'[j].outcome = outcome
          /\ row'[j].route = row[j].route /\ row'[j].worker = row[j].worker
          /\ row'[j].stage \in {"completed", "awaiting_recovery"}
      BY <2>1, <1>5 DEF RowStep
    <3>3. \A r \in Resources : lock'[r] = j <=> Active(j)' /\ r \in row'[j].res
      BY <2>1, <3>2, <1>1, <1>4, <1>5 DEF Sound, Active, Running, Uncertain
    <3>4. Touching(j)' => unlabelled[j] /\ outcome \in {"failed", "recovery_required"}
      BY <3>1, <1>4 DEF Touching, Claimed
    <3>5. Touching(j)' => Active(j)' \/ Stray(j)'
      BY <3>1, <3>2, <3>4 DEF Active, Uncertain, Stray
    <3>6. JobInv(j)' /\ Delivered(j)'
      BY <3>1, <3>2, <1>4 DEF JobInv, Delivered, Running, Uncertain, Terminal, LaunchOver, Claimed
    <3>. QED
      BY <3>3, <3>5, <3>6 DEF Sound
  <2>2. CASE ~Running(j)
    <3>1. row' = row /\ lock' = lock
      BY <1>5, <2>2
    <3>. QED
      BY <3>1, <1>1, <1>2, <1>3
         DEF Sound, Delivered, JobInv, Active, Running, Uncertain, Touching, Stray, LaunchOver,
             Terminal, Engine, Claimed, CellsTyped
  <2>. QED
    BY <2>1, <2>2
<1>9. WatchSame(j)
  BY <1>1, <1>2, <1>3, <1>4, <1>5
     DEF WatchSame, Gone, CellsTyped, LaunchOver, Terminal, RowStep
<1>. QED
  BY <1>3, <1>4, <1>5, <1>6, <1>7, <1>8, <1>9, JobStep DEF RowStep

(* A lost write ends the request and changes no row.                       *)
LEMMA StorageFailsKeeps ==
    ASSUME WorkInv, NEW j \in Jobs, StorageFails(j) PROVE WorkInv'
<1>1. RowsTyped /\ CellsTyped /\ Sound(j)
  BY Parts
<1>2. sub[j] \in {"admitted", "docker"} /\ sub' = [sub EXCEPT ![j] = "lost"]
  BY DEF StorageFails, Goto
<1>3. UNCHANGED <<row, lock, proc, helper, unlabelled, target, retained, young, obs, review, web>>
  BY DEF StorageFails
<1>5. CellsTyped'
  BY <1>1, <1>2, <1>3 DEF CellsTyped, SubStates
<1>6. \A i \in Jobs \ {j} : Same(i)
  BY <1>1, <1>2, <1>3 DEF Same, CellsTyped
<1>7. Sound(j)'
  BY <1>1, <1>2, <1>3
     DEF Sound, Delivered, JobInv, Active, Running, Uncertain, Touching, Stray, LaunchOver,
         Terminal, Engine, Claimed, CellsTyped
<1>8. WatchSame(j)
  BY <1>1, <1>2, <1>3
     DEF WatchSame, Gone, CellsTyped, LaunchOver, Terminal
<1>9. RowsTyped'
  BY <1>1, <1>3 DEF RowsTyped
<1>. QED
  BY <1>3, <1>5, <1>6, <1>7, <1>8, <1>9, JobStep

(* The request stops working before it launches the worker.                *)
LEMMA LaunchRestartKeeps ==
    ASSUME WorkInv, NEW j \in Jobs, LaunchRestart(j) PROVE WorkInv'
<1>1. RowsTyped /\ CellsTyped /\ Sound(j)
  BY Parts
<1>2. sub[j] = "docker" /\ row[j].route = "restart" /\ sub' = [sub EXCEPT ![j] = "register"]
  BY DEF LaunchRestart, Goto
<1>3. UNCHANGED <<row, lock, proc, helper, unlabelled, target, retained, young, obs, review, web>>
  BY DEF LaunchRestart
<1>5. CellsTyped'
  BY <1>1, <1>2, <1>3 DEF CellsTyped, SubStates
<1>6. \A i \in Jobs \ {j} : Same(i)
  BY <1>1, <1>2, <1>3 DEF Same, CellsTyped
<1>7. Sound(j)'
  BY <1>1, <1>2, <1>3
     DEF Sound, Delivered, JobInv, Active, Running, Uncertain, Touching, Stray, LaunchOver,
         Terminal, Engine, Claimed, CellsTyped
<1>8. WatchSame(j)
  BY <1>1, <1>2, <1>3
     DEF WatchSame, Gone, CellsTyped, LaunchOver, Terminal
<1>9. RowsTyped'
  BY <1>1, <1>3 DEF RowsTyped
<1>. QED
  BY <1>3, <1>5, <1>6, <1>7, <1>8, <1>9, JobStep

(* Registration leaves status, scope and reservation alone.                *)
LEMMA RegisterWorkerKeeps ==
    ASSUME WorkInv, NEW j \in Jobs, RegisterWorker(j) PROVE WorkInv'
<1>1. RowsTyped /\ CellsTyped /\ Sound(j)
  BY Parts
<1>2. PICK s \in {"create", "plain"} :
         sub[j] = "register" /\ sub' = [sub EXCEPT ![j] = s]
  BY DEF RegisterWorker, Goto
<1>3. UNCHANGED <<lock, proc, helper, unlabelled, target, retained, young, obs, review, web>>
  BY DEF RegisterWorker
<1>4. /\ RowStep(j)
      /\ row'[j].res = row[j].res
      /\ row'[j].status = row[j].status /\ row'[j].outcome = row[j].outcome
      /\ row[j].worker # "" => row'[j].worker # ""
      /\ row'[j].stage = row[j].stage \/ row'[j].stage = "launching"
  <2>1. CASE SetJobWorker(j, "name")
    BY <1>1, <1>3, <2>1, SetJobWorkerEffect
  <2>2. CASE UNCHANGED row
    BY <1>1, <1>3, <2>2 DEF RowsTyped, RowStep
  <2>. QED
    BY <2>1, <2>2 DEF RegisterWorker
<1>5. CellsTyped'
  BY <1>1, <1>2, <1>3 DEF CellsTyped, SubStates
<1>6. \A i \in Jobs \ {j} : Same(i)
  BY <1>1, <1>2, <1>3, <1>4 DEF Same, CellsTyped, RowStep
<1>7. Sound(j)'
  <2>0. /\ sub'[j] = s /\ proc'[j] = proc[j] /\ helper'[j] = helper[j]
        /\ target'[j] = target[j] /\ review'[j] = review[j]
    BY <1>1, <1>2, <1>3 DEF CellsTyped
  <2>1. \A r \in Resources : lock'[r] = j <=> Active(j)' /\ r \in row'[j].res
    BY <2>0, <1>1, <1>2, <1>3, <1>4 DEF Sound, Active, Running, Uncertain, RowStep
  <2>2. Touching(j)' => Active(j)'
    BY <2>0, <1>1, <1>2, <1>3, <1>4
       DEF Sound, JobInv, LaunchOver, Active, Running, Uncertain, Touching, Stray, Claimed
  <2>3. Delivered(j)'
    BY <2>0, <1>1, <1>2, <1>3, <1>4
       DEF Sound, Delivered, JobInv, Active, Running, Uncertain, Touching, Stray, Claimed
  <2>4. JobInv(j)'
    BY <2>0, <1>1, <1>2, <1>3, <1>4
       DEF Sound, JobInv, LaunchOver, Running, Terminal, Uncertain, Engine, Claimed, RowStep
  <2>. QED
    BY <2>1, <2>2, <2>3, <2>4 DEF Sound
<1>8. WatchSame(j)
  BY <1>1, <1>2, <1>3, <1>4
     DEF WatchSame, Gone, CellsTyped, LaunchOver, Terminal, RowStep
<1>. QED
  BY <1>3, <1>4, <1>5, <1>6, <1>7, <1>8, JobStep DEF RowStep

(* A created container has not started.                                    *)
LEMMA CreateWorkerKeeps ==
    ASSUME WorkInv, NEW j \in Jobs, CreateWorker(j) PROVE WorkInv'
<1>1. RowsTyped /\ CellsTyped /\ Sound(j)
  BY Parts
<1>2. PICK p \in {"created", proc[j]}, s \in {"confirm", "done", "uncertain"} :
         /\ sub[j] = "create"
         /\ proc' = [proc EXCEPT ![j] = p] /\ sub' = [sub EXCEPT ![j] = s]
         /\ s = "confirm" => p = "created"
  BY <1>1 DEF CreateWorker, Goto, LaunchUncertain, CellsTyped
<1>3. UNCHANGED <<row, lock, helper, unlabelled, target, retained, young, obs, review, web>>
  BY DEF CreateWorker
<1>5. CellsTyped'
  BY <1>1, <1>2, <1>3 DEF CellsTyped, SubStates, ProcStates
<1>6. \A i \in Jobs \ {j} : Same(i)
  BY <1>1, <1>2, <1>3 DEF Same, CellsTyped
<1>7. Sound(j)'
  BY <1>1, <1>2, <1>3
     DEF Sound, Delivered, JobInv, Active, Running, Uncertain, Touching, Stray, LaunchOver,
         Terminal, Engine, Claimed, CellsTyped, ProcStates, Live
<1>8. WatchSame(j)
  BY <1>1, <1>2, <1>3
     DEF WatchSame, Gone, CellsTyped, LaunchOver, Terminal
<1>9. RowsTyped'
  BY <1>1, <1>3 DEF RowsTyped
<1>. QED
  BY <1>3, <1>5, <1>6, <1>7, <1>8, <1>9, JobStep

(* Confirmation leaves status, scope and reservation alone.                *)
LEMMA ConfirmWorkerKeeps ==
    ASSUME WorkInv, NEW j \in Jobs, ConfirmWorker(j) PROVE WorkInv'
<1>1. RowsTyped /\ CellsTyped /\ Sound(j)
  BY Parts
<1>2. PICK s \in {"start", "done", "uncertain"} :
         sub[j] = "confirm" /\ sub' = [sub EXCEPT ![j] = s]
  BY <1>1 DEF ConfirmWorker, Goto, LaunchUncertain
<1>3. UNCHANGED <<lock, proc, helper, unlabelled, target, retained, young, obs, review, web>>
  BY DEF ConfirmWorker
<1>4. /\ RowStep(j)
      /\ row'[j].res = row[j].res
      /\ row'[j].status = row[j].status /\ row'[j].outcome = row[j].outcome
      /\ row[j].worker # "" => row'[j].worker # ""
      /\ row'[j].stage = row[j].stage \/ row'[j].stage = "launching"
  <2>1. CASE SetJobWorker(j, "id")
    BY <1>1, <1>3, <2>1, SetJobWorkerEffect
  <2>2. CASE UNCHANGED row
    BY <1>1, <1>3, <2>2 DEF RowsTyped, RowStep
  <2>. QED
    BY <2>1, <2>2 DEF ConfirmWorker
<1>5. CellsTyped'
  BY <1>1, <1>2, <1>3 DEF CellsTyped, SubStates
<1>6. \A i \in Jobs \ {j} : Same(i)
  BY <1>1, <1>2, <1>3, <1>4 DEF Same, CellsTyped, RowStep
<1>7. Sound(j)'
  <2>0. /\ sub'[j] = s /\ proc'[j] = proc[j] /\ helper'[j] = helper[j]
        /\ target'[j] = target[j] /\ review'[j] = review[j]
    BY <1>1, <1>2, <1>3 DEF CellsTyped
  <2>1. \A r \in Resources : lock'[r] = j <=> Active(j)' /\ r \in row'[j].res
    BY <2>0, <1>1, <1>2, <1>3, <1>4 DEF Sound, Active, Running, Uncertain, RowStep
  <2>2. Touching(j)' => Active(j)'
    BY <2>0, <1>1, <1>2, <1>3, <1>4
       DEF Sound, JobInv, LaunchOver, Active, Running, Uncertain, Touching, Stray, Claimed
  <2>3. Delivered(j)'
    BY <2>0, <1>1, <1>2, <1>3, <1>4
       DEF Sound, Delivered, JobInv, Active, Running, Uncertain, Touching, Stray, Claimed
  <2>4. JobInv(j)'
    BY <2>0, <1>1, <1>2, <1>3, <1>4
       DEF Sound, JobInv, LaunchOver, Running, Terminal, Uncertain, Engine, Claimed, RowStep
  <2>. QED
    BY <2>1, <2>2, <2>3, <2>4 DEF Sound
<1>8. WatchSame(j)
  BY <1>1, <1>2, <1>3, <1>4
     DEF WatchSame, Gone, CellsTyped, LaunchOver, Terminal, RowStep
<1>. QED
  BY <1>3, <1>4, <1>5, <1>6, <1>7, <1>8, JobStep DEF RowStep

(* A started worker has not claimed its job.                               *)
LEMMA StartWorkerKeeps ==
    ASSUME WorkInv, NEW j \in Jobs, StartWorker(j) PROVE WorkInv'
<1>1. RowsTyped /\ CellsTyped /\ Sound(j)
  BY Parts
<1>2. PICK p \in {"boot", proc[j]}, s \in {"done", "uncertain"} :
         /\ sub[j] = "start"
         /\ proc' = [proc EXCEPT ![j] = p] /\ sub' = [sub EXCEPT ![j] = s]
  BY <1>1 DEF StartWorker, Goto, LaunchUncertain, CellsTyped
<1>3. UNCHANGED <<row, lock, helper, unlabelled, target, retained, young, obs, review, web>>
  BY DEF StartWorker
<1>5. CellsTyped'
  BY <1>1, <1>2, <1>3 DEF CellsTyped, SubStates, ProcStates, Live
<1>6. \A i \in Jobs \ {j} : Same(i)
  BY <1>1, <1>2, <1>3 DEF Same, CellsTyped
<1>7. Sound(j)'
  BY <1>1, <1>2, <1>3
     DEF Sound, Delivered, JobInv, Active, Running, Uncertain, Touching, Stray, LaunchOver,
         Terminal, Engine, Claimed, CellsTyped
<1>8. WatchSame(j)
  BY <1>1, <1>2, <1>3
     DEF WatchSame, Gone, CellsTyped, LaunchOver, Terminal
<1>9. RowsTyped'
  BY <1>1, <1>3 DEF RowsTyped
<1>. QED
  BY <1>3, <1>5, <1>6, <1>7, <1>8, <1>9, JobStep

(* No worker was created when the failure is recorded.                     *)
LEMMA AfterPlainErrorKeeps ==
    ASSUME WorkInv, NEW j \in Jobs, AfterPlainError(j) PROVE WorkInv'
<1>1. RowsTyped /\ CellsTyped /\ Sound(j)
  BY Parts
<1>2. sub[j] = "plain" /\ sub' = [sub EXCEPT ![j] = "done"]
  BY DEF AfterPlainError, Goto
<1>3. UNCHANGED <<proc, helper, unlabelled, target, retained, young, obs, review, web>>
  BY DEF AfterPlainError
<1>4. PICK status \in {"succeeded", "failed"}, outcome \in Outcomes :
         /\ FinishJob(j, status, outcome)
         /\ status = "failed" /\ outcome \in {"failed", "recovery_required"}
  BY <1>2 DEF AfterPlainError, Outcomes
<1>5. /\ RowStep(j)
      /\ row'[j].res = row[j].res /\ row'[j].worker = row[j].worker
      /\ Running(j) => /\ row'[j].status = status /\ row'[j].outcome = outcome
                       /\ row'[j].stage \in {"completed", "awaiting_recovery"}
                       /\ \A r \in Resources : lock'[r] = j <=>
                             lock[r] = j /\ outcome = "recovery_required"
      /\ ~Running(j) => row' = row /\ lock' = lock
  BY <1>1, <1>4, FinishJobEffect
<1>6. CellsTyped'
  BY <1>1, <1>2, <1>3 DEF CellsTyped, SubStates
<1>7. \A i \in Jobs \ {j} : Same(i)
  BY <1>1, <1>2, <1>3, <1>4, <1>5 DEF Same, CellsTyped, RowStep
<1>8. Sound(j)'
  <2>1. CASE Running(j)
    BY <2>1, <1>1, <1>2, <1>3, <1>4, <1>5
       DEF Sound, Delivered, JobInv, Active, Running, Uncertain, Touching, Stray, LaunchOver,
           Terminal, Engine, Claimed, CellsTyped, RowStep
  <2>2. CASE ~Running(j)
    <3>1. row' = row /\ lock' = lock
      BY <1>5, <2>2
    <3>. QED
      BY <3>1, <1>1, <1>2, <1>3
         DEF Sound, Delivered, JobInv, Active, Running, Uncertain, Touching, Stray, LaunchOver,
             Terminal, Engine, Claimed, CellsTyped
  <2>. QED
    BY <2>1, <2>2
<1>9. WatchSame(j)
  BY <1>1, <1>2, <1>3, <1>4, <1>5
     DEF WatchSame, Gone, CellsTyped, LaunchOver, Terminal, RowStep
<1>. QED
  BY <1>3, <1>4, <1>5, <1>6, <1>7, <1>8, <1>9, JobStep DEF RowStep

(* A worker may be running, so the reservation is kept.                    *)
LEMMA AfterUncertainLaunchKeeps ==
    ASSUME WorkInv, NEW j \in Jobs, AfterUncertainLaunch(j) PROVE WorkInv'
<1>1. RowsTyped /\ CellsTyped /\ Sound(j)
  BY Parts
<1>2. sub[j] = "uncertain" /\ sub' = [sub EXCEPT ![j] = "done"]
  BY DEF AfterUncertainLaunch, Goto
<1>3. UNCHANGED <<proc, helper, unlabelled, target, retained, young, obs, review, web>>
  BY DEF AfterUncertainLaunch
<1>4. PICK status \in {"succeeded", "failed"}, outcome \in Outcomes :
         /\ FinishJob(j, status, outcome)
         /\ status = "failed" /\ outcome = "recovery_required"
  BY <1>2 DEF AfterUncertainLaunch, Outcomes
<1>5. /\ RowStep(j)
      /\ row'[j].res = row[j].res /\ row'[j].worker = row[j].worker
      /\ Running(j) => /\ row'[j].status = status /\ row'[j].outcome = outcome
                       /\ row'[j].stage \in {"completed", "awaiting_recovery"}
                       /\ \A r \in Resources : lock'[r] = j <=>
                             lock[r] = j /\ outcome = "recovery_required"
      /\ ~Running(j) => row' = row /\ lock' = lock
  BY <1>1, <1>4, FinishJobEffect
<1>6. CellsTyped'
  BY <1>1, <1>2, <1>3 DEF CellsTyped, SubStates
<1>7. \A i \in Jobs \ {j} : Same(i)
  BY <1>1, <1>2, <1>3, <1>4, <1>5 DEF Same, CellsTyped, RowStep
<1>8. Sound(j)'
  <2>1. CASE Running(j)
    BY <2>1, <1>1, <1>2, <1>3, <1>4, <1>5
       DEF Sound, Delivered, JobInv, Active, Running, Uncertain, Touching, Stray, LaunchOver,
           Terminal, Engine, Claimed, CellsTyped, RowStep
  <2>2. CASE ~Running(j)
    <3>1. row' = row /\ lock' = lock
      BY <1>5, <2>2
    <3>. QED
      BY <3>1, <1>1, <1>2, <1>3
         DEF Sound, Delivered, JobInv, Active, Running, Uncertain, Touching, Stray, LaunchOver,
             Terminal, Engine, Claimed, CellsTyped
  <2>. QED
    BY <2>1, <2>2
<1>9. WatchSame(j)
  BY <1>1, <1>2, <1>3, <1>4, <1>5
     DEF WatchSame, Gone, CellsTyped, LaunchOver, Terminal, RowStep
<1>. QED
  BY <1>3, <1>4, <1>5, <1>6, <1>7, <1>8, <1>9, JobStep DEF RowStep

----------------------------------------------------------------------------
(* The worker.                                                             *)

(* Validation claims nothing yet.                                          *)
LEMMA ValidateWorkerKeeps ==
    ASSUME WorkInv, NEW j \in Jobs, ValidateWorker(j) PROVE WorkInv'
<1>1. RowsTyped /\ CellsTyped /\ Sound(j)
  BY Parts
<1>2. PICK p \in {"claim", "exiting"} :
         proc[j] = "boot" /\ proc' = [proc EXCEPT ![j] = p]
  BY DEF ValidateWorker, Become
<1>3. UNCHANGED <<row, lock, sub, helper, unlabelled, target, retained, young, obs, review, web>>
  BY DEF ValidateWorker
<1>5. CellsTyped'
  BY <1>1, <1>2, <1>3 DEF CellsTyped, ProcStates, Live, Claimed
<1>6. \A i \in Jobs \ {j} : Same(i)
  BY <1>1, <1>2, <1>3 DEF Same, CellsTyped
<1>7. Sound(j)'
  <2>0. /\ sub'[j] = sub[j] /\ proc'[j] = p /\ helper'[j] = helper[j]
        /\ target'[j] = target[j] /\ review'[j] = review[j]
    BY <1>1, <1>2, <1>3 DEF CellsTyped
  <2>1. \A r \in Resources : lock'[r] = j <=> Active(j)' /\ r \in row'[j].res
    BY <2>0, <1>1, <1>2, <1>3 DEF Sound, Active, Running, Uncertain
  <2>2. Touching(j)' => Active(j)'
    BY <2>0, <1>1, <1>2, <1>3
       DEF Sound, JobInv, LaunchOver, Active, Running, Uncertain, Touching, Stray, Claimed
  <2>3. Delivered(j)'
    BY <2>0, <1>1, <1>2, <1>3
       DEF Sound, Delivered, JobInv, Active, Running, Uncertain, Touching, Stray, Claimed
  <2>4. JobInv(j)'
    BY <2>0, <1>1, <1>2, <1>3
       DEF Sound, JobInv, LaunchOver, Running, Terminal, Uncertain, Engine, Claimed
  <2>. QED
    BY <2>1, <2>2, <2>3, <2>4 DEF Sound
<1>8. WatchSame(j)
  BY <1>1, <1>2, <1>3
     DEF WatchSame, Gone, CellsTyped, LaunchOver, Terminal
<1>9. RowsTyped'
  BY <1>1, <1>3 DEF RowsTyped
<1>. QED
  BY <1>3, <1>5, <1>6, <1>7, <1>8, <1>9, JobStep

(* Only a running job is claimed, so the claimed worker is reserved.       *)
LEMMA ClaimJobKeeps == ASSUME WorkInv, NEW j \in Jobs, ClaimJob(j) PROVE WorkInv'
<1>1. RowsTyped /\ CellsTyped /\ Sound(j)
  BY Parts
<1>2. PICK p \in {"work", "exiting"}, y \in BOOLEAN :
         /\ proc[j] = "claim" /\ proc' = [proc EXCEPT ![j] = p]
         /\ young' = [young EXCEPT ![j] = y]
         /\ p = "work" => Running(j)
  BY ZenonT(40), <1>1 DEF ClaimJob, Become, MayClaim, CellsTyped
<1>3. UNCHANGED <<lock, sub, helper, unlabelled, target, retained, obs, review, web>>
  BY DEF ClaimJob
<1>4. /\ RowStep(j)
      /\ row'[j].res = row[j].res /\ row'[j].worker = row[j].worker
      /\ row'[j].status = row[j].status /\ row'[j].outcome = row[j].outcome
      /\ row'[j].stage = row[j].stage \/ row'[j].stage = "preparing"
  <2>. DEFINE new == [row[j] EXCEPT !.stage = "preparing", !.started = TRUE]
  <2>1. CASE row' = [row EXCEPT ![j] = new]
    <3>1. row[j] \in Row
      BY <1>1 DEF RowsTyped
    <3>2. /\ new \in Row /\ new.status = row[j].status /\ new.outcome = row[j].outcome
          /\ new.stage = "preparing" /\ new.route = row[j].route
          /\ new.res = row[j].res /\ new.worker = row[j].worker
      BY <3>1 DEF Row, Stages
    <3>. HIDE DEF new
    <3>. QED
      BY <1>1, <1>3, <2>1, <3>2 DEF RowsTyped, RowStep
  <2>2. CASE UNCHANGED row
    BY <1>1, <1>3, <2>2 DEF RowsTyped, RowStep
  <2>. QED
    BY <2>1, <2>2 DEF ClaimJob
<1>5. CellsTyped'
  BY <1>1, <1>2, <1>3 DEF CellsTyped, ProcStates, Live, Claimed
<1>6. \A i \in Jobs \ {j} : Same(i)
  BY <1>1, <1>2, <1>3, <1>4 DEF Same, CellsTyped, RowStep
<1>7. Sound(j)'
  <2>0. /\ sub'[j] = sub[j] /\ proc'[j] = p /\ helper'[j] = helper[j]
        /\ target'[j] = target[j] /\ review'[j] = review[j]
    BY <1>1, <1>2, <1>3 DEF CellsTyped
  <2>1. \A r \in Resources : lock'[r] = j <=> Active(j)' /\ r \in row'[j].res
    BY <2>0, <1>1, <1>2, <1>3, <1>4 DEF Sound, Active, Running, Uncertain, RowStep
  <2>2. Touching(j)' => Active(j)'
    BY <2>0, <1>1, <1>2, <1>3, <1>4
       DEF Sound, JobInv, LaunchOver, Active, Running, Uncertain, Touching, Stray, Claimed
  <2>3. Delivered(j)'
    BY <2>0, <1>1, <1>2, <1>3, <1>4
       DEF Sound, Delivered, JobInv, Active, Running, Uncertain, Touching, Stray, Claimed
  <2>4. JobInv(j)'
    BY <2>0, <1>1, <1>2, <1>3, <1>4
       DEF Sound, JobInv, LaunchOver, Running, Terminal, Uncertain, Engine, Claimed, RowStep
  <2>. QED
    BY <2>1, <2>2, <2>3, <2>4 DEF Sound
<1>8. WatchSame(j)
  BY <1>1, <1>2, <1>3, <1>4
     DEF WatchSame, Gone, CellsTyped, LaunchOver, Terminal, RowStep
<1>. QED
  BY <1>3, <1>4, <1>5, <1>6, <1>7, <1>8, JobStep DEF RowStep

(* The worker goes on, fails or leaves; its row stays active.              *)
LEMMA BeginMutationKeeps ==
    ASSUME WorkInv, NEW j \in Jobs, BeginMutation(j) PROVE WorkInv'
<1>1. RowsTyped /\ CellsTyped /\ Sound(j)
  BY Parts
<1>0. retained' \in [Jobs -> BOOLEAN]
  <2>1. CASE retained' = [retained EXCEPT ![j] = @ \/ row[j].route = "recreate"]
    <3>1. \A b \in BOOLEAN : [retained EXCEPT ![j] = b] \in [Jobs -> BOOLEAN]
      BY <1>1 DEF CellsTyped
    <3>2. (retained[j] \/ row[j].route = "recreate") \in BOOLEAN
      BY <1>1 DEF CellsTyped
    <3>. QED
      BY <2>1, <3>1, <3>2
  <2>2. CASE UNCHANGED retained
    BY <1>1, <2>2 DEF CellsTyped
  <2>. QED
    BY <2>1, <2>2 DEF BeginMutation
<1>2. PICK p \in {"mutate", "exiting"} :
         proc[j] = "work" /\ proc' = [proc EXCEPT ![j] = p]
  BY <1>1 DEF BeginMutation, Become, CellsTyped
<1>3. UNCHANGED <<lock, sub, helper, unlabelled, target, young, obs, review, web>>
  BY DEF BeginMutation
<1>4. /\ RowStep(j)
      /\ row'[j].res = row[j].res /\ row'[j].worker = row[j].worker
      /\ row'[j].status = row[j].status /\ row'[j].outcome = row[j].outcome
      /\ row'[j].stage = IF Running(j) THEN "replacing" ELSE row[j].stage
  BY <1>1, <1>3, JobProgressEffect DEF BeginMutation, Stages
<1>5. CellsTyped'
  BY <1>1, <1>0, <1>2, <1>3 DEF CellsTyped, ProcStates, Live, Claimed
<1>6. \A i \in Jobs \ {j} : Same(i)
  BY <1>1, <1>2, <1>3, <1>4 DEF Same, CellsTyped, RowStep
<1>7. Sound(j)'
  <2>0. /\ sub'[j] = sub[j] /\ proc'[j] = p /\ helper'[j] = helper[j]
        /\ target'[j] = target[j] /\ review'[j] = review[j]
    BY <1>1, <1>2, <1>3 DEF CellsTyped
  <2>1. \A r \in Resources : lock'[r] = j <=> Active(j)' /\ r \in row'[j].res
    BY <2>0, <1>1, <1>2, <1>3, <1>4 DEF Sound, Active, Running, Uncertain, RowStep
  <2>2. Touching(j)' => Active(j)'
    BY <2>0, <1>1, <1>2, <1>3, <1>4
       DEF Sound, JobInv, LaunchOver, Active, Running, Uncertain, Touching, Stray, Claimed
  <2>3. Delivered(j)'
    BY <2>0, <1>1, <1>2, <1>3, <1>4
       DEF Sound, Delivered, JobInv, Active, Running, Uncertain, Touching, Stray, Claimed
  <2>4. JobInv(j)'
    BY <2>0, <1>1, <1>2, <1>3, <1>4
       DEF Sound, JobInv, LaunchOver, Running, Terminal, Uncertain, Engine, Claimed, RowStep
  <2>. QED
    BY <2>1, <2>2, <2>3, <2>4 DEF Sound
<1>8. WatchSame(j)
  BY <1>1, <1>2, <1>3, <1>4
     DEF WatchSame, Gone, CellsTyped, LaunchOver, Terminal, RowStep
<1>. QED
  BY <1>3, <1>4, <1>5, <1>6, <1>7, <1>8, JobStep DEF RowStep

(* The helper of a claimed worker is reserved.                             *)
LEMMA StartHelperKeeps ==
    ASSUME WorkInv, NEW j \in Jobs, StartHelper(j) PROVE WorkInv'
<1>1. RowsTyped /\ CellsTyped /\ Sound(j)
  BY Parts
<1>2. /\ proc[j] = "mutate" /\ helper' = [helper EXCEPT ![j] = TRUE]
      /\ target' = [target EXCEPT ![j] = "partial"]
  BY DEF StartHelper
<1>3. UNCHANGED <<row, lock, sub, proc, unlabelled, retained, young, obs, review, web>>
  BY DEF StartHelper
<1>5. CellsTyped'
  BY <1>1, <1>2, <1>3 DEF CellsTyped
<1>6. \A i \in Jobs \ {j} : Same(i)
  BY <1>1, <1>2, <1>3 DEF Same, CellsTyped
<1>7. Sound(j)'
  <2>0. /\ sub'[j] = sub[j] /\ proc'[j] = proc[j] /\ helper'[j] = TRUE
        /\ target'[j] = "partial" /\ review'[j] = review[j]
    BY <1>1, <1>2, <1>3 DEF CellsTyped
  <2>1. \A r \in Resources : lock'[r] = j <=> Active(j)' /\ r \in row'[j].res
    BY <2>0, <1>1, <1>2, <1>3 DEF Sound, Active, Running, Uncertain
  <2>2. Touching(j)' => Active(j)'
    BY <2>0, <1>1, <1>2, <1>3
       DEF Sound, JobInv, LaunchOver, Active, Running, Uncertain, Touching, Stray, Claimed
  <2>3. Delivered(j)'
    BY <2>0, <1>1, <1>2, <1>3
       DEF Sound, Delivered, JobInv, Active, Running, Uncertain, Touching, Stray, Claimed
  <2>4. JobInv(j)'
    BY <2>0, <1>1, <1>2, <1>3
       DEF Sound, JobInv, LaunchOver, Running, Terminal, Uncertain, Engine, Claimed
  <2>. QED
    BY <2>1, <2>2, <2>3, <2>4 DEF Sound
<1>8. WatchSame(j)
  BY <1>1, <1>2, <1>3
     DEF WatchSame, Gone, CellsTyped, LaunchOver, Terminal
<1>9. RowsTyped'
  BY <1>1, <1>3 DEF RowsTyped
<1>. QED
  BY <1>3, <1>5, <1>6, <1>7, <1>8, <1>9, JobStep

(* A helper changes its target only under the reservation.                 *)
LEMMA HelperEndsKeeps ==
    ASSUME WorkInv, NEW j \in Jobs, HelperEnds(j) PROVE WorkInv'
<1>1. RowsTyped /\ CellsTyped /\ Sound(j)
  BY Parts
<1>2. PICK t \in {"partial", "complete"} :
         /\ helper[j] /\ helper' = [helper EXCEPT ![j] = FALSE]
         /\ target' = [target EXCEPT ![j] = t]
  BY DEF HelperEnds
<1>3. UNCHANGED <<row, lock, sub, proc, unlabelled, retained, young, obs, review, web>>
  BY DEF HelperEnds
<1>5. CellsTyped'
  BY <1>1, <1>2, <1>3 DEF CellsTyped
<1>6. \A i \in Jobs \ {j} : Same(i)
  BY <1>1, <1>2, <1>3 DEF Same, CellsTyped
<1>7. Sound(j)'
  <2>0. /\ sub'[j] = sub[j] /\ proc'[j] = proc[j] /\ helper'[j] = FALSE
        /\ target'[j] = t /\ review'[j] = review[j]
    BY <1>1, <1>2, <1>3 DEF CellsTyped
  <2>1. \A r \in Resources : lock'[r] = j <=> Active(j)' /\ r \in row'[j].res
    BY <2>0, <1>1, <1>2, <1>3 DEF Sound, Active, Running, Uncertain
  <2>2. Touching(j)' => Active(j)'
    BY <2>0, <1>1, <1>2, <1>3
       DEF Sound, JobInv, LaunchOver, Active, Running, Uncertain, Touching, Stray, Claimed
  <2>3. Delivered(j)'
    BY <2>0, <1>1, <1>2, <1>3
       DEF Sound, Delivered, JobInv, Active, Running, Uncertain, Touching, Stray, Claimed
  <2>4. JobInv(j)'
    BY <2>0, <1>1, <1>2, <1>3
       DEF Sound, JobInv, LaunchOver, Running, Terminal, Uncertain, Engine, Claimed
  <2>. QED
    BY <2>1, <2>2, <2>3, <2>4 DEF Sound
<1>8. WatchSame(j)
  BY <1>1, <1>2, <1>3
     DEF WatchSame, Gone, CellsTyped, LaunchOver, Terminal
<1>9. RowsTyped'
  BY <1>1, <1>3 DEF RowsTyped
<1>. QED
  BY <1>3, <1>5, <1>6, <1>7, <1>8, <1>9, JobStep

(* Verification starts without a helper.                                   *)
LEMMA BeginVerificationKeeps ==
    ASSUME WorkInv, NEW j \in Jobs, BeginVerification(j) PROVE WorkInv'
<1>1. RowsTyped /\ CellsTyped /\ Sound(j)
  BY Parts
<1>2. PICK p \in {"verify", "exiting"} :
         /\ proc[j] = "mutate" /\ ~helper[j] /\ proc' = [proc EXCEPT ![j] = p]
         /\ p = "verify" => Running(j)
  BY <1>1 DEF BeginVerification, Become
<1>3. UNCHANGED <<lock, sub, helper, unlabelled, target, retained, young, obs, review, web>>
  BY DEF BeginVerification
<1>4. /\ RowStep(j)
      /\ row'[j].res = row[j].res /\ row'[j].worker = row[j].worker
      /\ row'[j].status = row[j].status /\ row'[j].outcome = row[j].outcome
      /\ row'[j].stage = IF Running(j) THEN "verifying" ELSE row[j].stage
  BY <1>1, <1>3, JobProgressEffect DEF BeginVerification, Stages
<1>5. CellsTyped'
  BY <1>1, <1>2, <1>3 DEF CellsTyped, ProcStates, Live, Claimed
<1>6. \A i \in Jobs \ {j} : Same(i)
  BY <1>1, <1>2, <1>3, <1>4 DEF Same, CellsTyped, RowStep
<1>7. Sound(j)'
  <2>0. /\ sub'[j] = sub[j] /\ proc'[j] = p /\ helper'[j] = helper[j]
        /\ target'[j] = target[j] /\ review'[j] = review[j]
    BY <1>1, <1>2, <1>3 DEF CellsTyped
  <2>1. \A r \in Resources : lock'[r] = j <=> Active(j)' /\ r \in row'[j].res
    BY <2>0, <1>1, <1>2, <1>3, <1>4 DEF Sound, Active, Running, Uncertain, RowStep
  <2>2. Touching(j)' => Active(j)'
    BY <2>0, <1>1, <1>2, <1>3, <1>4
       DEF Sound, JobInv, LaunchOver, Active, Running, Uncertain, Touching, Stray, Claimed
  <2>3. Delivered(j)'
    BY <2>0, <1>1, <1>2, <1>3, <1>4
       DEF Sound, Delivered, JobInv, Active, Running, Uncertain, Touching, Stray, Claimed
  <2>4. JobInv(j)'
    BY <2>0, <1>1, <1>2, <1>3, <1>4
       DEF Sound, JobInv, LaunchOver, Running, Terminal, Uncertain, Engine, Claimed, RowStep
  <2>. QED
    BY <2>1, <2>2, <2>3, <2>4 DEF Sound
<1>8. WatchSame(j)
  BY <1>1, <1>2, <1>3, <1>4
     DEF WatchSame, Gone, CellsTyped, LaunchOver, Terminal, RowStep
<1>. QED
  BY <1>3, <1>4, <1>5, <1>6, <1>7, <1>8, JobStep DEF RowStep

(* Only a complete target reaches the commit.                              *)
LEMMA VerifyTargetKeeps ==
    ASSUME WorkInv, NEW j \in Jobs, VerifyTarget(j) PROVE WorkInv'
<1>1. RowsTyped /\ CellsTyped /\ Sound(j)
  BY Parts
<1>2. PICK p \in {"commit", "exiting"} :
         /\ proc[j] = "verify" /\ target[j] = "complete" /\ proc' = [proc EXCEPT ![j] = p]
  BY <1>1 DEF VerifyTarget, Become
<1>3. UNCHANGED <<lock, sub, helper, unlabelled, target, retained, young, obs, review, web>>
  BY DEF VerifyTarget
<1>4. /\ RowStep(j)
      /\ row'[j].res = row[j].res /\ row'[j].worker = row[j].worker
      /\ row'[j].status = row[j].status /\ row'[j].outcome = row[j].outcome
      /\ row'[j].stage = IF Running(j) THEN "committing" ELSE row[j].stage
  BY <1>1, <1>3, JobProgressEffect DEF VerifyTarget, Stages
<1>5. CellsTyped'
  BY <1>1, <1>2, <1>3 DEF CellsTyped, ProcStates, Live, Claimed
<1>6. \A i \in Jobs \ {j} : Same(i)
  BY <1>1, <1>2, <1>3, <1>4 DEF Same, CellsTyped, RowStep
<1>7. Sound(j)'
  <2>0. /\ sub'[j] = sub[j] /\ proc'[j] = p /\ helper'[j] = helper[j]
        /\ target'[j] = target[j] /\ review'[j] = review[j]
    BY <1>1, <1>2, <1>3 DEF CellsTyped
  <2>1. \A r \in Resources : lock'[r] = j <=> Active(j)' /\ r \in row'[j].res
    BY <2>0, <1>1, <1>2, <1>3, <1>4 DEF Sound, Active, Running, Uncertain, RowStep
  <2>2. Touching(j)' => Active(j)'
    BY <2>0, <1>1, <1>2, <1>3, <1>4
       DEF Sound, JobInv, LaunchOver, Active, Running, Uncertain, Touching, Stray, Claimed
  <2>3. Delivered(j)'
    BY <2>0, <1>1, <1>2, <1>3, <1>4
       DEF Sound, Delivered, JobInv, Active, Running, Uncertain, Touching, Stray, Claimed
  <2>4. JobInv(j)'
    BY <2>0, <1>1, <1>2, <1>3, <1>4
       DEF Sound, JobInv, LaunchOver, Running, Terminal, Uncertain, Engine, Claimed, RowStep
  <2>. QED
    BY <2>1, <2>2, <2>3, <2>4 DEF Sound
<1>8. WatchSame(j)
  BY <1>1, <1>2, <1>3, <1>4
     DEF WatchSame, Gone, CellsTyped, LaunchOver, Terminal, RowStep
<1>. QED
  BY <1>3, <1>4, <1>5, <1>6, <1>7, <1>8, JobStep DEF RowStep

(* A failing worker is still reserved.                                     *)
LEMMA CommandFailsKeeps ==
    ASSUME WorkInv, NEW j \in Jobs, CommandFails(j) PROVE WorkInv'
<1>1. RowsTyped /\ CellsTyped /\ Sound(j)
  BY Parts
<1>2. proc[j] \in {"work", "mutate", "verify"} /\ proc' = [proc EXCEPT ![j] = "fail"]
  BY DEF CommandFails, Become
<1>3. UNCHANGED <<row, lock, sub, helper, unlabelled, target, retained, young, obs, review, web>>
  BY DEF CommandFails
<1>5. CellsTyped'
  BY <1>1, <1>2, <1>3 DEF CellsTyped, ProcStates, Live, Claimed
<1>6. \A i \in Jobs \ {j} : Same(i)
  BY <1>1, <1>2, <1>3 DEF Same, CellsTyped
<1>7. Sound(j)'
  <2>0. /\ sub'[j] = sub[j] /\ proc'[j] = "fail" /\ helper'[j] = helper[j]
        /\ target'[j] = target[j] /\ review'[j] = review[j]
    BY <1>1, <1>2, <1>3 DEF CellsTyped
  <2>1. \A r \in Resources : lock'[r] = j <=> Active(j)' /\ r \in row'[j].res
    BY <2>0, <1>1, <1>2, <1>3 DEF Sound, Active, Running, Uncertain
  <2>2. Touching(j)' => Active(j)'
    BY <2>0, <1>1, <1>2, <1>3
       DEF Sound, JobInv, LaunchOver, Active, Running, Uncertain, Touching, Stray, Claimed
  <2>3. Delivered(j)'
    BY <2>0, <1>1, <1>2, <1>3
       DEF Sound, Delivered, JobInv, Active, Running, Uncertain, Touching, Stray, Claimed
  <2>4. JobInv(j)'
    BY <2>0, <1>1, <1>2, <1>3
       DEF Sound, JobInv, LaunchOver, Running, Terminal, Uncertain, Engine, Claimed
  <2>. QED
    BY <2>1, <2>2, <2>3, <2>4 DEF Sound
<1>8. WatchSame(j)
  BY <1>1, <1>2, <1>3
     DEF WatchSame, Gone, CellsTyped, LaunchOver, Terminal
<1>9. RowsTyped'
  BY <1>1, <1>3 DEF RowsTyped
<1>. QED
  BY <1>3, <1>5, <1>6, <1>7, <1>8, <1>9, JobStep

(* An exited worker is not at work.                                        *)
LEMMA WorkerExitsKeeps ==
    ASSUME WorkInv, NEW j \in Jobs, WorkerExits(j) PROVE WorkInv'
<1>1. RowsTyped /\ CellsTyped /\ Sound(j)
  BY Parts
<1>2. proc[j] \in Live /\ proc' = [proc EXCEPT ![j] = "exited"]
  BY DEF WorkerExits, Become
<1>3. UNCHANGED <<row, lock, sub, helper, unlabelled, target, retained, young, obs, review, web>>
  BY DEF WorkerExits
<1>5. CellsTyped'
  BY <1>1, <1>2, <1>3 DEF CellsTyped, ProcStates, Live, Claimed
<1>6. \A i \in Jobs \ {j} : Same(i)
  BY <1>1, <1>2, <1>3 DEF Same, CellsTyped
<1>7. Sound(j)'
  <2>0. /\ sub'[j] = sub[j] /\ proc'[j] = "exited" /\ helper'[j] = helper[j]
        /\ unlabelled'[j] = unlabelled[j] /\ target'[j] = target[j] /\ review'[j] = review[j]
    BY <1>1, <1>2, <1>3 DEF CellsTyped
  <2>5. ~unlabelled[j]
    BY <1>1, <1>2 DEF Sound, JobInv, Live, Claimed
  <2>1. \A r \in Resources : lock'[r] = j <=> Active(j)' /\ r \in row'[j].res
    BY <2>0, <1>1, <1>2, <1>3 DEF Sound, Active, Running, Uncertain
  <2>2. Touching(j)' => Active(j)' \/ Stray(j)'
    <3>1. Touching(j)' => Touching(j)
      BY <2>0 DEF Touching, Claimed
    <3>2. ~Stray(j) /\ (Active(j)' <=> Active(j))
      BY <2>5, <1>3 DEF Stray, Active, Running, Uncertain
    <3>. QED
      BY <3>1, <3>2, <1>1 DEF Sound
  <2>3. Delivered(j)'
    BY <2>0, <1>1, <1>2, <1>3
       DEF Sound, Delivered, JobInv, Active, Running, Uncertain, Touching, Stray, Claimed
  <2>4. JobInv(j)'
    BY <2>0, <2>5, <1>1, <1>2, <1>3
       DEF Sound, JobInv, LaunchOver, Running, Terminal, Uncertain, Engine, Claimed, Live
  <2>. QED
    BY <2>1, <2>2, <2>3, <2>4 DEF Sound
<1>8. WatchSame(j)
  BY <1>1, <1>2, <1>3
     DEF WatchSame, Gone, CellsTyped, LaunchOver, Terminal, Live, Claimed
<1>9. RowsTyped'
  BY <1>1, <1>3 DEF RowsTyped
<1>. QED
  BY <1>3, <1>5, <1>6, <1>7, <1>8, <1>9, JobStep

(* Success is recorded for a complete target, without a helper.            *)
LEMMA RecordSuccessKeeps ==
    ASSUME WorkInv, NEW j \in Jobs, RecordSuccess(j) PROVE WorkInv'
<1>1. RowsTyped /\ CellsTyped /\ Sound(j)
  BY Parts
<1>2. /\ proc[j] = "commit" /\ proc' = [proc EXCEPT ![j] = "exiting"]
         /\ retained' \in [Jobs -> BOOLEAN]
  BY <1>1 DEF RecordSuccess, Become, MayDropImages, CellsTyped
<1>3. UNCHANGED <<sub, helper, unlabelled, target, young, obs, review, web>>
  BY DEF RecordSuccess
<1>4. PICK status \in {"succeeded", "failed"}, outcome \in Outcomes :
         /\ FinishJob(j, status, outcome)
         /\ status = "succeeded" /\ outcome = "verified"
  BY <1>2 DEF RecordSuccess, Outcomes
<1>5. /\ RowStep(j)
      /\ row'[j].res = row[j].res /\ row'[j].worker = row[j].worker
      /\ Running(j) => /\ row'[j].status = status /\ row'[j].outcome = outcome
                       /\ row'[j].stage \in {"completed", "awaiting_recovery"}
                       /\ \A r \in Resources : lock'[r] = j <=>
                             lock[r] = j /\ outcome = "recovery_required"
      /\ ~Running(j) => row' = row /\ lock' = lock
  BY <1>1, <1>4, FinishJobEffect
<1>6. CellsTyped'
  BY <1>1, <1>2, <1>3 DEF CellsTyped, ProcStates, Live, Claimed
<1>7. \A i \in Jobs \ {j} : Same(i)
  BY <1>1, <1>2, <1>3, <1>4, <1>5 DEF Same, CellsTyped, RowStep
<1>8. Sound(j)'
  <2>1. CASE Running(j)
    BY <2>1, <1>1, <1>2, <1>3, <1>4, <1>5
       DEF Sound, Delivered, JobInv, Active, Running, Uncertain, Touching, Stray, LaunchOver,
           Terminal, Engine, Claimed, CellsTyped, RowStep
  <2>2. CASE ~Running(j)
    <3>1. row' = row /\ lock' = lock
      BY <1>5, <2>2
    <3>. QED
      BY <3>1, <1>1, <1>2, <1>3
         DEF Sound, Delivered, JobInv, Active, Running, Uncertain, Touching, Stray, LaunchOver,
             Terminal, Engine, Claimed, CellsTyped
  <2>. QED
    BY <2>1, <2>2
<1>9. WatchSame(j)
  BY <1>1, <1>2, <1>3, <1>4, <1>5
     DEF WatchSame, Gone, CellsTyped, LaunchOver, Terminal, RowStep
<1>. QED
  BY <1>3, <1>4, <1>5, <1>6, <1>7, <1>8, <1>9, JobStep DEF RowStep

(* Retaining images is no mutation.                                        *)
LEMMA RetainImagesKeeps ==
    ASSUME WorkInv, NEW j \in Jobs, RetainImages(j) PROVE WorkInv'
<1>1. RowsTyped /\ CellsTyped /\ Sound(j)
  BY Parts
<1>0. retained' \in [Jobs -> BOOLEAN]
  <2>1. CASE retained' = [retained EXCEPT ![j] = TRUE]
    BY <1>1, <2>1 DEF CellsTyped
  <2>2. CASE UNCHANGED retained
    BY <1>1, <2>2 DEF CellsTyped
  <2>. QED
    BY <2>1, <2>2 DEF RetainImages
<1>2. PICK p \in {"work", "fail"} :
         proc[j] = "work" /\ proc' = [proc EXCEPT ![j] = p]
  BY <1>1 DEF RetainImages, Become, CellsTyped
<1>3. UNCHANGED <<lock, sub, helper, unlabelled, target, young, obs, review, web>>
  BY DEF RetainImages
<1>4. /\ RowStep(j)
      /\ row'[j].res = row[j].res /\ row'[j].worker = row[j].worker
      /\ row'[j].status = row[j].status /\ row'[j].outcome = row[j].outcome
      /\ row'[j].stage = IF Running(j) THEN "preparing" ELSE row[j].stage
  BY <1>1, <1>3, JobProgressEffect DEF RetainImages, Stages
<1>5. CellsTyped'
  BY <1>1, <1>0, <1>2, <1>3 DEF CellsTyped, ProcStates, Live, Claimed
<1>6. \A i \in Jobs \ {j} : Same(i)
  BY <1>1, <1>2, <1>3, <1>4 DEF Same, CellsTyped, RowStep
<1>7. Sound(j)'
  <2>0. /\ sub'[j] = sub[j] /\ proc'[j] = p /\ helper'[j] = helper[j]
        /\ target'[j] = target[j] /\ review'[j] = review[j]
    BY <1>1, <1>2, <1>3 DEF CellsTyped
  <2>1. \A r \in Resources : lock'[r] = j <=> Active(j)' /\ r \in row'[j].res
    BY <2>0, <1>1, <1>2, <1>3, <1>4 DEF Sound, Active, Running, Uncertain, RowStep
  <2>2. Touching(j)' => Active(j)'
    BY <2>0, <1>1, <1>2, <1>3, <1>4
       DEF Sound, JobInv, LaunchOver, Active, Running, Uncertain, Touching, Stray, Claimed
  <2>3. Delivered(j)'
    BY <2>0, <1>1, <1>2, <1>3, <1>4
       DEF Sound, Delivered, JobInv, Active, Running, Uncertain, Touching, Stray, Claimed
  <2>4. JobInv(j)'
    BY <2>0, <1>1, <1>2, <1>3, <1>4
       DEF Sound, JobInv, LaunchOver, Running, Terminal, Uncertain, Engine, Claimed, RowStep
  <2>. QED
    BY <2>1, <2>2, <2>3, <2>4 DEF Sound
<1>8. WatchSame(j)
  BY <1>1, <1>2, <1>3, <1>4
     DEF WatchSame, Gone, CellsTyped, LaunchOver, Terminal, RowStep
<1>. QED
  BY <1>3, <1>4, <1>5, <1>6, <1>7, <1>8, JobStep DEF RowStep

(* A worker that could not commit keeps its reservation.                   *)
LEMMA CommitFailsKeeps ==
    ASSUME WorkInv, NEW j \in Jobs, CommitFails(j) PROVE WorkInv'
<1>1. RowsTyped /\ CellsTyped /\ Sound(j)
  BY Parts
<1>2. proc[j] = "commit" /\ proc' = [proc EXCEPT ![j] = "fail"]
  BY DEF CommitFails, Become
<1>3. UNCHANGED <<row, lock, sub, helper, unlabelled, target, retained, young, obs, review, web>>
  BY DEF CommitFails
<1>5. CellsTyped'
  BY <1>1, <1>2, <1>3 DEF CellsTyped, ProcStates, Live, Claimed
<1>6. \A i \in Jobs \ {j} : Same(i)
  BY <1>1, <1>2, <1>3 DEF Same, CellsTyped
<1>7. Sound(j)'
  <2>0. /\ sub'[j] = sub[j] /\ proc'[j] = "fail" /\ helper'[j] = helper[j]
        /\ target'[j] = target[j] /\ review'[j] = review[j]
    BY <1>1, <1>2, <1>3 DEF CellsTyped
  <2>1. \A r \in Resources : lock'[r] = j <=> Active(j)' /\ r \in row'[j].res
    BY <2>0, <1>1, <1>2, <1>3 DEF Sound, Active, Running, Uncertain
  <2>2. Touching(j)' => Active(j)'
    BY <2>0, <1>1, <1>2, <1>3
       DEF Sound, JobInv, LaunchOver, Active, Running, Uncertain, Touching, Stray, Claimed
  <2>3. Delivered(j)'
    BY <2>0, <1>1, <1>2, <1>3
       DEF Sound, Delivered, JobInv, Active, Running, Uncertain, Touching, Stray, Claimed
  <2>4. JobInv(j)'
    BY <2>0, <1>1, <1>2, <1>3
       DEF Sound, JobInv, LaunchOver, Running, Terminal, Uncertain, Engine, Claimed
  <2>. QED
    BY <2>1, <2>2, <2>3, <2>4 DEF Sound
<1>8. WatchSame(j)
  BY <1>1, <1>2, <1>3
     DEF WatchSame, Gone, CellsTyped, LaunchOver, Terminal
<1>9. RowsTyped'
  BY <1>1, <1>3 DEF RowsTyped
<1>. QED
  BY <1>3, <1>5, <1>6, <1>7, <1>8, <1>9, JobStep

(* A worker that changed nothing reports nothing delivered.                *)
LEMMA RecordUnchangedKeeps ==
    ASSUME WorkInv, NEW j \in Jobs, RecordUnchanged(j) PROVE WorkInv'
<1>1. RowsTyped /\ CellsTyped /\ Sound(j)
  BY Parts
<1>2. /\ proc[j] = "work" /\ proc' = [proc EXCEPT ![j] = "exiting"]
         /\ retained' \in [Jobs -> BOOLEAN]
  BY <1>1 DEF RecordUnchanged, Become, MayDropImages, CellsTyped
<1>3. UNCHANGED <<sub, helper, unlabelled, target, young, obs, review, web>>
  BY DEF RecordUnchanged
<1>4. PICK status \in {"succeeded", "failed"}, outcome \in Outcomes :
         /\ FinishJob(j, status, outcome)
         /\ status = "succeeded" /\ outcome = "unchanged"
  BY <1>2 DEF RecordUnchanged, Outcomes
<1>5. /\ RowStep(j)
      /\ row'[j].res = row[j].res /\ row'[j].worker = row[j].worker
      /\ Running(j) => /\ row'[j].status = status /\ row'[j].outcome = outcome
                       /\ row'[j].stage \in {"completed", "awaiting_recovery"}
                       /\ \A r \in Resources : lock'[r] = j <=>
                             lock[r] = j /\ outcome = "recovery_required"
      /\ ~Running(j) => row' = row /\ lock' = lock
  BY <1>1, <1>4, FinishJobEffect
<1>6. CellsTyped'
  BY <1>1, <1>2, <1>3 DEF CellsTyped, ProcStates, Live, Claimed
<1>7. \A i \in Jobs \ {j} : Same(i)
  BY <1>1, <1>2, <1>3, <1>4, <1>5 DEF Same, CellsTyped, RowStep
<1>8. Sound(j)'
  <2>1. CASE Running(j)
    BY <2>1, <1>1, <1>2, <1>3, <1>4, <1>5
       DEF Sound, Delivered, JobInv, Active, Running, Uncertain, Touching, Stray, LaunchOver,
           Terminal, Engine, Claimed, CellsTyped, RowStep
  <2>2. CASE ~Running(j)
    <3>1. row' = row /\ lock' = lock
      BY <1>5, <2>2
    <3>. QED
      BY <3>1, <1>1, <1>2, <1>3
         DEF Sound, Delivered, JobInv, Active, Running, Uncertain, Touching, Stray, LaunchOver,
             Terminal, Engine, Claimed, CellsTyped
  <2>. QED
    BY <2>1, <2>2
<1>9. WatchSame(j)
  BY <1>1, <1>2, <1>3, <1>4, <1>5
     DEF WatchSame, Gone, CellsTyped, LaunchOver, Terminal, RowStep
<1>. QED
  BY <1>3, <1>4, <1>5, <1>6, <1>7, <1>8, <1>9, JobStep DEF RowStep

(* A partly done group is a failure.                                       *)
LEMMA RecordPartialKeeps ==
    ASSUME WorkInv, NEW j \in Jobs, RecordPartial(j) PROVE WorkInv'
<1>1. RowsTyped /\ CellsTyped /\ Sound(j)
  BY Parts
<1>2. /\ proc[j] = "commit" /\ proc' = [proc EXCEPT ![j] = "exiting"]
         /\ retained' \in [Jobs -> BOOLEAN]
  BY <1>1 DEF RecordPartial, Become, CellsTyped
<1>3. UNCHANGED <<sub, helper, unlabelled, target, young, obs, review, web>>
  BY DEF RecordPartial
<1>4. PICK status \in {"succeeded", "failed"}, outcome \in Outcomes :
         /\ FinishJob(j, status, outcome)
         /\ status = "failed" /\ outcome \in {"failed", "recovery_required"}
  BY <1>2 DEF RecordPartial, Outcomes
<1>5. /\ RowStep(j)
      /\ row'[j].res = row[j].res /\ row'[j].worker = row[j].worker
      /\ Running(j) => /\ row'[j].status = status /\ row'[j].outcome = outcome
                       /\ row'[j].stage \in {"completed", "awaiting_recovery"}
                       /\ \A r \in Resources : lock'[r] = j <=>
                             lock[r] = j /\ outcome = "recovery_required"
      /\ ~Running(j) => row' = row /\ lock' = lock
  BY <1>1, <1>4, FinishJobEffect
<1>6. CellsTyped'
  BY <1>1, <1>2, <1>3 DEF CellsTyped, ProcStates, Live, Claimed
<1>7. \A i \in Jobs \ {j} : Same(i)
  BY <1>1, <1>2, <1>3, <1>4, <1>5 DEF Same, CellsTyped, RowStep
<1>8. Sound(j)'
  <2>1. CASE Running(j)
    BY <2>1, <1>1, <1>2, <1>3, <1>4, <1>5
       DEF Sound, Delivered, JobInv, Active, Running, Uncertain, Touching, Stray, LaunchOver,
           Terminal, Engine, Claimed, CellsTyped, RowStep
  <2>2. CASE ~Running(j)
    <3>1. row' = row /\ lock' = lock
      BY <1>5, <2>2
    <3>. QED
      BY <3>1, <1>1, <1>2, <1>3
         DEF Sound, Delivered, JobInv, Active, Running, Uncertain, Touching, Stray, LaunchOver,
             Terminal, Engine, Claimed, CellsTyped
  <2>. QED
    BY <2>1, <2>2
<1>9. WatchSame(j)
  BY <1>1, <1>2, <1>3, <1>4, <1>5
     DEF WatchSame, Gone, CellsTyped, LaunchOver, Terminal, RowStep
<1>. QED
  BY <1>3, <1>4, <1>5, <1>6, <1>7, <1>8, <1>9, JobStep DEF RowStep

(* A failing worker may be at stage 'committing'.                          *)
LEMMA SaveFailureKeeps ==
    ASSUME WorkInv, NEW j \in Jobs, SaveFailure(j) PROVE WorkInv'
<1>1. RowsTyped /\ CellsTyped /\ Sound(j)
  BY Parts
<1>2. PICK p \in {"fail", "exiting"} :
         proc[j] = "fail" /\ proc' = [proc EXCEPT ![j] = p]
  BY <1>1 DEF SaveFailure, Become
<1>3. UNCHANGED <<lock, sub, helper, unlabelled, target, retained, young, obs, review, web>>
  BY DEF SaveFailure
<1>4. /\ RowStep(j)
      /\ row'[j].res = row[j].res /\ row'[j].worker = row[j].worker
      /\ row'[j].status = row[j].status /\ row'[j].outcome = row[j].outcome
      /\ row'[j].stage = IF Running(j) THEN "committing" ELSE row[j].stage
  BY <1>1, <1>3, JobProgressEffect DEF SaveFailure, Stages
<1>5. CellsTyped'
  BY <1>1, <1>2, <1>3 DEF CellsTyped, ProcStates, Live, Claimed
<1>6. \A i \in Jobs \ {j} : Same(i)
  BY <1>1, <1>2, <1>3, <1>4 DEF Same, CellsTyped, RowStep
<1>7. Sound(j)'
  <2>0. /\ sub'[j] = sub[j] /\ proc'[j] = p /\ helper'[j] = helper[j]
        /\ target'[j] = target[j] /\ review'[j] = review[j]
    BY <1>1, <1>2, <1>3 DEF CellsTyped
  <2>1. \A r \in Resources : lock'[r] = j <=> Active(j)' /\ r \in row'[j].res
    BY <2>0, <1>1, <1>2, <1>3, <1>4 DEF Sound, Active, Running, Uncertain, RowStep
  <2>2. Touching(j)' => Active(j)'
    BY <2>0, <1>1, <1>2, <1>3, <1>4
       DEF Sound, JobInv, LaunchOver, Active, Running, Uncertain, Touching, Stray, Claimed
  <2>3. Delivered(j)'
    BY <2>0, <1>1, <1>2, <1>3, <1>4
       DEF Sound, Delivered, JobInv, Active, Running, Uncertain, Touching, Stray, Claimed
  <2>4. JobInv(j)'
    BY <2>0, <1>1, <1>2, <1>3, <1>4
       DEF Sound, JobInv, LaunchOver, Running, Terminal, Uncertain, Engine, Claimed, RowStep
  <2>. QED
    BY <2>1, <2>2, <2>3, <2>4 DEF Sound
<1>8. WatchSame(j)
  BY <1>1, <1>2, <1>3, <1>4
     DEF WatchSame, Gone, CellsTyped, LaunchOver, Terminal, RowStep
<1>. QED
  BY <1>3, <1>4, <1>5, <1>6, <1>7, <1>8, JobStep DEF RowStep

(* A rolling-back worker is reserved, so its row is no success.            *)
LEMMA RollBackKeeps == ASSUME WorkInv, NEW j \in Jobs, RollBack(j) PROVE WorkInv'
<1>1. RowsTyped /\ CellsTyped /\ Sound(j)
  BY Parts
<1>2. PICK t \in {"untouched", "partial"} :
         /\ proc[j] = "fail" /\ target' = [target EXCEPT ![j] = t]
         /\ retained' \in [Jobs -> BOOLEAN]
  BY <1>1 DEF RollBack, CellsTyped
<1>3. UNCHANGED <<lock, sub, proc, helper, unlabelled, young, obs, review, web>>
  BY DEF RollBack
<1>4. /\ RowStep(j)
      /\ row'[j].res = row[j].res /\ row'[j].worker = row[j].worker
      /\ row'[j].status = row[j].status /\ row'[j].outcome = row[j].outcome
      /\ row'[j].stage = IF Running(j) THEN "rolling_back" ELSE row[j].stage
  BY <1>1, <1>3, JobProgressEffect DEF RollBack, Stages
<1>5. CellsTyped'
  BY <1>1, <1>2, <1>3 DEF CellsTyped
<1>6. \A i \in Jobs \ {j} : Same(i)
  BY <1>1, <1>2, <1>3, <1>4 DEF Same, CellsTyped, RowStep
<1>7. Sound(j)'
  <2>0. /\ sub'[j] = sub[j] /\ proc'[j] = proc[j] /\ helper'[j] = helper[j]
        /\ target'[j] = t /\ review'[j] = review[j]
    BY <1>1, <1>2, <1>3 DEF CellsTyped
  <2>1. \A r \in Resources : lock'[r] = j <=> Active(j)' /\ r \in row'[j].res
    BY <2>0, <1>1, <1>2, <1>3, <1>4 DEF Sound, Active, Running, Uncertain, RowStep
  <2>2. Touching(j)' => Active(j)'
    BY <2>0, <1>1, <1>2, <1>3, <1>4
       DEF Sound, JobInv, LaunchOver, Active, Running, Uncertain, Touching, Stray, Claimed
  <2>3. Delivered(j)'
    BY <2>0, <1>1, <1>2, <1>3, <1>4
       DEF Sound, Delivered, JobInv, Active, Running, Uncertain, Touching, Stray, Claimed
  <2>4. JobInv(j)'
    BY <2>0, <1>1, <1>2, <1>3, <1>4
       DEF Sound, JobInv, LaunchOver, Running, Terminal, Uncertain, Engine, Claimed, RowStep
  <2>. QED
    BY <2>1, <2>2, <2>3, <2>4 DEF Sound
<1>8. WatchSame(j)
  BY <1>1, <1>2, <1>3, <1>4
     DEF WatchSame, Gone, CellsTyped, LaunchOver, Terminal, RowStep
<1>. QED
  BY <1>3, <1>4, <1>5, <1>6, <1>7, <1>8, JobStep DEF RowStep

(* The reservation is freed only when no helper runs.                      *)
LEMMA RecordFailureKeeps ==
    ASSUME WorkInv, NEW j \in Jobs, RecordFailure(j) PROVE WorkInv'
<1>1. RowsTyped /\ CellsTyped /\ Sound(j)
  BY Parts
<1>2. /\ proc[j] = "fail" /\ proc' = [proc EXCEPT ![j] = "exiting"]
         /\ retained' \in [Jobs -> BOOLEAN]
  BY <1>1 DEF RecordFailure, Become, MayDropImages, CellsTyped
<1>3. UNCHANGED <<sub, helper, unlabelled, target, young, obs, review, web>>
  BY DEF RecordFailure
<1>4. PICK status \in {"succeeded", "failed"}, outcome \in Outcomes :
         /\ FinishJob(j, status, outcome)
         /\ status = "failed" /\ outcome \in {"failed", "recovery_required"}
         /\ helper[j] => outcome = "recovery_required"
  BY <1>2 DEF RecordFailure, Outcomes
<1>5. /\ RowStep(j)
      /\ row'[j].res = row[j].res /\ row'[j].worker = row[j].worker
      /\ Running(j) => /\ row'[j].status = status /\ row'[j].outcome = outcome
                       /\ row'[j].stage \in {"completed", "awaiting_recovery"}
                       /\ \A r \in Resources : lock'[r] = j <=>
                             lock[r] = j /\ outcome = "recovery_required"
      /\ ~Running(j) => row' = row /\ lock' = lock
  BY <1>1, <1>4, FinishJobEffect
<1>6. CellsTyped'
  BY <1>1, <1>2, <1>3 DEF CellsTyped, ProcStates, Live, Claimed
<1>7. \A i \in Jobs \ {j} : Same(i)
  BY <1>1, <1>2, <1>3, <1>4, <1>5 DEF Same, CellsTyped, RowStep
<1>8. Sound(j)'
  <2>1. CASE Running(j)
    BY <2>1, <1>1, <1>2, <1>3, <1>4, <1>5
       DEF Sound, Delivered, JobInv, Active, Running, Uncertain, Touching, Stray, LaunchOver,
           Terminal, Engine, Claimed, CellsTyped, RowStep
  <2>2. CASE ~Running(j)
    <3>1. row' = row /\ lock' = lock
      BY <1>5, <2>2
    <3>. QED
      BY <3>1, <1>1, <1>2, <1>3
         DEF Sound, Delivered, JobInv, Active, Running, Uncertain, Touching, Stray, LaunchOver,
             Terminal, Engine, Claimed, CellsTyped
  <2>. QED
    BY <2>1, <2>2
<1>9. WatchSame(j)
  BY <1>1, <1>2, <1>3, <1>4, <1>5
     DEF WatchSame, Gone, CellsTyped, LaunchOver, Terminal, RowStep
<1>. QED
  BY <1>3, <1>4, <1>5, <1>6, <1>7, <1>8, <1>9, JobStep DEF RowStep

(* RetargetJob adds one free resource to row and reservation together, or  *)
(* sends the worker into its failure path.                                 *)
LEMMA RetargetJobKeeps ==
    ASSUME WorkInv, NEW j \in Jobs, NEW r \in Resources, RetargetJob(j, r) PROVE WorkInv'
<1>1. RowsTyped /\ CellsTyped /\ Sound(j)
  BY Parts
<1>2. UNCHANGED <<sub, helper, unlabelled, target, retained, young, obs, review, web>>
  BY DEF RetargetJob
<1>3. PICK p \in {"mutate", "fail"} : proc[j] = "mutate" /\ proc' = [proc EXCEPT ![j] = p]
  BY <1>1 DEF RetargetJob, Become, CellsTyped
<1>4. /\ RowStep(j)
      /\ row'[j].worker = row[j].worker /\ row'[j].status = row[j].status
      /\ row'[j].outcome = row[j].outcome /\ row'[j].stage = row[j].stage
      /\ \/ row'[j].res = row[j].res /\ lock' = lock
         \/ /\ row'[j].res = row[j].res \cup {r} /\ Running(j)
            /\ \A q \in Resources : lock'[q] = j <=> lock[q] = j \/ q = r
  <2>1. CASE UNCHANGED <<row, lock>>
    BY <1>1, <2>1 DEF RowsTyped, RowStep
  <2>2. CASE /\ Running(j) /\ lock[r] \in {NoJob, j}
             /\ lock' = [lock EXCEPT ![r] = j]
             /\ row' = [row EXCEPT ![j].res = @ \cup {r}]
    <3>. DEFINE new == [row[j] EXCEPT !.res = @ \cup {r}]
    <3>1. row[j] \in Row /\ row' = [row EXCEPT ![j] = new]
      BY <1>1, <2>2 DEF RowsTyped
    <3>2. /\ new \in Row /\ new.status = row[j].status /\ new.outcome = row[j].outcome
          /\ new.stage = row[j].stage /\ new.route = row[j].route
          /\ new.res = row[j].res \cup {r} /\ new.worker = row[j].worker
      BY <3>1 DEF Row
    <3>. HIDE DEF new
    <3>3. /\ row'[j] = new /\ row' \in [Jobs -> Row]
          /\ \A i \in Jobs \ {j} : row'[i] = row[i]
      BY <1>1, <3>1, <3>2 DEF RowsTyped
    <3>4. /\ lock' \in [Resources -> Jobs \cup {NoJob}]
          /\ \A q \in Resources : lock'[q] = j <=> lock[q] = j \/ q = r
          /\ \A i \in Jobs \ {j}, q \in Resources : lock'[q] = i <=> lock[q] = i
      BY <1>1, <2>2, ConstantsAssumption DEF RowsTyped
    <3>. QED
      BY <2>2, <3>2, <3>3, <3>4 DEF RowsTyped, RowStep
  <2>. QED
    BY <2>1, <2>2 DEF RetargetJob
<1>5. CellsTyped'
  BY <1>1, <1>2, <1>3 DEF CellsTyped, ProcStates, Live, Claimed
<1>6. \A i \in Jobs \ {j} : Same(i)
  BY <1>1, <1>2, <1>3, <1>4 DEF Same, CellsTyped, RowStep
<1>7. Sound(j)'
  <2>1. proc'[j] = p
    BY <1>1, <1>3 DEF CellsTyped
  <2>2. \A q \in Resources : lock'[q] = j <=> Active(j)' /\ q \in row'[j].res
    BY <1>1, <1>4 DEF Sound, Active, Running, Uncertain
  <2>3. Touching(j)' => Active(j)'
    BY <1>1, <1>2, <1>3, <1>4, <2>1
       DEF Sound, JobInv, Active, Running, Uncertain, Touching, Stray, Claimed
  <2>4. Delivered(j)'
    BY <1>1, <1>2, <1>4 DEF Sound, Delivered
  <2>5. JobInv(j)'
    BY <1>1, <1>2, <1>3, <1>4, <2>1
       DEF Sound, JobInv, LaunchOver, Running, Terminal, Uncertain, Engine, Claimed, RowStep
  <2>. QED
    BY <2>2, <2>3, <2>4, <2>5 DEF Sound
<1>8. WatchSame(j)
  BY <1>1, <1>2, <1>3, <1>4 DEF WatchSame, Gone, CellsTyped, LaunchOver, Terminal, RowStep
<1>. QED
  BY <1>2, <1>4, <1>5, <1>6, <1>7, <1>8, JobStep DEF RowStep

(* The grace period is not part of the invariant.                          *)
LEMMA GraceExpiresKeeps ==
    ASSUME WorkInv, NEW j \in Jobs, GraceExpires(j) PROVE WorkInv'
<1>1. RowsTyped /\ CellsTyped /\ Sound(j)
  BY Parts
<1>2. young' = [young EXCEPT ![j] = FALSE]
  BY DEF GraceExpires
<1>3. UNCHANGED <<row, lock, sub, proc, helper, unlabelled, target, retained, obs, review, web>>
  BY DEF GraceExpires
<1>5. CellsTyped'
  BY <1>1, <1>2, <1>3 DEF CellsTyped
<1>6. \A i \in Jobs \ {j} : Same(i)
  BY <1>1, <1>2, <1>3 DEF Same, CellsTyped
<1>7. Sound(j)'
  BY ZenonT(40), <1>1, <1>2, <1>3
     DEF Sound, Delivered, JobInv, Active, Running, Uncertain, Touching, Stray, LaunchOver,
         Terminal, Engine, Claimed, CellsTyped
<1>8. WatchSame(j)
  BY <1>1, <1>2, <1>3
     DEF WatchSame, Gone, CellsTyped, LaunchOver, Terminal
<1>9. RowsTyped'
  BY <1>1, <1>3 DEF RowsTyped
<1>. QED
  BY <1>3, <1>5, <1>6, <1>7, <1>8, <1>9, JobStep

(* An admitted job has its whole scope, and nobody watches a row that does *)
(* not exist.                                                              *)
LEMMA CreateJobKeeps ==
    ASSUME WorkInv, NEW j \in Jobs, NEW route \in RouteNames, NEW R \in SUBSET Resources,
           CreateJob(j, route, R)
    PROVE  WorkInv'
<1>1. RowsTyped /\ CellsTyped /\ Sound(j)
  BY Parts
<1>2. UNCHANGED <<proc, helper, unlabelled, target, retained, obs, review, web>>
  BY DEF CreateJob
<1>3. PICK s \in {"admitted", "register"} :
         /\ web /\ row[j].status = "none" /\ sub' = [sub EXCEPT ![j] = s]
         /\ young' = [young EXCEPT ![j] = TRUE]
         /\ s = "admitted" => route \in {"direct", "restart"}
  BY DEF CreateJob, Goto
<1>4. /\ row' \in [Jobs -> Row] /\ \A i \in Jobs \ {j} : row'[i] = row[i]
      /\ row'[j].status = "running" /\ row'[j].stage = "queued" /\ row'[j].outcome = ""
      /\ row'[j].route = route /\ row'[j].res = R /\ row'[j].worker = ""
  <2>. DEFINE new == NewJob(route, R)
  <2>1. /\ new \in Row /\ new.status = "running" /\ new.stage = "queued"
        /\ new.outcome = "" /\ new.route = route /\ new.res = R /\ new.worker = ""
    BY DEF NewJob, Row, Stages, Outcomes
  <2>2. row' = [row EXCEPT ![j] = new]
    BY DEF CreateJob
  <2>. HIDE DEF new
  <2>. QED
    BY <1>1, <2>1, <2>2 DEF RowsTyped
<1>5. /\ lock' \in [Resources -> Jobs \cup {NoJob}]
      /\ \A r \in Resources : lock'[r] = j <=> r \in R
      /\ \A i \in Jobs \ {j}, r \in Resources : lock'[r] = i <=> lock[r] = i
  <2>1. \A r \in Resources : lock[r] # j
    BY <1>1, <1>3 DEF Sound, JobInv, Active, Running, Uncertain
  <2>2. /\ lock' = [r \in Resources |-> IF r \in R THEN j ELSE lock[r]]
        /\ \A r \in R : lock[r] = NoJob
    BY DEF CreateJob
  <2>. QED
    BY <1>1, <2>1, <2>2, ConstantsAssumption DEF RowsTyped
<1>6. RowsTyped' /\ CellsTyped'
  BY <1>1, <1>2, <1>3, <1>4, <1>5 DEF RowsTyped, CellsTyped, SubStates
<1>7. \A i \in Jobs \ {j} : Same(i)
  BY ZenonT(40), <1>1, <1>2, <1>3, <1>4, <1>5 DEF Same, CellsTyped
<1>8. Sound(j)'
  <2>1. /\ sub[j] = "idle" /\ sub'[j] = s /\ proc'[j] = "absent" /\ ~helper'[j]
        /\ review'[j] = "no" /\ web'
    BY <1>1, <1>2, <1>3 DEF Sound, JobInv, CellsTyped, LaunchOver, Terminal
  <2>5. ~unlabelled'[j]
    BY <1>1, <1>2, <1>3 DEF Sound, JobInv
  <2>2. \A r \in Resources : lock'[r] = j <=> Active(j)' /\ r \in row'[j].res
    BY <1>4, <1>5 DEF Active, Running
  <2>3. ~Touching(j)'
    BY <2>1, <2>5 DEF Touching, Claimed
  <2>4. JobInv(j)'
    BY <1>3, <1>4, <2>1, <2>5 DEF JobInv, Running, Uncertain, LaunchOver, Terminal, Engine
  <2>. QED
    BY <1>4, <2>2, <2>3, <2>4 DEF Sound, Delivered
<1>9. WatchSame(j)
  BY <1>3 DEF WatchSame
<1>. QED
  BY <1>2, <1>6, <1>7, <1>8, <1>9, JobStep

----------------------------------------------------------------------------
(* Stops and starts of the web process.                                    *)

\* The goroutines and reviews of the web process are gone.
Stopped ==
    /\ web' = FALSE
    /\ sub' = [i \in Jobs |-> IF sub[i] = "idle" THEN "idle" ELSE "done"]
    /\ obs' = [o \in Observers |-> Idle]
    /\ review' = [i \in Jobs |-> "no"]

(* A stop leaves every job sound, even when a worker changes a target in   *)
(* the same step.                                                          *)
LEMMA StoppedKeeps ==
    ASSUME WorkInv, Stopped, UNCHANGED <<row, lock, proc, helper, unlabelled, retained, young>>,
           target' \in [Jobs -> {"untouched", "partial", "complete"}],
           \A i \in Jobs : target'[i] # target[i] => proc[i] = "mutate"
    PROVE  WorkInv'
<1>1. RowsTyped /\ CellsTyped /\ \A i \in Jobs : Sound(i)
  BY Parts
<1>2. RowsTyped' /\ CellsTyped'
  BY <1>1 DEF RowsTyped, CellsTyped, Stopped, SubStates
<1>3. NoSnap \in Snapshot
  BY DEF NoSnap, Snapshot, Outcomes
<1>4. ObsTyped' /\ \A o \in Observers : ObserverInv(o)'
  BY <1>3 DEF ObsTyped, Stopped, ObserverInv, Idle, ObsStates
<1>5. ASSUME NEW i \in Jobs PROVE Sound(i)'
  <2>1. /\ row'[i] = row[i] /\ lock' = lock /\ proc'[i] = proc[i] /\ helper'[i] = helper[i]
        /\ unlabelled'[i] = unlabelled[i]
        /\ sub'[i] = IF sub[i] = "idle" THEN "idle" ELSE "done"
        /\ review'[i] = "no" /\ Sound(i)
        /\ target'[i] # target[i] => proc[i] = "mutate"
    BY <1>1 DEF Stopped
  <2>2. Touching(i)' => Active(i)' \/ Stray(i)'
    BY <2>1 DEF Sound, Touching, Stray, Active, Running, Uncertain
  <2>3. Delivered(i)'
    BY <2>1 DEF Sound, Delivered, JobInv, Touching, Stray, Active, Running, Uncertain, Claimed
  <2>4. JobInv(i)'
    BY <2>1 DEF Sound, JobInv, Running, Uncertain, LaunchOver, Terminal
  <2>5. \A r \in Resources : lock'[r] = i <=> Active(i)' /\ r \in row'[i].res
    BY <2>1 DEF Sound, Active, Running, Uncertain
  <2>. QED
    BY <2>2, <2>3, <2>4, <2>5 DEF Sound
<1>. QED
  BY <1>2, <1>4, <1>5, Parts

(* A stop only ends goroutines.                                            *)
LEMMA WebStopsKeeps == ASSUME WorkInv, WebStops PROVE WorkInv'
<1>1. CellsTyped
  BY Parts
<1>2. /\ UNCHANGED <<row, lock, proc, helper, unlabelled, retained, young>> /\ Stopped
      /\ target' \in [Jobs -> {"untouched", "partial", "complete"}] /\ target' = target
  BY <1>1 DEF WebStops, Stopped, CellsTyped
<1>. QED
  BY <1>2, StoppedKeeps

(* A claimed worker changes a reserved target; a restart stops Yard.       *)
LEMMA MutateKeeps == ASSUME WorkInv, NEW j \in Jobs, Mutate(j) PROVE WorkInv'
<1>1. RowsTyped /\ CellsTyped /\ Sound(j)
  BY Parts
<1>2. PICK t \in {"partial", "complete"} :
         proc[j] = "mutate" /\ target' = [target EXCEPT ![j] = t]
  BY DEF Mutate
<1>3. UNCHANGED <<row, lock, proc, helper, unlabelled, retained, young>>
  BY DEF Mutate
<1>4. target' \in [Jobs -> {"untouched", "partial", "complete"}]
  BY <1>1, <1>2 DEF CellsTyped
<1>5. CASE row[j].route = "restart"
  <2>1. Stopped
    BY <1>5 DEF Mutate, Stopped
  <2>2. \A i \in Jobs : target'[i] # target[i] => proc[i] = "mutate"
    BY <1>1, <1>2 DEF CellsTyped
  <2>. QED
    BY <1>3, <1>4, <2>1, <2>2, StoppedKeeps
<1>6. CASE UNCHANGED <<web, sub, obs, review>>
  <2>1. RowsTyped' /\ CellsTyped'
    BY <1>1, <1>3, <1>4, <1>6 DEF RowsTyped, CellsTyped
  <2>2. \A i \in Jobs \ {j} : Same(i)
    BY <1>1, <1>2, <1>3, <1>6 DEF Same, CellsTyped
  <2>3. Sound(j)'
    BY <1>1, <1>2, <1>3, <1>6
       DEF Sound, Delivered, JobInv, Active, Running, Uncertain, Touching, Stray, LaunchOver, Terminal,
           Engine, Claimed
  <2>4. WatchSame(j)
    BY <1>1, <1>2, <1>3, <1>6 DEF WatchSame, Gone, LaunchOver, Terminal
  <2>. QED
    BY <1>6, <2>1, <2>2, <2>3, <2>4, JobStep
<1>. QED
  BY <1>5, <1>6 DEF Mutate

(* Startup makes abandoned direct jobs uncertain: they keep their          *)
(* reservations, and no observer watches them.                             *)
LEMMA WebStartsKeeps == ASSUME WorkInv, WebStarts PROVE WorkInv'
<1>1. /\ RowsTyped /\ CellsTyped /\ ObsTyped
      /\ \A i \in Jobs : Sound(i)
      /\ \A o \in Observers : ObserverInv(o)
  BY Parts
<1>2. /\ ~web /\ web' = TRUE
      /\ UNCHANGED <<lock, sub, proc, helper, unlabelled, target, retained, young, obs, review>>
  BY DEF WebStarts
<1>3. ASSUME NEW i \in Jobs
      PROVE  /\ row'[i] \in Row
             /\ ~Abandoned(i) => row'[i] = row[i]
             /\ Abandoned(i) => /\ row'[i].status = "failed"
                                /\ row'[i].outcome = "recovery_required"
                                /\ row'[i].stage = "awaiting_recovery"
                                /\ row'[i].res = row[i].res
                                /\ row'[i].route = row[i].route
                                /\ row'[i].worker = row[i].worker
  <2>. DEFINE new == [row[i] EXCEPT !.status = "failed", !.stage = "awaiting_recovery",
                                    !.outcome = "recovery_required"]
  <2>1. row[i] \in Row /\ row'[i] = IF Abandoned(i) THEN new ELSE row[i]
    BY <1>1 DEF RowsTyped, WebStarts
  <2>2. /\ new \in Row /\ new.status = "failed" /\ new.outcome = "recovery_required"
        /\ new.stage = "awaiting_recovery" /\ new.res = row[i].res
        /\ new.route = row[i].route /\ new.worker = row[i].worker
    BY <2>1 DEF Row, Stages, Outcomes
  <2>. HIDE DEF new
  <2>. QED
    BY <2>1, <2>2
<1>4. RowsTyped' /\ CellsTyped' /\ ObsTyped'
  <2>1. row' \in [Jobs -> Row]
    <3>1. row' = [i \in Jobs |-> row'[i]]
      BY DEF WebStarts
    <3>. QED
      BY <1>3, <3>1
  <2>. QED
    BY <1>1, <1>2, <2>1 DEF RowsTyped, CellsTyped, ObsTyped
<1>5. ASSUME NEW i \in Jobs PROVE Sound(i)'
  <2>1. CASE Abandoned(i)
    <3>1. /\ row'[i].status = "failed" /\ row'[i].outcome = "recovery_required"
          /\ row'[i].stage = "awaiting_recovery" /\ row'[i].res = row[i].res
          /\ row'[i].route = row[i].route /\ row'[i].worker = row[i].worker
          /\ Running(i) /\ Sound(i)
      BY <1>1, <1>3, <2>1 DEF Abandoned
    <3>2. \A r \in Resources : lock'[r] = i <=> Active(i)' /\ r \in row'[i].res
      BY <1>2, <3>1 DEF Sound, Active, Uncertain
    <3>3. JobInv(i)'
      BY <1>2, <3>1 DEF Sound, JobInv, Running, Uncertain, LaunchOver, Terminal
    <3>. QED
      BY <3>1, <3>2, <3>3 DEF Sound, Delivered, Active, Uncertain
  <2>2. CASE ~Abandoned(i)
    <3>1. row'[i] = row[i] /\ Sound(i)
      BY <1>1, <1>3, <2>2
    <3>2. JobInv(i)'
      BY <1>2, <3>1 DEF Sound, JobInv, Running, Uncertain, LaunchOver, Terminal
    <3>. QED
      BY <1>2, <3>1, <3>2 DEF Sound, Delivered, Active, Running, Uncertain, Touching, Stray
  <2>. QED
    BY <2>1, <2>2
<1>6. ASSUME NEW o \in Observers PROVE ObserverInv(o)'
  <2>1. CASE obs[o].pc = "idle"
    BY <1>2, <2>1 DEF ObserverInv
  <2>2. CASE obs[o].pc # "idle"
    <3>1. ObserverInv(o) /\ obs[o].job \in Jobs /\ ~Abandoned(obs[o].job)
      BY <1>1, <2>2 DEF ObserverInv, Abandoned
    <3>2. Same(obs[o].job)
      BY <1>2, <1>3, <3>1 DEF Same
    <3>. QED
      BY <1>2, <3>1, <3>2, SameWatched
  <2>. QED
    BY <2>1, <2>2
<1>. QED
  BY <1>4, <1>5, <1>6, Parts

----------------------------------------------------------------------------
(* Host review.                                                            *)

(* A review begins when worker and helpers are gone.                       *)
LEMMA InspectForReviewKeeps ==
    ASSUME WorkInv, NEW j \in Jobs, InspectForReview(j) PROVE WorkInv'
<1>1. RowsTyped /\ CellsTyped /\ Sound(j)
  BY Parts
<1>2. /\ Uncertain(j) /\ ~Alive(j)
      /\ review' = [review EXCEPT ![j] = "inspected"]
  BY DEF InspectForReview
<1>3. UNCHANGED <<row, lock, sub, proc, helper, unlabelled, target, retained, young, obs, web>>
  BY DEF InspectForReview
<1>5. CellsTyped'
  BY <1>1, <1>2, <1>3 DEF CellsTyped
<1>6. \A i \in Jobs \ {j} : Same(i)
  BY <1>1, <1>2, <1>3 DEF Same, CellsTyped
<1>7. Sound(j)'
  <2>0. /\ sub'[j] = sub[j] /\ proc'[j] = proc[j] /\ helper'[j] = helper[j]
        /\ target'[j] = target[j] /\ review'[j] = "inspected"
    BY <1>1, <1>2, <1>3 DEF CellsTyped
  <2>1. \A r \in Resources : lock'[r] = j <=> Active(j)' /\ r \in row'[j].res
    BY <2>0, <1>1, <1>2, <1>3 DEF Sound, Active, Running, Uncertain
  <2>2. Touching(j)' => Active(j)'
    BY <2>0, <1>1, <1>2, <1>3
       DEF Sound, JobInv, LaunchOver, Active, Running, Uncertain, Touching, Stray, Claimed
  <2>3. Delivered(j)'
    BY <2>0, <1>1, <1>2, <1>3
       DEF Sound, Delivered, JobInv, Active, Running, Uncertain, Touching, Stray, Claimed
  <2>4. JobInv(j)'
    BY <2>0, <1>1, <1>2, <1>3
       DEF Sound, JobInv, LaunchOver, Running, Terminal, Uncertain, Engine, Claimed, Alive, Live
  <2>. QED
    BY <2>1, <2>2, <2>3, <2>4 DEF Sound
<1>8. WatchSame(j)
  BY <1>1, <1>2, <1>3
     DEF WatchSame, Gone, CellsTyped, LaunchOver, Terminal
<1>9. RowsTyped'
  BY <1>1, <1>3 DEF RowsTyped
<1>. QED
  BY <1>3, <1>5, <1>6, <1>7, <1>8, <1>9, JobStep

(* The fields of the row that record cleanup matter to no invariant.       *)
LEMMA CleanupErrorEffect ==
    ASSUME RowsTyped, NEW j \in Jobs, row' = [row EXCEPT ![j].cleanupError = TRUE],
           lock' = lock
    PROVE  /\ RowStep(j)
           /\ row'[j].res = row[j].res /\ row'[j].worker = row[j].worker
           /\ row'[j].status = row[j].status /\ row'[j].outcome = row[j].outcome
           /\ row'[j].stage = row[j].stage
<1>. DEFINE new == [row[j] EXCEPT !.cleanupError = TRUE]
<1>1. row[j] \in Row /\ row' = [row EXCEPT ![j] = new]
  BY DEF RowsTyped
<1>2. /\ new \in Row /\ new.status = row[j].status /\ new.outcome = row[j].outcome
      /\ new.stage = row[j].stage /\ new.route = row[j].route
      /\ new.res = row[j].res /\ new.worker = row[j].worker
  BY <1>1 DEF Row
<1>. HIDE DEF new
<1>. QED
  BY <1>1, <1>2 DEF RowsTyped, RowStep

(* The review frees a reservation nobody works under.                      *)
LEMMA AcknowledgeRecoveryKeeps ==
    ASSUME WorkInv, NEW j \in Jobs, AcknowledgeRecovery(j) PROVE WorkInv'
<1>1. RowsTyped /\ CellsTyped /\ Sound(j)
  BY Parts
<1>2. PICK v \in {"cleaning", "no"} :
         /\ review[j] = "inspected" /\ review' = [review EXCEPT ![j] = v]
         /\ \/ row' = row /\ lock' = lock
            \/ /\ row[j].status = "failed" /\ Uncertain(j) /\ lock' = Released(j)
               /\ row' = [row EXCEPT ![j] = [@ EXCEPT !.outcome = "recovery_acknowledged",
                                               !.stage = "completed", !.cleaned = FALSE]]
  BY DEF AcknowledgeRecovery
<1>3. UNCHANGED <<sub, proc, helper, unlabelled, target, retained, young, obs, web>>
  BY DEF AcknowledgeRecovery
<1>4. /\ RowStep(j) /\ row'[j].status = row[j].status /\ row'[j].worker = row[j].worker
      /\ \/ row' = row /\ lock' = lock
         \/ /\ row[j].status = "failed"
            /\ row'[j].outcome = "recovery_acknowledged" /\ row'[j].stage = "completed"
            /\ \A r \in Resources : lock'[r] # j
  <2>1. CASE row' = row /\ lock' = lock
    BY <1>1, <2>1 DEF RowsTyped, RowStep
  <2>2. CASE row' # row \/ lock' # lock
    <3>. DEFINE new == [row[j] EXCEPT !.outcome = "recovery_acknowledged",
                                      !.stage = "completed", !.cleaned = FALSE]
    <3>1. /\ row[j] \in Row /\ row' = [row EXCEPT ![j] = new] /\ lock' = Released(j)
          /\ row[j].status = "failed"
      BY <1>1, <1>2, <2>2 DEF RowsTyped
    <3>2. /\ new \in Row /\ new.status = row[j].status /\ new.route = row[j].route
          /\ new.worker = row[j].worker
          /\ new.outcome = "recovery_acknowledged" /\ new.stage = "completed"
      BY <3>1 DEF Row, Stages, Outcomes
    <3>. HIDE DEF new
    <3>3. row' \in [Jobs -> Row] /\ row'[j] = new /\ \A i \in Jobs \ {j} : row'[i] = row[i]
      BY <1>1, <3>1, <3>2 DEF RowsTyped
    <3>4. /\ lock' \in [Resources -> Jobs \cup {NoJob}]
          /\ \A r \in Resources : lock'[r] # j
          /\ \A i \in Jobs \ {j}, r \in Resources : lock'[r] = i <=> lock[r] = i
      BY <1>1, <3>1, ConstantsAssumption DEF RowsTyped, Released
    <3>. QED
      BY <3>1, <3>2, <3>3, <3>4 DEF RowsTyped, RowStep
  <2>. QED
    BY <2>1, <2>2
<1>5. CellsTyped'
  BY <1>1, <1>2, <1>3 DEF CellsTyped
<1>6. \A i \in Jobs \ {j} : Same(i)
  BY <1>1, <1>2, <1>3, <1>4 DEF Same, CellsTyped, RowStep
<1>7. Sound(j)'
  <2>1. /\ review'[j] = v /\ Terminal(j) /\ Terminal(j)'
        /\ proc[j] \notin Claimed /\ ~helper[j] /\ sub[j] # "docker"
    BY <1>1, <1>2, <1>3, <1>4 DEF CellsTyped, Sound, JobInv, Terminal, Running
  <2>2. \A r \in Resources : lock'[r] = j <=> Active(j)' /\ r \in row'[j].res
    BY <1>1, <1>4, <2>1 DEF Sound, Active, Running, Uncertain, Terminal
  <2>3. Delivered(j)'
    BY <1>1, <1>3, <1>4 DEF Sound, Delivered
  <2>4. JobInv(j)'
    BY <1>1, <1>2, <1>3, <1>4, <2>1
       DEF Sound, JobInv, LaunchOver, Running, Terminal, Uncertain, RowStep
  <2>5. Touching(j)' => unlabelled[j]
    BY <1>3, <2>1 DEF Touching
  <2>6. Touching(j)' => Active(j)' \/ Stray(j)'
    <3>1. CASE row' = row
      BY <1>1, <1>3, <3>1 DEF Sound, Touching, Active, Stray, Running, Uncertain
    <3>2. CASE row'[j].outcome = "recovery_acknowledged"
      <4>1. unlabelled[j] => row'[j].route = "direct"
        BY <1>1, <1>4 DEF Sound, JobInv, RowStep
      <4>. QED
        BY <1>3, <2>5, <3>2, <4>1 DEF Stray
    <3>. QED
      BY <1>4, <3>1, <3>2
  <2>. QED
    BY <2>2, <2>3, <2>4, <2>6 DEF Sound
<1>8. WatchSame(j)
  BY <1>1, <1>3, <1>4 DEF WatchSame, Gone, LaunchOver, Terminal, RowStep
<1>. QED
  BY <1>3, <1>4, <1>5, <1>6, <1>7, <1>8, JobStep DEF RowStep

(* The cleanup after a review changes no result.                           *)
LEMMA CleanupReviewedKeeps ==
    ASSUME WorkInv, NEW j \in Jobs, CleanupReviewed(j) PROVE WorkInv'
<1>1. RowsTyped /\ CellsTyped /\ Sound(j)
  BY Parts
<1>2. review[j] = "cleaning" /\ review' = [review EXCEPT ![j] = "no"]
  BY DEF CleanupReviewed
<1>3. UNCHANGED <<lock, sub, proc, helper, unlabelled, target, young, obs, web>>
  BY DEF CleanupReviewed
<1>4. /\ RowStep(j)
      /\ row'[j].res = row[j].res /\ row'[j].worker = row[j].worker
      /\ row'[j].status = row[j].status /\ row'[j].outcome = row[j].outcome
      /\ row'[j].stage = row[j].stage
  <2>1. CASE UNCHANGED row
    BY <1>1, <1>3, <2>1 DEF RowsTyped, RowStep
  <2>2. CASE row' = [row EXCEPT ![j].cleanupError = TRUE]
    BY <1>1, <1>3, <2>2, CleanupErrorEffect
  <2>. QED
    BY <2>1, <2>2 DEF CleanupReviewed
<1>5. CellsTyped'
  <2>1. retained' \in [Jobs -> BOOLEAN]
    BY <1>1 DEF CleanupReviewed, CellsTyped
  <2>. QED
    BY <1>1, <1>2, <1>3, <2>1 DEF CellsTyped
<1>6. \A i \in Jobs \ {j} : Same(i)
  BY <1>1, <1>2, <1>3, <1>4 DEF Same, CellsTyped, RowStep
<1>7. Sound(j)'
  <2>1. review'[j] = "no"
    BY <1>1, <1>2 DEF CellsTyped
  <2>2. \A r \in Resources : lock'[r] = j <=> Active(j)' /\ r \in row'[j].res
    BY <1>1, <1>3, <1>4 DEF Sound, Active, Running, Uncertain
  <2>3. Touching(j)' => Active(j)' \/ Stray(j)'
    BY <1>1, <1>3, <1>4 DEF Sound, RowStep, Active, Running, Uncertain, Touching, Stray
  <2>4. Delivered(j)'
    BY <1>1, <1>3, <1>4 DEF Sound, Delivered
  <2>5. JobInv(j)'
    BY <1>1, <1>3, <1>4, <2>1
       DEF Sound, JobInv, LaunchOver, Running, Terminal, Uncertain, Engine, RowStep
  <2>. QED
    BY <2>2, <2>3, <2>4, <2>5 DEF Sound
<1>8. WatchSame(j)
  BY <1>1, <1>3, <1>4 DEF WatchSame, Gone, LaunchOver, Terminal, RowStep
<1>. QED
  BY <1>3, <1>4, <1>5, <1>6, <1>7, <1>8, JobStep DEF RowStep

----------------------------------------------------------------------------
(* The observers.                                                          *)

(* Observe gives the observer a job and a copy of its row.                 *)
LEMMA ObserveEffect ==
    ASSUME RowsTyped, ObsTyped, NEW o \in Observers, NEW j \in Jobs, NEW pc \in ObsStates,
           Observe(o, pc, j)
    PROVE  /\ ObsTyped' /\ \A p \in Observers \ {o} : obs'[p] = obs[p]
           /\ obs'[o].pc = pc /\ obs'[o].job = j /\ obs'[o].snap = Snap(j)
<1>1. Snap(j) \in Snapshot
  <2>1. row[j] \in Row
    BY DEF RowsTyped
  <2>2. (row[j].stage \in {"verifying", "committing"}) \in BOOLEAN
    OBVIOUS
  <2>. QED
    BY <2>1, <2>2 DEF Snap, Snapshot, Row
<1>. HIDE DEF Snapshot
<1>. QED
  BY <1>1 DEF Observe, ObsTyped

(* Continue keeps the observer's job.                                      *)
LEMMA ContinueEffect ==
    ASSUME ObsTyped, NEW o \in Observers, NEW pc \in ObsStates, Continue(o, pc)
    PROVE  /\ ObsTyped' /\ \A p \in Observers \ {o} : obs'[p] = obs[p]
           /\ obs'[o].pc = pc /\ obs'[o].job = obs[o].job
<1>1. NoSnap \in Snapshot
  BY DEF Snapshot, NoSnap, Outcomes
<1>. QED
  BY <1>1 DEF Continue, ObsTyped

(* A resting observer relies on nothing.                                   *)
LEMMA RestEffect ==
    ASSUME ObsTyped, NEW o \in Observers, Rest(o)
    PROVE  /\ ObsTyped' /\ \A p \in Observers \ {o} : obs'[p] = obs[p]
           /\ ObserverInv(o)'
<1>1. NoSnap \in Snapshot
  BY DEF Snapshot, NoSnap, Outcomes
<1>. QED
  BY <1>1 DEF Rest, ObsTyped, Idle, ObsStates, ObserverInv

(* A listed row in verification has its launch behind it.                  *)
LEMMA ListActiveKeeps ==
    ASSUME WorkInv, NEW o \in Observers, NEW j \in Jobs, ListActive(o, j) PROVE WorkInv'
<1>1. RowsTyped /\ ObsTyped /\ Sound(j)
  BY Parts
<1>2. /\ Running(j) /\ (Engine(j) => row[j].worker # "") /\ Observe(o, "inspect", j)
      /\ UNCHANGED <<row, lock, sub, proc, helper, unlabelled, target, retained, young, review, web>>
  BY DEF ListActive
<1>3. /\ ObsTyped' /\ \A p \in Observers \ {o} : obs'[p] = obs[p]
      /\ obs'[o].pc = "inspect" /\ obs'[o].job = j /\ obs'[o].snap = Snap(j)
  BY <1>1, <1>2, ObserveEffect DEF ObsStates
<1>4. ObserverInv(o)'
  <2>1. Snap(j).verifying => LaunchOver(j) /\ proc[j] # "created"
    BY <1>1 DEF Snap, Sound, JobInv
  <2>. QED
    BY <1>2, <1>3, <2>1 DEF ObserverInv, Running, Engine, LaunchOver
<1>. QED
  BY <1>2, <1>3, <1>4, ObserverStep

(* A row listed for cleanup is terminal.                                   *)
LEMMA ListFinalKeeps ==
    ASSUME WorkInv, NEW o \in Observers, NEW j \in Jobs, ListFinal(o, j) PROVE WorkInv'
<1>1. RowsTyped /\ ObsTyped
  BY Parts
<1>2. /\ Terminal(j) /\ row[j].worker # "" /\ Observe(o, "clean", j)
      /\ UNCHANGED <<row, lock, sub, proc, helper, unlabelled, target, retained, young, review, web>>
  BY DEF ListFinal
<1>3. /\ ObsTyped' /\ \A p \in Observers \ {o} : obs'[p] = obs[p]
      /\ obs'[o].pc = "clean" /\ obs'[o].job = j
  BY <1>1, <1>2, ObserveEffect DEF ObsStates
<1>4. ObserverInv(o)'
  BY <1>2, <1>3 DEF ObserverInv, Terminal, Engine
<1>. QED
  BY <1>2, <1>3, <1>4, ObserverStep

(* An exited worker of a verifying job is gone for good.                   *)
LEMMA InspectWorkerKeeps ==
    ASSUME WorkInv, NEW o \in Observers, InspectWorker(o) PROVE WorkInv'
<1>. DEFINE j == obs[o].job
<1>1. /\ RowsTyped /\ ObsTyped /\ CellsTyped /\ ObserverInv(o)
      /\ \A i \in Jobs : Sound(i)
  BY Parts
<1>2. obs[o].pc = "inspect" /\ j \in Jobs
  BY <1>1 DEF InspectWorker, ObserverInv
<1>3. UNCHANGED <<row, lock, sub, proc, helper, unlabelled, target, retained, young, review, web>>
  BY DEF InspectWorker
<1>4. CASE Rest(o)
  BY <1>1, <1>3, <1>4, RestEffect, ObserverStep
<1>5. ASSUME NEW pc \in {"verify", "record"}, Continue(o, pc), ~Alive(j),
             pc = "verify" => obs[o].snap.verifying
      PROVE  WorkInv'
  <2>1. /\ ObsTyped' /\ \A p \in Observers \ {o} : obs'[p] = obs[p]
        /\ obs'[o].pc = pc /\ obs'[o].job = j
    BY <1>1, <1>5, ContinueEffect DEF ObsStates
  <2>2. pc = "verify" => Gone(j)
    BY <1>1, <1>2, <1>5 DEF ObserverInv, Gone, Alive, CellsTyped, ProcStates
  <2>3. ObserverInv(o)'
    BY <1>1, <1>2, <1>3, <2>1, <2>2 DEF ObserverInv, Gone, LaunchOver, Engine
  <2>. QED
    BY <1>3, <2>1, <2>3, ObserverStep
<1>. QED
  BY <1>4, <1>5 DEF InspectWorker

(* The observer settles only what it found complete.                       *)
LEMMA VerifyExitedKeeps ==
    ASSUME WorkInv, NEW o \in Observers, VerifyExited(o) PROVE WorkInv'
<1>. DEFINE j == obs[o].job
<1>1. RowsTyped /\ ObsTyped /\ ObserverInv(o)
  BY Parts
<1>2. obs[o].pc = "verify" /\ j \in Jobs /\ Gone(j)
  BY <1>1 DEF VerifyExited, ObserverInv
<1>3. UNCHANGED <<row, lock, sub, proc, helper, unlabelled, target, retained, young, review, web>>
  BY DEF VerifyExited
<1>4. PICK pc \in {"settle", "record"} :
         Continue(o, pc) /\ (pc = "settle" => target[j] = "complete")
  BY DEF VerifyExited
<1>5. /\ ObsTyped' /\ \A p \in Observers \ {o} : obs'[p] = obs[p]
      /\ obs'[o].pc = pc /\ obs'[o].job = j
  BY <1>1, <1>4, ContinueEffect DEF ObsStates
<1>6. ObserverInv(o)'
  BY <1>1, <1>2, <1>3, <1>4, <1>5 DEF ObserverInv, Gone, LaunchOver, Engine
<1>. QED
  BY <1>3, <1>5, <1>6, ObserverStep

(* A step of one observer that writes to the row of the job it watches.    *)
LEMMA SettleStep ==
    ASSUME WorkInv, NEW o \in Observers, NEW j \in Jobs,
           RowsTyped', CellsTyped', ObsTyped', web' = web,
           \A i \in Jobs \ {j} : Same(i), Sound(j)', WatchSame(j),
           \A p \in Observers \ {o} : obs'[p] = obs[p], ObserverInv(o)'
    PROVE  WorkInv'
<1>1. /\ \A i \in Jobs : Sound(i)
      /\ \A p \in Observers : ObserverInv(p)
  BY Parts
<1>2. \A i \in Jobs : Sound(i)'
  BY <1>1, SameSound
<1>3. ASSUME NEW p \in Observers, p # o PROVE ObserverInv(p)'
  <2>0. obs'[p] = obs[p] /\ ObserverInv(p)
    BY <1>1, <1>3
  <2>1. CASE obs[p].pc = "idle"
    BY <2>0, <2>1 DEF ObserverInv
  <2>2. CASE obs[p].pc # "idle" /\ obs[p].job = j
    BY <2>0, <2>2, Watched
  <2>3. CASE obs[p].pc # "idle" /\ obs[p].job # j
    <3>1. obs[p].job \in Jobs
      BY <2>0, <2>3 DEF ObserverInv
    <3>2. Same(obs[p].job)
      BY <2>3, <3>1
    <3>. QED
      BY <2>0, <3>1, <3>2, SameWatched
  <2>. QED
    BY <2>1, <2>2, <2>3
<1>. QED
  BY <1>2, <1>3, Parts

(* The observer's success concerns a complete target and a gone worker.    *)
LEMMA RecordReconciledKeeps ==
    ASSUME WorkInv, NEW o \in Observers, RecordReconciled(o) PROVE WorkInv'
<1>1. /\ RowsTyped /\ ObsTyped /\ CellsTyped /\ ObserverInv(o)
      /\ \A i \in Jobs : Sound(i)
  BY Parts
<1>2. PICK j \in Jobs :
         /\ obs[o].job = j /\ obs[o].pc = "settle" /\ target[j] = "complete" /\ Gone(j)
         /\ FinishJob(j, "succeeded", "reconciled")
  BY <1>1 DEF RecordReconciled, ObserverInv
<1>3. UNCHANGED <<sub, proc, helper, unlabelled, target, retained, young, review, web>> /\ Rest(o)
  BY DEF RecordReconciled
<1>4. /\ RowStep(j)
      /\ row'[j].res = row[j].res /\ row'[j].worker = row[j].worker
      /\ Running(j) => /\ row'[j].status = "succeeded" /\ row'[j].outcome = "reconciled"
                       /\ row'[j].stage \in {"completed", "awaiting_recovery"}
                       /\ \A r \in Resources : lock'[r] = j <=>
                             lock[r] = j /\ "reconciled" = "recovery_required"
      /\ ~Running(j) => row' = row /\ lock' = lock
  BY <1>1, <1>2, FinishJobEffect DEF Outcomes
<1>5. /\ ObsTyped' /\ \A p \in Observers \ {o} : obs'[p] = obs[p]
      /\ ObserverInv(o)'
  BY <1>1, <1>3, RestEffect
<1>6. CellsTyped'
  BY <1>1, <1>3 DEF CellsTyped
<1>7. \A i \in Jobs \ {j} : Same(i)
  BY <1>3, <1>4 DEF Same, RowStep
<1>8. Sound(j)'
  <2>0. Sound(j)
    BY <1>1
  <2>1. CASE Running(j)
    <3>1. /\ Engine(j) => row[j].worker # ""
          /\ row'[j].route = row[j].route /\ row'[j].worker = row[j].worker
      BY <1>1, <1>2, <1>4 DEF ObserverInv, RowStep
    <3>2. ~unlabelled[j]
      BY <2>0, <3>1 DEF Sound, JobInv, Engine
    <3>3. \A r \in Resources : lock'[r] = j <=> Active(j)' /\ r \in row'[j].res
      BY <1>4, <2>1 DEF Active, Running, Uncertain
    <3>4. ~Touching(j)'
      BY <1>2, <1>3, <3>2 DEF Touching, Gone, LaunchOver, Claimed
    <3>5. JobInv(j)' /\ Delivered(j)'
      BY <1>2, <1>3, <1>4, <2>0, <2>1, <3>2
         DEF Sound, Delivered, JobInv, Running, Uncertain, LaunchOver, Terminal, Claimed, Gone
    <3>. QED
      BY <3>3, <3>4, <3>5 DEF Sound
  <2>2. CASE ~Running(j)
    <3>1. row' = row /\ lock' = lock
      BY <1>4, <2>2
    <3>. QED
      BY ZenonT(40), <1>3, <2>0, <3>1
         DEF Sound, Delivered, JobInv, Active, Running, Uncertain, Touching, Stray, LaunchOver, Terminal,
             Engine
  <2>. QED
    BY <2>1, <2>2
<1>9. WatchSame(j)
  BY <1>3, <1>4 DEF WatchSame, Gone, LaunchOver, Running, Terminal, RowStep
<1>. QED
  BY <1>2, <1>3, <1>4, <1>5, <1>6, <1>7, <1>8, <1>9, SettleStep DEF RowStep

(* The observer's uncertain result keeps the reservation.                  *)
LEMMA RecordUncertainKeeps ==
    ASSUME WorkInv, NEW o \in Observers, RecordUncertain(o) PROVE WorkInv'
<1>1. /\ RowsTyped /\ ObsTyped /\ CellsTyped /\ ObserverInv(o)
      /\ \A i \in Jobs : Sound(i)
  BY Parts
<1>2. PICK j \in Jobs :
         /\ obs[o].job = j /\ obs[o].pc = "record" /\ (Engine(j) => row[j].worker # "")
         /\ FinishJob(j, "failed", "recovery_required")
  BY <1>1 DEF RecordUncertain, ObserverInv
<1>3. UNCHANGED <<sub, proc, helper, unlabelled, target, retained, young, review, web>> /\ Rest(o)
  BY DEF RecordUncertain
<1>4. /\ RowStep(j)
      /\ row'[j].res = row[j].res /\ row'[j].worker = row[j].worker
      /\ Running(j) => /\ row'[j].status = "failed" /\ row'[j].outcome = "recovery_required"
                       /\ row'[j].stage \in {"completed", "awaiting_recovery"}
                       /\ \A r \in Resources : lock'[r] = j <=>
                             lock[r] = j /\ "recovery_required" = "recovery_required"
      /\ ~Running(j) => row' = row /\ lock' = lock
  BY <1>1, <1>2, FinishJobEffect DEF Outcomes
<1>5. /\ ObsTyped' /\ \A p \in Observers \ {o} : obs'[p] = obs[p]
      /\ ObserverInv(o)'
  BY <1>1, <1>3, RestEffect
<1>6. CellsTyped'
  BY <1>1, <1>3 DEF CellsTyped
<1>7. \A i \in Jobs \ {j} : Same(i)
  BY <1>3, <1>4 DEF Same, RowStep
<1>8. Sound(j)'
  <2>0. Sound(j)
    BY <1>1
  <2>1. CASE Running(j)
    BY <1>2, <1>3, <1>4, <2>0, <2>1
       DEF Sound, Delivered, JobInv, Active, Running, Uncertain, Touching, Stray, LaunchOver, Terminal,
           Engine, Claimed, Gone, RowStep
  <2>2. CASE ~Running(j)
    <3>1. row' = row /\ lock' = lock
      BY <1>4, <2>2
    <3>. QED
      BY ZenonT(40), <1>3, <2>0, <3>1
         DEF Sound, Delivered, JobInv, Active, Running, Uncertain, Touching, Stray, LaunchOver, Terminal,
             Engine
  <2>. QED
    BY <2>1, <2>2
<1>9. WatchSame(j)
  BY <1>3, <1>4 DEF WatchSame, Gone, LaunchOver, Running, Terminal, RowStep
<1>. QED
  BY <1>2, <1>3, <1>4, <1>5, <1>6, <1>7, <1>8, <1>9, SettleStep DEF RowStep

(* Marking a worker cleaned changes no result.                             *)
LEMMA WorkerCleanedKeeps ==
    ASSUME WorkInv, NEW o \in Observers, WorkerCleaned(o) PROVE WorkInv'
<1>1. /\ RowsTyped /\ ObsTyped /\ CellsTyped /\ ObserverInv(o)
      /\ \A i \in Jobs : Sound(i)
  BY Parts
<1>2. PICK j \in Jobs : obs[o].job = j
  BY <1>1 DEF WorkerCleaned, ObserverInv
<1>3. UNCHANGED <<lock, sub, proc, helper, unlabelled, target, retained, young, review, web>> /\ Rest(o)
  BY DEF WorkerCleaned
<1>4. /\ RowStep(j)
      /\ row'[j].res = row[j].res /\ row'[j].worker = row[j].worker
      /\ row'[j].status = row[j].status /\ row'[j].outcome = row[j].outcome
      /\ row'[j].stage = row[j].stage
  <2>. DEFINE new == MarkCleaned(row[j], obs[o].pc = "mark")
  <2>1. row[j] \in Row /\ row' = [row EXCEPT ![j] = new]
    BY <1>1, <1>2 DEF RowsTyped, WorkerCleaned
  <2>2. /\ new \in Row /\ new.status = row[j].status /\ new.outcome = row[j].outcome
        /\ new.stage = row[j].stage /\ new.route = row[j].route
        /\ new.res = row[j].res /\ new.worker = row[j].worker
    <3>1. CASE obs[o].pc = "mark"
      BY <2>1, <3>1 DEF Row, MarkCleaned
    <3>2. CASE obs[o].pc # "mark"
      BY <2>1, <3>2 DEF Row, MarkCleaned
    <3>. QED
      BY <3>1, <3>2
  <2>. HIDE DEF new
  <2>. QED
    BY <1>1, <1>2, <1>3, <2>1, <2>2 DEF RowsTyped, RowStep
<1>5. /\ ObsTyped' /\ \A p \in Observers \ {o} : obs'[p] = obs[p]
      /\ ObserverInv(o)'
  BY <1>1, <1>3, RestEffect
<1>6. CellsTyped'
  BY <1>1, <1>3 DEF CellsTyped
<1>7. \A i \in Jobs \ {j} : Same(i)
  BY <1>3, <1>4 DEF Same, RowStep
<1>8. Sound(j)'
  <2>1. Sound(j)
    BY <1>1
  <2>. QED
    BY ZenonT(40), <1>3, <1>4, <2>1
     DEF Sound, Delivered, JobInv, Active, Running, Uncertain, Touching, Stray, LaunchOver,
         Terminal, Engine,
         RowStep
<1>9. WatchSame(j)
  BY <1>3, <1>4 DEF WatchSame, Gone, LaunchOver, Terminal, RowStep
<1>. QED
  BY <1>2, <1>3, <1>4, <1>5, <1>6, <1>7, <1>8, <1>9, SettleStep DEF RowStep

(* Cleanup removes only an exited worker container, so whoever watches the *)
(* job still finds its worker gone.                                        *)
LEMMA CleanWorkerKeeps ==
    ASSUME WorkInv, NEW o \in Observers, CleanWorker(o) PROVE WorkInv'
<1>1. /\ RowsTyped /\ ObsTyped /\ CellsTyped /\ ObserverInv(o)
      /\ \A i \in Jobs : Sound(i)
  BY Parts
<1>2. PICK j \in Jobs : obs[o].job = j /\ obs[o].pc = "clean" /\ Terminal(j)
  BY <1>1 DEF CleanWorker, ObserverInv
<1>3. UNCHANGED <<lock, sub, helper, unlabelled, target, young, review, web>>
  BY DEF CleanWorker
<1>4. \/ proc' = proc
      \/ ~Alive(j) /\ proc' = [proc EXCEPT ![j] = "absent"]
  BY <1>2 DEF CleanWorker, Become
<1>5. /\ RowStep(j)
      /\ row'[j].res = row[j].res /\ row'[j].worker = row[j].worker
      /\ row'[j].status = row[j].status /\ row'[j].outcome = row[j].outcome
      /\ row'[j].stage = row[j].stage
  <2>1. CASE row' = row
    BY <1>1, <1>2, <1>3, <2>1 DEF RowsTyped, RowStep
  <2>2. CASE row' = [row EXCEPT ![j].cleanupError = TRUE]
    BY <1>1, <1>2, <1>3, <2>2, CleanupErrorEffect
  <2>. QED
    BY <1>2, <2>1, <2>2 DEF CleanWorker
<1>6. CellsTyped'
  <2>1. retained' \in [Jobs -> BOOLEAN]
    BY <1>1 DEF CleanWorker, CellsTyped
  <2>2. proc' \in [Jobs -> ProcStates]
    BY <1>1, <1>4 DEF CellsTyped, ProcStates
  <2>. QED
    BY <1>1, <1>3, <2>1, <2>2 DEF CellsTyped
<1>7. /\ ObsTyped' /\ \A p \in Observers \ {o} : obs'[p] = obs[p]
      /\ ObserverInv(o)'
  <2>1. CASE Rest(o)
    BY <1>1, <2>1, RestEffect
  <2>2. ASSUME NEW pc \in {"mark", "markReview"}, Continue(o, pc)
        PROVE  /\ ObsTyped' /\ \A p \in Observers \ {o} : obs'[p] = obs[p]
               /\ ObserverInv(o)'
    <3>1. /\ ObsTyped' /\ \A p \in Observers \ {o} : obs'[p] = obs[p]
          /\ obs'[o].pc = pc /\ obs'[o].job = j
      BY <1>1, <1>2, <2>2, ContinueEffect DEF ObsStates
    <3>2. ObserverInv(o)'
      <4>1. Engine(j) => row[j].worker # ""
        BY <1>1, <1>2 DEF ObserverInv
      <4>. QED
        BY <1>2, <1>5, <3>1, <4>1 DEF ObserverInv, Terminal, Engine, RowStep
    <3>. QED
      BY <3>1, <3>2
  <2>. QED
    BY <2>1, <2>2 DEF CleanWorker
<1>8. \A i \in Jobs \ {j} : Same(i)
  BY <1>1, <1>3, <1>4, <1>5 DEF Same, RowStep, CellsTyped
<1>9. \/ proc'[j] = proc[j]
      \/ ~Alive(j) /\ proc'[j] = "absent"
  BY <1>1, <1>2, <1>4 DEF CellsTyped
<1>10. Sound(j)'
  <2>0. Sound(j)
    BY <1>1
  <2>1. \A r \in Resources : lock'[r] = j <=> Active(j)' /\ r \in row'[j].res
    BY <1>3, <1>5, <2>0 DEF Sound, Active, Running, Uncertain
  <2>2. Touching(j)' => Active(j)' \/ Stray(j)'
    BY <1>3, <1>5, <1>9, <2>0
       DEF Sound, RowStep, Active, Running, Uncertain, Touching, Stray, Claimed
  <2>3. Delivered(j)'
    BY <1>3, <1>5, <2>0 DEF Sound, Delivered
  <2>4. JobInv(j)'
    BY ZenonT(40), <1>3, <1>5, <1>9, <2>0
       DEF Sound, JobInv, LaunchOver, Running, Terminal, Uncertain, Engine, Claimed, RowStep
  <2>. QED
    BY <2>1, <2>2, <2>3, <2>4 DEF Sound
<1>11. WatchSame(j)
  BY <1>3, <1>5, <1>9 DEF WatchSame, Gone, LaunchOver, Terminal, RowStep
<1>. QED
  BY <1>2, <1>3, <1>5, <1>6, <1>7, <1>8, <1>10, <1>11, SettleStep DEF RowStep

----------------------------------------------------------------------------
(* The work invariant.                                                     *)

(* The empty store satisfies the invariant.                                *)
LEMMA InitHolds == Init => WorkInv
<1>. SUFFICES ASSUME Init PROVE WorkInv
  OBVIOUS
<1>1. RowsTyped
  <2>1. NoRow \in Row
    BY DEF NoRow, NewJob, Row, Stages, Outcomes, RouteNames
  <2>. QED
    BY <2>1 DEF Init, RowsTyped
<1>2. ObsTyped
  BY DEF Init, ObsTyped, Idle, NoSnap, Snapshot, Outcomes, ObsStates
<1>3. CellsTyped
  BY DEF Init, CellsTyped, SubStates, ProcStates
<1>4. ASSUME NEW j \in Jobs PROVE Sound(j)
  <2>1. /\ row[j].status = "none" /\ row[j].outcome = "" /\ row[j].stage = "queued"
    BY DEF Init, NoRow, NewJob
  <2>. QED
    BY <2>1, ConstantsAssumption
       DEF Init, Sound, Delivered, JobInv, Active, Running, Uncertain, Touching, Stray, Claimed,
           LaunchOver, NoRow, NewJob
<1>5. \A o \in Observers : ObserverInv(o)
  BY DEF Init, ObserverInv, Idle
<1>. QED
  BY <1>1, <1>2, <1>3, <1>4, <1>5, Parts

(* Every action keeps the invariant.                                       *)
LEMMA NextKeeps == WorkInv /\ [Next]_vars => WorkInv'
<1>. SUFFICES ASSUME WorkInv, [Next]_vars PROVE WorkInv'
  OBVIOUS
<1>1. ASSUME NEW j \in Jobs, NEW route \in Routes[j], NEW R \in Scopes,
             CreateJob(j, route, R)
      PROVE  WorkInv'
  <2>1. route \in RouteNames /\ R \in SUBSET Resources
    BY ConstantsAssumption
  <2>. QED
    BY <1>1, <2>1, CreateJobKeeps
<1>2. ASSUME NEW j \in Jobs, Submit(j) \/ DirectCall(j) \/ StartUnlabelled(j) \/ StorageFails(j)
      PROVE  WorkInv'
  BY <1>2, BeginDirectKeeps, FinishDirectKeeps, LaunchRestartKeeps, RegisterWorkerKeeps,
     CreateWorkerKeeps, ConfirmWorkerKeeps, StartWorkerKeeps, AfterPlainErrorKeeps,
     AfterUncertainLaunchKeeps, DirectCallKeeps, StartUnlabelledKeeps, StorageFailsKeeps
     DEF Submit
<1>3. ASSUME NEW j \in Jobs, \/ Work(j) \/ WorkerExits(j)
                             \/ HelperEnds(j) \/ UnlabelledEnds(j)
      PROVE  WorkInv'
  BY <1>3, ValidateWorkerKeeps, ClaimJobKeeps, BeginMutationKeeps, MutateKeeps,
     StartHelperKeeps, RetargetJobKeeps, BeginVerificationKeeps, VerifyTargetKeeps,
     CommandFailsKeeps, RetainImagesKeeps, RecordUnchangedKeeps, RecordSuccessKeeps,
     CommitFailsKeeps, RecordPartialKeeps, RollBackKeeps, SaveFailureKeeps, RecordFailureKeeps,
     WorkerExitsKeeps, HelperEndsKeeps, UnlabelledEndsKeeps
     DEF Work
<1>4. ASSUME NEW j \in Jobs, Review(j) \/ GraceExpires(j) PROVE WorkInv'
  BY <1>4, InspectForReviewKeeps, AcknowledgeRecoveryKeeps, CleanupReviewedKeeps,
     GraceExpiresKeeps
     DEF Review
<1>5. ASSUME NEW o \in Observers, NEW j \in Jobs, ListActive(o, j) \/ ListFinal(o, j)
      PROVE  WorkInv'
  BY <1>5, ListActiveKeeps, ListFinalKeeps
<1>6. ASSUME NEW o \in Observers, Settle(o) PROVE WorkInv'
  BY <1>6, InspectWorkerKeeps, VerifyExitedKeeps, RecordReconciledKeeps,
     RecordUncertainKeeps, CleanWorkerKeeps, WorkerCleanedKeeps
     DEF Settle
<1>7. CASE UNCHANGED vars
  <2>1. /\ TypeOK' = TypeOK /\ ReservationsExact' = ReservationsExact
        /\ WorkIsReserved' = WorkIsReserved /\ SucceededIsComplete' = SucceededIsComplete
    BY <1>7 DEF vars, TypeOK, ReservationsExact, WorkIsReserved, SucceededIsComplete,
                Delivered, Touching, Stray, Active, Running, Uncertain
  <2>2. \A j \in Jobs : JobInv(j)' = JobInv(j)
    BY <1>7 DEF vars, JobInv, LaunchOver, Running, Uncertain, Terminal, Engine
  <2>3. \A o \in Observers : ObserverInv(o)' = ObserverInv(o)
    BY <1>7 DEF vars, ObserverInv, Gone, LaunchOver, Terminal, Engine
  <2>. QED
    BY <2>1, <2>2, <2>3 DEF WorkInv
<1>. QED
  BY <1>1, <1>2, <1>3, <1>4, <1>5, <1>6, <1>7, WebStopsKeeps, WebStartsKeeps DEF Next

----------------------------------------------------------------------------
(* What a step does to a target, and to a result.                          *)

(* Only what is at work on a job changes its target.                       *)
LEMMA TargetStep ==
    ASSUME CellsTyped, [Next]_vars, NEW i \in Jobs, target'[i] # target[i]
    PROVE  Touching(i)
<1>1. ASSUME NEW j \in Jobs, DirectCall(j) PROVE Touching(i)
  BY <1>1 DEF DirectCall, CellsTyped, Touching, Stray
<1>2. ASSUME NEW j \in Jobs, Mutate(j) PROVE Touching(i)
  BY <1>2 DEF Mutate, CellsTyped, Touching, Stray, Claimed
<1>3. ASSUME NEW j \in Jobs, StartHelper(j) PROVE Touching(i)
  BY <1>3 DEF StartHelper, CellsTyped, Touching, Stray, Claimed
<1>4. ASSUME NEW j \in Jobs, HelperEnds(j) PROVE Touching(i)
  BY <1>4 DEF HelperEnds, CellsTyped, Touching, Stray
<1>11. ASSUME NEW j \in Jobs, StartUnlabelled(j) \/ UnlabelledEnds(j) PROVE Touching(i)
  BY <1>11 DEF StartUnlabelled, UnlabelledEnds, CellsTyped, Touching
<1>5. ASSUME NEW j \in Jobs, RollBack(j) PROVE Touching(i)
  BY <1>5 DEF RollBack, CellsTyped, Touching, Stray, Claimed
<1>6. ASSUME NEW j \in Jobs, Submit(j) PROVE target' = target
  BY <1>6 DEF Submit, BeginDirect, FinishDirect, LaunchRestart, RegisterWorker, CreateWorker,
              ConfirmWorker, StartWorker, AfterPlainError, AfterUncertainLaunch
<1>7. ASSUME NEW j \in Jobs, Work(j), target' # target
      PROVE  Mutate(j) \/ StartHelper(j) \/ RollBack(j)
  BY <1>7 DEF Work, ValidateWorker, ClaimJob, BeginMutation, RetargetJob, BeginVerification,
              VerifyTarget, CommandFails, RetainImages, RecordUnchanged, RecordSuccess,
              CommitFails, RecordPartial, SaveFailure, RecordFailure
<1>8. ASSUME NEW j \in Jobs,
             \/ StorageFails(j) \/ WorkerExits(j) \/ Review(j) \/ GraceExpires(j)
             \/ \E route \in Routes[j], R \in Scopes : CreateJob(j, route, R)
      PROVE  target' = target
  BY <1>8 DEF StorageFails, WorkerExits, Review, InspectForReview, AcknowledgeRecovery,
              CleanupReviewed, GraceExpires, CreateJob
<1>9. ASSUME NEW o \in Observers,
             \/ Settle(o)
             \/ \E j \in Jobs : ListActive(o, j) \/ ListFinal(o, j)
      PROVE  target' = target
  BY <1>9 DEF Settle, InspectWorker, VerifyExited, RecordReconciled, RecordUncertain,
              CleanWorker, WorkerCleaned, ListActive, ListFinal
<1>10. CASE WebStops \/ WebStarts \/ UNCHANGED vars
  BY <1>10 DEF WebStops, WebStarts, vars
<1>. QED
  BY <1>1, <1>2, <1>3, <1>4, <1>5, <1>6, <1>7, <1>8, <1>9, <1>10, <1>11 DEF Next

(* A helper without a label is only ever started for a running job.        *)
LEMMA HelperStep ==
    ASSUME WorkInv, [Next]_vars, NEW i \in Jobs, unlabelled'[i], ~unlabelled[i]
    PROVE  Running(i) /\ row' = row
<1>1. CellsTyped /\ \A j \in Jobs : JobInv(j)
  BY Parts DEF Sound
<1>2. ASSUME NEW j \in Jobs, StartUnlabelled(j) PROVE Running(i) /\ row' = row
  <2>1. i = j
    BY <1>1, <1>2 DEF StartUnlabelled, CellsTyped
  <2>. QED
    BY <1>1, <1>2, <2>1 DEF StartUnlabelled, JobInv
<1>3. ASSUME NEW j \in Jobs, UnlabelledEnds(j) PROVE FALSE
  BY <1>1, <1>3 DEF UnlabelledEnds, CellsTyped
<1>4. ASSUME NEW j \in Jobs, Submit(j) PROVE unlabelled' = unlabelled
  BY <1>4 DEF Submit, BeginDirect, FinishDirect, LaunchRestart, RegisterWorker, CreateWorker,
              ConfirmWorker, StartWorker, AfterPlainError, AfterUncertainLaunch
<1>5. ASSUME NEW j \in Jobs, Work(j) PROVE unlabelled' = unlabelled
  BY <1>5 DEF Work, ValidateWorker, ClaimJob, BeginMutation, BeginVerification, VerifyTarget,
              CommandFails, RetainImages, RecordUnchanged, RecordSuccess, CommitFails,
              RecordPartial, SaveFailure, RecordFailure, StartHelper, RollBack, Mutate,
              RetargetJob
<1>6. ASSUME NEW j \in Jobs,
             \/ DirectCall(j) \/ StorageFails(j) \/ WorkerExits(j) \/ HelperEnds(j)
             \/ Review(j) \/ GraceExpires(j)
             \/ \E route \in Routes[j], R \in Scopes : CreateJob(j, route, R)
      PROVE  unlabelled' = unlabelled
  BY <1>6 DEF DirectCall, StorageFails, WorkerExits, HelperEnds, Review, InspectForReview,
              AcknowledgeRecovery, CleanupReviewed, GraceExpires, CreateJob
<1>7. ASSUME NEW o \in Observers,
             \/ Settle(o)
             \/ \E j \in Jobs : ListActive(o, j) \/ ListFinal(o, j)
      PROVE  unlabelled' = unlabelled
  BY <1>7 DEF Settle, InspectWorker, VerifyExited, RecordReconciled, RecordUncertain,
              CleanWorker, WorkerCleaned, ListActive, ListFinal
<1>8. CASE WebStops \/ WebStarts \/ UNCHANGED vars
  BY <1>8 DEF WebStops, WebStarts, vars
<1>. QED
  BY <1>2, <1>3, <1>4, <1>5, <1>6, <1>7, <1>8 DEF Next

\* The result of a terminal row i survives the step.
FinalStep(i) ==
    Terminal(i) => /\ row'[i].status = row[i].status
                   /\ \/ row'[i].outcome = row[i].outcome
                      \/ Uncertain(i) /\ row'[i].outcome = "recovery_acknowledged"

(* Requests, workers and observers finish, progress and register under the *)
(* guard status = 'running', so they leave a terminal row alone.           *)
LEMMA SubmitFinal ==
    ASSUME RowsTyped, NEW i \in Jobs, NEW j \in Jobs,
           \/ Submit(j) \/ DirectCall(j) \/ StorageFails(j)
           \/ StartUnlabelled(j) \/ UnlabelledEnds(j)
    PROVE  FinalStep(i)
<1>. USE DEF FinalStep, Terminal, Running, RowsTyped
<1>1. ASSUME NEW s \in {"succeeded", "failed"}, NEW o \in Outcomes, FinishJob(j, s, o)
      PROVE  FinalStep(i)
  BY <1>1 DEF FinishJob
<1>2. CASE FinishDirect(j) \/ AfterPlainError(j) \/ AfterUncertainLaunch(j)
  BY <1>1, <1>2 DEF FinishDirect, AfterPlainError, AfterUncertainLaunch, Outcomes
<1>3. CASE BeginDirect(j)
  BY <1>3 DEF BeginDirect, JobProgress
<1>4. CASE RegisterWorker(j) \/ ConfirmWorker(j)
  BY <1>4 DEF RegisterWorker, ConfirmWorker, MaySetWorker, SetJobWorker
<1>5. CASE \/ LaunchRestart(j) \/ CreateWorker(j) \/ StartWorker(j)
           \/ DirectCall(j) \/ StartUnlabelled(j) \/ UnlabelledEnds(j) \/ StorageFails(j)
  BY <1>5 DEF LaunchRestart, CreateWorker, StartWorker, DirectCall, StorageFails, StartUnlabelled,
              UnlabelledEnds
<1>. QED
  BY <1>2, <1>3, <1>4, <1>5 DEF Submit

(* So do the worker's writes.                                              *)
LEMMA WorkFinal ==
    ASSUME RowsTyped, NEW i \in Jobs, NEW j \in Jobs,
           Work(j) \/ WorkerExits(j) \/ HelperEnds(j)
    PROVE  FinalStep(i)
<1>. USE DEF FinalStep, Terminal, Running, RowsTyped
<1>1. ASSUME NEW s \in {"succeeded", "failed"}, NEW o \in Outcomes, FinishJob(j, s, o)
      PROVE  FinalStep(i)
  BY <1>1 DEF FinishJob
<1>2. CASE RecordUnchanged(j) \/ RecordSuccess(j) \/ RecordPartial(j) \/ RecordFailure(j)
  BY <1>1, <1>2 DEF RecordUnchanged, RecordSuccess, RecordPartial, RecordFailure, Outcomes
<1>3. CASE \/ RetainImages(j) \/ BeginMutation(j) \/ BeginVerification(j)
           \/ VerifyTarget(j) \/ RollBack(j) \/ SaveFailure(j)
  BY <1>3 DEF RetainImages, BeginMutation, BeginVerification, VerifyTarget, RollBack,
              SaveFailure, JobProgress
<1>4. CASE ClaimJob(j)
  BY <1>4 DEF ClaimJob, MayClaim
<1>5. ASSUME NEW r \in Resources, RetargetJob(j, r) PROVE FinalStep(i)
  BY <1>5 DEF RetargetJob
<1>6. CASE \/ ValidateWorker(j) \/ Mutate(j) \/ StartHelper(j) \/ CommandFails(j)
           \/ CommitFails(j) \/ WorkerExits(j) \/ HelperEnds(j)
  BY <1>6 DEF ValidateWorker, Mutate, StartHelper, CommandFails, CommitFails, WorkerExits,
              HelperEnds
<1>. QED
  BY <1>2, <1>3, <1>4, <1>5, <1>6 DEF Work

(* A review replaces an uncertain outcome and no other.                    *)
LEMMA ReviewFinal ==
    ASSUME RowsTyped, NEW i \in Jobs, NEW j \in Jobs, Review(j) \/ GraceExpires(j)
    PROVE  FinalStep(i)
<1>1. CASE AcknowledgeRecovery(j)
  <2>. DEFINE new == [row[j] EXCEPT !.outcome = "recovery_acknowledged",
                                    !.stage = "completed", !.cleaned = FALSE]
  <2>1. row[j] \in Row
    BY DEF RowsTyped
  <2>2. new.status = row[j].status /\ new.outcome = "recovery_acknowledged"
    BY <2>1 DEF Row
  <2>3. row' = row \/ (row' = [row EXCEPT ![j] = new] /\ Uncertain(j))
    BY <1>1 DEF AcknowledgeRecovery
  <2>. HIDE DEF new
  <2>. QED
    BY <2>2, <2>3 DEF FinalStep, RowsTyped
<1>2. CASE CleanupReviewed(j)
  <2>1. CASE row' = [row EXCEPT ![j].cleanupError = TRUE]
    BY <1>2, <2>1, CleanupErrorEffect DEF CleanupReviewed, FinalStep, RowStep
  <2>2. CASE row' = row
    BY <2>2 DEF FinalStep
  <2>. QED
    BY <1>2, <2>1, <2>2 DEF CleanupReviewed
<1>3. CASE InspectForReview(j) \/ GraceExpires(j)
  BY <1>3 DEF InspectForReview, GraceExpires, FinalStep
<1>. QED
  BY <1>1, <1>2, <1>3 DEF Review

(* The observer's writes leave a terminal result alone.                    *)
LEMMA SettleFinal ==
    ASSUME RowsTyped, NEW i \in Jobs, NEW o \in Observers, ObserverInv(o), Settle(o)
    PROVE  FinalStep(i)
<1>1. CASE RecordReconciled(o) \/ RecordUncertain(o)
  BY <1>1 DEF RecordReconciled, RecordUncertain, FinishJob, ObserverInv, FinalStep, Terminal,
              Running, RowsTyped
<1>2. CASE CleanWorker(o)
  <2>1. PICK j \in Jobs : obs[o].job = j
    BY <1>2 DEF CleanWorker, ObserverInv
  <2>2. CASE row' = [row EXCEPT ![j].cleanupError = TRUE]
    <3>1. lock' = lock
      BY <1>2 DEF CleanWorker
    <3>. QED
      BY <2>2, <3>1, CleanupErrorEffect DEF FinalStep, RowStep
  <2>3. CASE row' = row
    BY <2>3 DEF FinalStep
  <2>. QED
    BY <1>2, <2>1, <2>2, <2>3 DEF CleanWorker
<1>3. CASE WorkerCleaned(o)
  <2>1. PICK j \in Jobs : obs[o].job = j
    BY <1>3 DEF WorkerCleaned, ObserverInv
  <2>2. row[j] \in Row /\ row' = [row EXCEPT ![j] = MarkCleaned(row[j], obs[o].pc = "mark")]
    BY <1>3, <2>1 DEF WorkerCleaned, RowsTyped
  <2>3. CASE obs[o].pc = "mark"
    BY <2>2, <2>3 DEF MarkCleaned, FinalStep, RowsTyped, Row
  <2>4. CASE obs[o].pc # "mark"
    BY <2>2, <2>4 DEF MarkCleaned, FinalStep, RowsTyped, Row
  <2>. QED
    BY <2>3, <2>4
<1>4. CASE InspectWorker(o) \/ VerifyExited(o)
  BY <1>4 DEF InspectWorker, VerifyExited, FinalStep
<1>. QED
  BY <1>1, <1>2, <1>3, <1>4 DEF Settle

(* No step overwrites a terminal result.                                   *)
LEMMA NextFinal ==
    ASSUME WorkInv, [Next]_vars, NEW i \in Jobs PROVE FinalStep(i)
<1>1. RowsTyped /\ \A o \in Observers : ObserverInv(o)
  BY Parts
<1>2. ASSUME NEW j \in Jobs, NEW route \in Routes[j], NEW R \in Scopes,
             CreateJob(j, route, R)
      PROVE  FinalStep(i)
  BY <1>1, <1>2 DEF CreateJob, FinalStep, Terminal, RowsTyped
<1>3. CASE WebStarts
  BY <1>1, <1>3 DEF WebStarts, Abandoned, FinalStep, Terminal, Running
<1>4. ASSUME NEW o \in Observers, NEW j \in Jobs, ListActive(o, j) \/ ListFinal(o, j)
      PROVE  FinalStep(i)
  BY <1>4 DEF ListActive, ListFinal, FinalStep
<1>5. CASE WebStops \/ UNCHANGED vars
  BY <1>5 DEF WebStops, vars, FinalStep
<1>. QED
  BY <1>1, <1>2, <1>3, <1>4, <1>5, SubmitFinal, WorkFinal, ReviewFinal, SettleFinal DEF Next

----------------------------------------------------------------------------
(* What a step does to the jobs it does not work on, and to its own.       *)

Spent(j) == Terminal(j) /\ ~Active(j)

\* Nothing of job i that others go by changes.
Still(i) ==
    /\ row'[i] = row[i] /\ sub'[i] = sub[i] /\ proc'[i] = proc[i]
    /\ helper'[i] = helper[i] /\ unlabelled'[i] = unlabelled[i]

\* The row of j keeps its reservation, or none, as it was.
RowQuiet(j) ==
    /\ Active(j)' <=> Active(j)
    /\ Spent(j)' <=> Spent(j)
    /\ row'[j].res = row[j].res
    /\ row'[j].status = "none" <=> row[j].status = "none"

\* The row of j gives its reservation up.
RowEnds(j) ==
    /\ Active(j) /\ Spent(j)'
    /\ row'[j].res = row[j].res /\ row[j].status # "none"

\* A step that works on job j only and neither admits nor retargets it.
Moves(j) == (\A i \in Jobs \ {j} : Still(i)) /\ (RowQuiet(j) \/ RowEnds(j))

(* An unchanged row is quiet.                                              *)
LEMMA QuietRow ==
    ASSUME NEW j \in Jobs,
           row'[j].status = row[j].status, row'[j].outcome = row[j].outcome,
           row'[j].res = row[j].res
    PROVE  RowQuiet(j)
  BY DEF RowQuiet, Spent, Active, Running, Uncertain, Terminal

(* A result ends the reservation unless it is uncertain.                   *)
LEMMA FinishJobMoves ==
    ASSUME RowsTyped, NEW j \in Jobs, NEW status \in {"succeeded", "failed"},
           NEW outcome \in Outcomes, FinishJob(j, status, outcome)
    PROVE  /\ \A i \in Jobs \ {j} : row'[i] = row[i]
           /\ RowQuiet(j) \/ RowEnds(j)
           /\ Running(j) /\ outcome # "recovery_required" => RowEnds(j)
<1>1. /\ RowStep(j) /\ row'[j].res = row[j].res
      /\ Running(j) => row'[j].status = status /\ row'[j].outcome = outcome
      /\ ~Running(j) => row' = row
  BY FinishJobEffect
<1>2. CASE Running(j) /\ outcome # "recovery_required"
  BY <1>1, <1>2 DEF RowStep, RowEnds, Spent, Active, Running, Uncertain, Terminal
<1>3. CASE Running(j) /\ outcome = "recovery_required"
  BY <1>1, <1>3 DEF RowStep, RowQuiet, Spent, Active, Running, Uncertain, Terminal
<1>4. CASE ~Running(j)
  BY <1>1, <1>4, QuietRow
<1>. QED
  BY <1>1, <1>2, <1>3, <1>4 DEF RowStep

(* Progress and registration keep the reservation.                         *)
LEMMA JobProgressMoves ==
    ASSUME RowsTyped, NEW j \in Jobs, NEW stage \in Stages, JobProgress(j, stage),
           lock' = lock
    PROVE  (\A i \in Jobs \ {j} : row'[i] = row[i]) /\ RowQuiet(j)
  BY JobProgressEffect, QuietRow DEF RowStep

(* Likewise the registration of a worker.                                  *)
LEMMA SetJobWorkerMoves ==
    ASSUME RowsTyped, NEW j \in Jobs, NEW worker \in {"name", "id"},
           SetJobWorker(j, worker), lock' = lock
    PROVE  (\A i \in Jobs \ {j} : row'[i] = row[i]) /\ RowQuiet(j)
  BY SetJobWorkerEffect, QuietRow DEF RowStep

(* The request works on its own job.                                       *)
LEMMA SubmitMoves ==
    ASSUME RowsTyped, CellsTyped, NEW j \in Jobs,
           \/ Submit(j) \/ DirectCall(j) \/ StorageFails(j)
           \/ StartUnlabelled(j) \/ UnlabelledEnds(j)
    PROVE  Moves(j)
<1>1. \A i \in Jobs \ {j} :
         /\ sub'[i] = sub[i] /\ proc'[i] = proc[i]
         /\ helper'[i] = helper[i] /\ unlabelled'[i] = unlabelled[i]
  BY DEF Submit, BeginDirect, FinishDirect, LaunchRestart, RegisterWorker, CreateWorker,
         ConfirmWorker, StartWorker, AfterPlainError, AfterUncertainLaunch, DirectCall,
         StartUnlabelled, UnlabelledEnds, StorageFails, Goto, LaunchUncertain, CellsTyped
<1>2. ASSUME UNCHANGED row PROVE Moves(j)
  BY <1>1, <1>2, QuietRow DEF Moves, Still
<1>3. CASE FinishDirect(j) \/ AfterPlainError(j) \/ AfterUncertainLaunch(j)
  <2>1. PICK s \in {"succeeded", "failed"}, o \in Outcomes : FinishJob(j, s, o)
    BY <1>3 DEF FinishDirect, AfterPlainError, AfterUncertainLaunch, Outcomes
  <2>. QED
    BY <1>1, <2>1, FinishJobMoves DEF Moves, Still
<1>4. CASE BeginDirect(j)
  BY <1>1, <1>4, JobProgressMoves DEF BeginDirect, Moves, Still, Stages
<1>5. CASE RegisterWorker(j) \/ ConfirmWorker(j)
  <2>1. lock' = lock
    BY <1>5 DEF RegisterWorker, ConfirmWorker
  <2>2. row' = row \/ \E w \in {"name", "id"} : SetJobWorker(j, w)
    BY <1>5 DEF RegisterWorker, ConfirmWorker
  <2>. QED
    BY <1>1, <1>2, <2>1, <2>2, SetJobWorkerMoves DEF Moves, Still
<1>6. CASE \/ LaunchRestart(j) \/ CreateWorker(j) \/ StartWorker(j)
           \/ DirectCall(j) \/ StartUnlabelled(j) \/ UnlabelledEnds(j) \/ StorageFails(j)
  BY <1>2, <1>6 DEF LaunchRestart, CreateWorker, StartWorker, DirectCall, StorageFails, StartUnlabelled,
              UnlabelledEnds
<1>. QED
  BY <1>3, <1>4, <1>5, <1>6 DEF Submit

(* So does the worker, unless it restarts Yard or retargets its job.       *)
LEMMA WorkMoves ==
    ASSUME RowsTyped, CellsTyped, NEW j \in Jobs,
           Work(j) \/ WorkerExits(j) \/ HelperEnds(j)
    PROVE  Moves(j) \/ Mutate(j) \/ \E r \in Resources : RetargetJob(j, r)
<1>. SUFFICES ASSUME ~Mutate(j), \A r \in Resources : ~RetargetJob(j, r) PROVE Moves(j)
  OBVIOUS
<1>1. \A i \in Jobs \ {j} :
         /\ sub'[i] = sub[i] /\ proc'[i] = proc[i]
         /\ helper'[i] = helper[i] /\ unlabelled'[i] = unlabelled[i]
  BY DEF Work, ValidateWorker, ClaimJob, BeginMutation, BeginVerification, VerifyTarget,
         CommandFails, RetainImages, RecordUnchanged, RecordSuccess, CommitFails,
         RecordPartial, SaveFailure, RecordFailure, StartHelper, RollBack, WorkerExits,
         HelperEnds, Become, CellsTyped
<1>2. CASE RecordUnchanged(j) \/ RecordSuccess(j) \/ RecordPartial(j) \/ RecordFailure(j)
  <2>1. PICK s \in {"succeeded", "failed"}, o \in Outcomes : FinishJob(j, s, o)
    BY <1>2 DEF RecordUnchanged, RecordSuccess, RecordPartial, RecordFailure, Outcomes
  <2>. QED
    BY <1>1, <2>1, FinishJobMoves DEF Moves, Still
<1>3. CASE \/ RetainImages(j) \/ BeginMutation(j) \/ BeginVerification(j)
           \/ VerifyTarget(j) \/ RollBack(j) \/ SaveFailure(j)
  <2>1. PICK stage \in Stages : JobProgress(j, stage)
    BY <1>3 DEF RetainImages, BeginMutation, BeginVerification, VerifyTarget, RollBack,
                SaveFailure, Stages
  <2>2. lock' = lock
    BY <1>3 DEF RetainImages, BeginMutation, BeginVerification, VerifyTarget, RollBack,
                SaveFailure
  <2>. QED
    BY <1>1, <2>1, <2>2, JobProgressMoves DEF Moves, Still
<1>4. CASE ClaimJob(j)
  <2>1. row[j] \in Row
    BY DEF RowsTyped
  <2>2. row' = row \/ row' = [row EXCEPT ![j] = [@ EXCEPT !.stage = "preparing", !.started = TRUE]]
    BY <1>4 DEF ClaimJob
  <2>3. /\ \A i \in Jobs \ {j} : row'[i] = row[i]
        /\ row'[j].status = row[j].status /\ row'[j].outcome = row[j].outcome
        /\ row'[j].res = row[j].res
    BY ZenonT(40), <2>1, <2>2 DEF RowsTyped, Row
  <2>. QED
    BY <1>1, <2>3, QuietRow DEF Moves, Still
<1>5. CASE \/ ValidateWorker(j) \/ StartHelper(j) \/ CommandFails(j)
           \/ CommitFails(j) \/ WorkerExits(j) \/ HelperEnds(j)
  <2>1. row' = row
    BY <1>5 DEF ValidateWorker, StartHelper, CommandFails, CommitFails, WorkerExits,
                HelperEnds
  <2>. QED
    BY <1>1, <2>1, QuietRow DEF Moves, Still
<1>. QED
  BY <1>2, <1>3, <1>4, <1>5 DEF Work

(* The review works on its own job, and admits nothing.                    *)
LEMMA ReviewMoves ==
    ASSUME RowsTyped, CellsTyped, NEW j \in Jobs, JobInv(j), Review(j) \/ GraceExpires(j)
    PROVE  Moves(j)
<1>1. \A i \in Jobs \ {j} :
         /\ sub'[i] = sub[i] /\ proc'[i] = proc[i]
         /\ helper'[i] = helper[i] /\ unlabelled'[i] = unlabelled[i]
  BY DEF Review, InspectForReview, AcknowledgeRecovery, CleanupReviewed, GraceExpires
<1>2. CASE AcknowledgeRecovery(j)
  <2>. DEFINE new == [row[j] EXCEPT !.outcome = "recovery_acknowledged",
                                    !.stage = "completed", !.cleaned = FALSE]
  <2>1. row[j] \in Row
    BY DEF RowsTyped
  <2>2. /\ new.status = row[j].status /\ new.outcome = "recovery_acknowledged"
        /\ new.res = row[j].res
    BY <2>1 DEF Row
  <2>3. \/ row' = row
        \/ row' = [row EXCEPT ![j] = new] /\ Uncertain(j) /\ row[j].status = "failed"
    BY <1>2 DEF AcknowledgeRecovery
  <2>. HIDE DEF new
  <2>4. CASE row' = row
    BY <1>1, <2>4, QuietRow DEF Moves, Still
  <2>5. CASE row' = [row EXCEPT ![j] = new] /\ Uncertain(j) /\ row[j].status = "failed"
    <3>1. row'[j] = new /\ \A i \in Jobs \ {j} : row'[i] = row[i]
      BY <2>5 DEF RowsTyped
    <3>2. RowEnds(j)
      BY <2>2, <2>5, <3>1 DEF RowEnds, Spent, Active, Running, Uncertain, Terminal
    <3>. QED
      BY <1>1, <3>1, <3>2 DEF Moves, Still
  <2>. QED
    BY <2>3, <2>4, <2>5
<1>3. CASE CleanupReviewed(j)
  <2>1. CASE row' = [row EXCEPT ![j].cleanupError = TRUE]
    <3>1. lock' = lock
      BY <1>3 DEF CleanupReviewed
    <3>. QED
      BY <1>1, <2>1, <3>1, CleanupErrorEffect, QuietRow DEF Moves, Still, RowStep
  <2>2. CASE row' = row
    BY <1>1, <2>2, QuietRow DEF Moves, Still
  <2>. QED
    BY <1>3, <2>1, <2>2 DEF CleanupReviewed
<1>4. CASE InspectForReview(j) \/ GraceExpires(j)
  <2>1. row' = row
    BY <1>4 DEF InspectForReview, GraceExpires
  <2>. QED
    BY <1>1, <2>1, QuietRow DEF Moves, Still
<1>. QED
  BY <1>2, <1>3, <1>4 DEF Review

(* An observer works on the job it listed.                                 *)
LEMMA SettleMoves ==
    ASSUME RowsTyped, CellsTyped, NEW o \in Observers, ObserverInv(o), Settle(o)
    PROVE  obs[o].job \in Jobs /\ Moves(obs[o].job)
<1>1. PICK j \in Jobs : obs[o].job = j
  BY DEF Settle, InspectWorker, VerifyExited, RecordReconciled, RecordUncertain, CleanWorker,
         WorkerCleaned, ObserverInv
<1>2. \A i \in Jobs \ {j} :
         /\ sub'[i] = sub[i] /\ proc'[i] = proc[i]
         /\ helper'[i] = helper[i] /\ unlabelled'[i] = unlabelled[i]
  BY <1>1 DEF Settle, InspectWorker, VerifyExited, RecordReconciled, RecordUncertain,
              CleanWorker, WorkerCleaned, Become, CellsTyped
<1>3. ASSUME row' = row PROVE Moves(j)
  BY <1>2, <1>3, QuietRow DEF Moves, Still
<1>4. CASE RecordReconciled(o) \/ RecordUncertain(o)
  <2>1. PICK s \in {"succeeded", "failed"}, out \in Outcomes : FinishJob(j, s, out)
    BY <1>1, <1>4 DEF RecordReconciled, RecordUncertain, Outcomes
  <2>. QED
    BY <1>1, <1>2, <2>1, FinishJobMoves DEF Moves, Still
<1>5. CASE CleanWorker(o)
  <2>1. lock' = lock
    BY <1>5 DEF CleanWorker
  <2>2. CASE row' = [row EXCEPT ![j].cleanupError = TRUE]
    BY <1>1, <1>2, <2>1, <2>2, CleanupErrorEffect, QuietRow DEF Moves, Still, RowStep
  <2>. QED
    BY <1>1, <1>3, <1>5, <2>2 DEF CleanWorker
<1>6. CASE WorkerCleaned(o)
  <2>1. row[j] \in Row /\ row' = [row EXCEPT ![j] = MarkCleaned(row[j], obs[o].pc = "mark")]
    BY <1>1, <1>6 DEF WorkerCleaned, RowsTyped
  <2>. DEFINE new == MarkCleaned(row[j], obs[o].pc = "mark")
  <2>2. /\ new.status = row[j].status /\ new.outcome = row[j].outcome
        /\ new.res = row[j].res
    <3>1. CASE obs[o].pc = "mark"
      BY <2>1, <3>1 DEF MarkCleaned, Row
    <3>2. CASE obs[o].pc # "mark"
      BY <2>1, <3>2 DEF MarkCleaned, Row
    <3>. QED
      BY <3>1, <3>2
  <2>3. row' = [row EXCEPT ![j] = new]
    BY <2>1
  <2>. HIDE DEF new
  <2>4. row'[j] = new /\ \A i \in Jobs \ {j} : row'[i] = row[i]
    BY <2>3 DEF RowsTyped
  <2>. QED
    BY <1>1, <1>2, <2>2, <2>4, QuietRow DEF Moves, Still
<1>7. CASE InspectWorker(o) \/ VerifyExited(o)
  BY <1>1, <1>3, <1>7 DEF InspectWorker, VerifyExited
<1>. QED
  BY <1>1, <1>4, <1>5, <1>6, <1>7 DEF Settle

----------------------------------------------------------------------------
(* The results that deletions rest on.                                     *)

(* A row that exists keeps existing, with at least the resources it had;   *)
(* a new one has a scope.                                                  *)
LEMMA ScopesStay ==
    ASSUME WorkInv, ResultInv, [Next]_vars, NEW i \in Jobs, row'[i].status # "none"
    PROVE  row'[i].res # {}
<1>1. RowsTyped /\ CellsTyped /\ JobInv(i) /\ row[i] \in Row
  BY Parts DEF Sound, RowsTyped
<1>2. ASSUME row'[i].status = "none" <=> row[i].status = "none", row'[i].res = row[i].res
      PROVE  row'[i].res # {}
  BY <1>2 DEF ResultInv
<1>3. ASSUME NEW j \in Jobs, Moves(j) PROVE row'[i].res # {}
  <2>1. CASE i = j /\ RowQuiet(j)
    BY <1>2, <2>1 DEF RowQuiet
  <2>2. CASE i = j /\ RowEnds(j)
    BY <2>2 DEF RowEnds, ResultInv
  <2>3. CASE i # j
    BY <1>2, <1>3, <2>3 DEF Moves, Still
  <2>. QED
    BY <1>3, <2>1, <2>2, <2>3 DEF Moves
<1>4. ASSUME NEW j \in Jobs, NEW r \in Resources, RetargetJob(j, r)
      PROVE  row'[i].res # {}
  <2>1. row' = row \/ row' = [row EXCEPT ![j].res = row[j].res \cup {r}]
    BY <1>4 DEF RetargetJob
  <2>. DEFINE new == [row[j] EXCEPT !.res = row[j].res \cup {r}]
  <2>2. new.status = row[j].status /\ row[j].res \subseteq new.res
    BY DEF RowsTyped, Row
  <2>3. row' = row \/ row' = [row EXCEPT ![j] = new]
    BY <2>1
  <2>. HIDE DEF new
  <2>4. row'[i].status = row[i].status /\ row[i].res \subseteq row'[i].res
    BY <1>1, <2>2, <2>3 DEF RowsTyped
  <2>. QED
    BY <2>4 DEF ResultInv
<1>5. ASSUME NEW j \in Jobs, NEW route \in Routes[j], NEW R \in Scopes,
             CreateJob(j, route, R)
      PROVE  row'[i].res # {}
  <2>1. CASE i = j
    BY <1>1, <1>5, <2>1, ConstantsAssumption DEF CreateJob, NewJob, RowsTyped
  <2>2. CASE i # j
    BY <1>1, <1>2, <1>5, <2>2 DEF CreateJob, RowsTyped
  <2>. QED
    BY <2>1, <2>2
<1>6. CASE WebStarts
  <2>1. row'[i].status = "none" <=> row[i].status = "none"
    BY <1>1, <1>6 DEF WebStarts, Abandoned, Running, RowsTyped, Row
  <2>2. row'[i].res = row[i].res
    BY <1>1, <1>6 DEF WebStarts, RowsTyped, Row
  <2>. QED
    BY <1>2, <2>1, <2>2
<1>7. ASSUME row' = row PROVE row'[i].res # {}
  BY <1>2, <1>7
<1>8. ASSUME NEW j \in Jobs, Mutate(j) PROVE row'[i].res # {}
  BY <1>7, <1>8 DEF Mutate
<1>9. ASSUME NEW o \in Observers, NEW j \in Jobs, ListActive(o, j) \/ ListFinal(o, j)
      PROVE  row'[i].res # {}
  BY <1>7, <1>9 DEF ListActive, ListFinal
<1>10. CASE WebStops \/ UNCHANGED vars
  BY <1>7, <1>10 DEF WebStops, vars
<1>11. ASSUME NEW j \in Jobs,
             \/ Submit(j) \/ DirectCall(j) \/ StorageFails(j)
             \/ StartUnlabelled(j) \/ UnlabelledEnds(j)
     
       PROVE  row'[i].res # {}
  BY <1>1, <1>3, <1>11, SubmitMoves
<1>12. ASSUME NEW j \in Jobs, Work(j) \/ WorkerExits(j) \/ HelperEnds(j)
       PROVE  row'[i].res # {}
  BY <1>1, <1>3, <1>4, <1>8, <1>12, WorkMoves
<1>13. ASSUME NEW j \in Jobs, Review(j) \/ GraceExpires(j) PROVE row'[i].res # {}
  <2>1. JobInv(j)
    BY Parts DEF Sound
  <2>. QED
    BY <1>1, <1>3, <1>13, <2>1, ReviewMoves
<1>14. ASSUME NEW o \in Observers, Settle(o) PROVE row'[i].res # {}
  <2>1. ObserverInv(o)
    BY Parts
  <2>. QED
    BY <1>1, <1>3, <1>14, <2>1, SettleMoves
<1>. QED
  BY <1>5, <1>6, <1>9, <1>10, <1>11, <1>12, <1>13, <1>14 DEF Next

(* A review starts its cleanup with its own write.                         *)
LEMMA CleaningStarts ==
    ASSUME RowsTyped, CellsTyped, [Next]_vars, NEW i \in Jobs,
           review'[i] = "cleaning", review[i] # "cleaning"
    PROVE  row'[i].outcome = "recovery_acknowledged"
<1>1. ASSUME NEW j \in Jobs, AcknowledgeRecovery(j)
      PROVE  row'[i].outcome = "recovery_acknowledged"
  <2>1. j = i
    BY <1>1 DEF AcknowledgeRecovery, CellsTyped
  <2>. DEFINE new == [row[i] EXCEPT !.outcome = "recovery_acknowledged",
                                    !.stage = "completed", !.cleaned = FALSE]
  <2>2. row' = [row EXCEPT ![i] = new]
    BY <1>1, <2>1 DEF AcknowledgeRecovery, CellsTyped
  <2>3. new.outcome = "recovery_acknowledged"
    BY DEF RowsTyped, Row
  <2>. HIDE DEF new
  <2>. QED
    BY <2>2, <2>3 DEF RowsTyped
<1>2. ASSUME NEW j \in Jobs, InspectForReview(j) \/ CleanupReviewed(j)
      PROVE  review'[i] # "cleaning" \/ review'[i] = review[i]
  BY <1>2 DEF InspectForReview, CleanupReviewed, CellsTyped
<1>3. ASSUME NEW j \in Jobs,
             \/ StartUnlabelled(j) \/ UnlabelledEnds(j)
             \/ Submit(j) \/ DirectCall(j) \/ StorageFails(j) \/ WorkerExits(j) \/ HelperEnds(j)
             \/ GraceExpires(j)
             \/ \E route \in Routes[j], R \in Scopes : CreateJob(j, route, R)
      PROVE  review' = review
  BY <1>3 DEF Submit, BeginDirect, FinishDirect, LaunchRestart, RegisterWorker, CreateWorker,
              ConfirmWorker, StartWorker, AfterPlainError, AfterUncertainLaunch, DirectCall,
              StartUnlabelled, UnlabelledEnds, StorageFails, WorkerExits, HelperEnds, GraceExpires, CreateJob
<1>4. ASSUME NEW j \in Jobs, Work(j) PROVE review'[i] # "cleaning" \/ review' = review
  BY <1>4 DEF Work, ValidateWorker, ClaimJob, BeginMutation, BeginVerification, VerifyTarget,
              CommandFails, RetainImages, RecordUnchanged, RecordSuccess, CommitFails,
              RecordPartial, SaveFailure, RecordFailure, StartHelper, RollBack, Mutate,
              RetargetJob
<1>5. ASSUME NEW o \in Observers,
             Settle(o) \/ \E j \in Jobs : ListActive(o, j) \/ ListFinal(o, j)
      PROVE  review' = review
  BY <1>5 DEF Settle, InspectWorker, VerifyExited, RecordReconciled, RecordUncertain,
              CleanWorker, WorkerCleaned, ListActive, ListFinal
<1>6. CASE WebStops \/ WebStarts \/ UNCHANGED vars
  BY <1>6 DEF WebStops, WebStarts, vars
<1>. QED
  BY <1>1, <1>2, <1>3, <1>4, <1>5, <1>6 DEF Next, Review

(* An observer cleans up after a row it has just listed.                   *)
LEMMA CleanIsListed ==
    ASSUME ObsTyped, [Next]_vars, NEW o \in Observers,
           obs'[o].pc = "clean", obs'[o] # obs[o]
    PROVE  \E j \in Jobs : /\ Terminal(j) /\ row' = row
                           /\ obs'[o].job = j /\ obs'[o].snap = Snap(j)
<1>. USE DEF ObsTyped
<1>1. ASSUME NEW p \in Observers, NEW j \in Jobs, ListFinal(p, j)
      PROVE  \E k \in Jobs : /\ Terminal(k) /\ row' = row
                             /\ obs'[o].job = k /\ obs'[o].snap = Snap(k)
  BY <1>1 DEF ListFinal, Observe
<1>2. ASSUME NEW p \in Observers, NEW j \in Jobs, ListActive(p, j) PROVE FALSE
  BY <1>2 DEF ListActive, Observe
<1>3. ASSUME NEW p \in Observers, Settle(p) PROVE FALSE
  <2>1. PICK pc \in {"verify", "record", "settle", "mark", "markReview"} :
           Rest(p) \/ Continue(p, pc)
    BY <1>3 DEF Settle, InspectWorker, VerifyExited, RecordReconciled, RecordUncertain,
                CleanWorker, WorkerCleaned
  <2>2. CASE Rest(p)
    BY <2>2 DEF Rest, Idle
  <2>3. CASE Continue(p, pc)
    BY <2>3 DEF Continue
  <2>. QED
    BY <2>1, <2>2, <2>3
<1>4. ASSUME NEW j \in Jobs,
             \/ StartUnlabelled(j) \/ UnlabelledEnds(j)
             \/ Submit(j) \/ DirectCall(j) \/ StorageFails(j) \/ WorkerExits(j) \/ HelperEnds(j)
             \/ GraceExpires(j) \/ Review(j)
             \/ \E route \in Routes[j], R \in Scopes : CreateJob(j, route, R)
      PROVE  obs' = obs
  BY <1>4 DEF Submit, BeginDirect, FinishDirect, LaunchRestart, RegisterWorker, CreateWorker,
              ConfirmWorker, StartWorker, AfterPlainError, AfterUncertainLaunch, DirectCall,
              StartUnlabelled, UnlabelledEnds, StorageFails, WorkerExits, HelperEnds, GraceExpires, CreateJob, Review,
              InspectForReview, AcknowledgeRecovery, CleanupReviewed
<1>5. ASSUME obs' = [p \in Observers |-> Idle] PROVE FALSE
  BY <1>5 DEF Idle
<1>6. ASSUME NEW j \in Jobs, Work(j) PROVE obs' = obs \/ obs' = [p \in Observers |-> Idle]
  BY <1>6 DEF Work, ValidateWorker, ClaimJob, BeginMutation, BeginVerification, VerifyTarget,
              CommandFails, RetainImages, RecordUnchanged, RecordSuccess, CommitFails,
              RecordPartial, SaveFailure, RecordFailure, StartHelper, RollBack, Mutate,
              RetargetJob
<1>7. CASE WebStops \/ WebStarts \/ UNCHANGED vars
  BY <1>5, <1>7 DEF WebStops, WebStarts, vars
<1>. QED
  BY <1>1, <1>2, <1>3, <1>4, <1>5, <1>6, <1>7 DEF Next

(* The results stand.                                                      *)
LEMMA ResultsStand ==
    ASSUME WorkInv, ResultInv, [Next]_vars PROVE ResultInv'
<1>1. RowsTyped /\ CellsTyped /\ ObsTyped /\ \A i \in Jobs : JobInv(i) /\ FinalStep(i)
  BY Parts, NextFinal DEF Sound
<1>2. ASSUME NEW i \in Jobs, row'[i].status # "none" PROVE row'[i].res # {}
  BY <1>2, ScopesStay
<1>3. ASSUME NEW i \in Jobs, review'[i] = "cleaning" PROVE ~Uncertain(i)'
  <2>1. CASE review[i] # "cleaning"
    BY <1>1, <1>3, <2>1, CleaningStarts DEF Uncertain
  <2>2. CASE review[i] = "cleaning"
    BY ZenonT(40), <1>1, <2>2 DEF ResultInv, JobInv, FinalStep, Uncertain
  <2>. QED
    BY <2>1, <2>2
<1>4. ASSUME NEW o \in Observers, obs'[o].pc = "clean",
             row'[obs'[o].job].outcome = "recovery_required"
      PROVE  obs'[o].snap.status = "failed" /\ obs'[o].snap.outcome = "recovery_required"
  <2>1. CASE obs'[o] = obs[o]
    <3>1. PICK j \in Jobs : obs[o].job = j /\ Terminal(j)
      BY <1>4, <2>1, Parts DEF ObserverInv
    <3>2. Uncertain(j)
      BY <1>1, <1>4, <2>1, <3>1 DEF FinalStep, Uncertain
    <3>. QED
      BY <1>4, <2>1, <3>1, <3>2 DEF ResultInv
  <2>2. CASE obs'[o] # obs[o]
    <3>1. PICK j \in Jobs : row' = row /\ obs'[o].job = j /\ obs'[o].snap = Snap(j)
      BY <1>1, <1>4, <2>2, CleanIsListed
    <3>2. Uncertain(j)
      BY <1>4, <3>1 DEF Uncertain
    <3>3. row[j].status = "failed"
      BY <1>1, <3>2 DEF JobInv
    <3>. QED
      BY <3>1, <3>2, <3>3 DEF Snap, Uncertain
  <2>. QED
    BY <2>1, <2>2
<1>. QED
  BY <1>2, <1>3, <1>4 DEF ResultInv, Uncertain

----------------------------------------------------------------------------
(* The theorems.                                                           *)

(* The empty store has no results.                                         *)
LEMMA InitResults == Init => ResultInv
<1>. SUFFICES ASSUME Init PROVE ResultInv
  OBVIOUS
<1>1. NoRow.status = "none"
  BY DEF NoRow, NewJob
<1>2. Idle.pc = "idle"
  BY DEF Idle
<1>. QED
  BY <1>1, <1>2 DEF Init, ResultInv

(* JobsInv holds in every reachable state, for any number of jobs,         *)
(* resources and observers, whichever helpers outlive their request.       *)
THEOREM Invariance == Spec => []JobsInv
<1>1. Init => JobsInv
  BY InitHolds, InitResults DEF JobsInv
<1>2. ASSUME JobsInv, [Next]_vars PROVE JobsInv'
  <2>1. WorkInv'
    BY <1>2, NextKeeps DEF JobsInv
  <2>2. ResultInv'
    BY <1>2, ResultsStand DEF JobsInv
  <2>. QED
    BY <2>1, <2>2 DEF JobsInv
<1>. QED
  BY <1>1, <1>2, PTL DEF Spec

(* Rows, reservations and processes keep their types.                      *)
THEOREM TypeCorrect == Spec => []TypeOK
<1>1. JobsInv => TypeOK
  BY DEF JobsInv, WorkInv
<1>. QED
  BY <1>1, Invariance, PTL

(* A reservation is held exactly for the jobs that are running or          *)
(* uncertain, whatever requests, workers, observers, reviews and restarts  *)
(* do (insertJob, RetargetJob, finishJobTx, AcknowledgeRecovery).          *)
THEOREM ReservationsAreExact == Spec => []ReservationsExact
<1>1. JobsInv => ReservationsExact
  BY DEF JobsInv, WorkInv
<1>. QED
  BY <1>1, Invariance, PTL

(* Work is done only under a reservation, by every worker, labelled helper *)
(* and request; what may go on without one is the unlabelled helper that a *)
(* failed direct request left behind (HelperRetainsOwnership is violated). *)
THEOREM WorkNeedsReservation == Spec => []WorkIsReserved
<1>1. JobsInv => WorkIsReserved
  BY DEF JobsInv, WorkInv
<1>. QED
  BY <1>1, Invariance, PTL

(* Two jobs at work never share a resource, unless all that works for one  *)
(* of them is the helper that its failed request left behind.              *)
THEOREM MutualExclusion == Spec => []TargetExclusive
<1>1. ASSUME JobsInv PROVE TargetExclusive
  <2>. SUFFICES ASSUME NEW i \in Jobs, NEW j \in Jobs, i # j, Touching(i), Touching(j),
                       ~Stray(i), ~Stray(j), NEW r \in row[i].res \cap row[j].res
                PROVE  FALSE
    BY DEF TargetExclusive
  <2>1. RowsTyped
    BY <1>1, Parts DEF JobsInv
  <2>2. row[i] \in Row
    BY <2>1 DEF RowsTyped
  <2>3. r \in Resources
    BY <2>2 DEF Row
  <2>4. lock[r] = i /\ lock[r] = j
    BY <1>1, <2>3 DEF JobsInv, WorkInv, WorkIsReserved, ReservationsExact
  <2>. QED
    BY <2>4
<1>. QED
  BY <1>1, Invariance, PTL

(* Success is recorded only for a completed target.                        *)
THEOREM SuccessIsReal == Spec => []SucceededIsComplete
<1>1. JobsInv => SucceededIsComplete
  BY DEF JobsInv, WorkInv
<1>. QED
  BY <1>1, Invariance, PTL

----------------------------------------------------------------------------
(* Action properties.                                                      *)

(* A job that has given its reservation up starts nothing any more, and    *)
(* changes its target only by a helper that its failed request had started. *)
THEOREM NoMutationAfterRelease == Spec => NoLateMutation
<1>1. ASSUME JobsInv, [Next]_vars
      PROVE  \A j \in Jobs : Terminal(j) /\ ~Active(j) =>
                /\ target'[j] = target[j] \/ Stray(j)
                /\ unlabelled'[j] => unlabelled[j]
  <2>1. CellsTyped
    BY <1>1, Parts DEF JobsInv
  <2>. SUFFICES ASSUME NEW j \in Jobs, Terminal(j), ~Active(j)
                PROVE  /\ target'[j] = target[j] \/ Stray(j)
                       /\ unlabelled'[j] => unlabelled[j]
    OBVIOUS
  <2>2. target'[j] = target[j] \/ Stray(j)
    BY <1>1, <2>1, TargetStep DEF JobsInv, WorkInv, WorkIsReserved
  <2>3. unlabelled'[j] => unlabelled[j]
    BY <1>1, HelperStep DEF JobsInv, Terminal, Running
  <2>. QED
    BY <2>2, <2>3
<1>2. Spec => []JobsInv
  BY Invariance
<1>. QED
  BY <1>1, <1>2, PTL DEF Spec, NoLateMutation

(* A durable result is never overwritten: not by a worker that reports     *)
(* after the observer, not by a second observer, not by a restart.         *)
THEOREM ResultsAreFinal == Spec => TerminalIsFinal
<1>1. JobsInv /\ [Next]_vars =>
        \A j \in Jobs : Terminal(j) =>
            /\ row'[j].status = row[j].status
            /\ \/ row'[j].outcome = row[j].outcome
               \/ Uncertain(j) /\ row'[j].outcome = "recovery_acknowledged"
  BY NextFinal DEF JobsInv, FinalStep
<1>. QED
  BY <1>1, Invariance, PTL DEF Spec, TerminalIsFinal

----------------------------------------------------------------------------
(* Cleanup.                                                                *)

(* Only an observer that found worker and helpers gone removes a worker's  *)
(* container.                                                              *)
LEMMA RemovalStep ==
    ASSUME CellsTyped, [Next]_vars, NEW i \in Jobs,
           proc[i] # "absent", proc'[i] = "absent"
    PROVE  \E o \in Observers : obs[o].pc = "clean" /\ obs[o].job = i /\ ~Alive(i)
<1>1. ASSUME NEW o \in Observers, CleanWorker(o)
      PROVE  obs[o].pc = "clean" /\ obs[o].job = i /\ ~Alive(i)
  <2>1. /\ obs[o].pc = "clean"
        /\ proc' = proc \/ (~Alive(obs[o].job) /\ proc' = [proc EXCEPT ![obs[o].job] = "absent"])
    BY <1>1 DEF CleanWorker, Become
  <2>. QED
    BY <2>1 DEF CellsTyped
<1>2. ASSUME NEW j \in Jobs,
             \/ StartUnlabelled(j) \/ UnlabelledEnds(j)
             \/ Submit(j) \/ DirectCall(j) \/ StorageFails(j) \/ HelperEnds(j)
             \/ GraceExpires(j) \/ Review(j)
             \/ \E route \in Routes[j], R \in Scopes : CreateJob(j, route, R)
      PROVE  \/ proc' = proc
             \/ \E p \in {"created", "boot"} : proc' = [proc EXCEPT ![j] = p]
  BY <1>2 DEF Submit, BeginDirect, FinishDirect, LaunchRestart, RegisterWorker, CreateWorker,
              ConfirmWorker, StartWorker, AfterPlainError, AfterUncertainLaunch, DirectCall,
              StartUnlabelled, UnlabelledEnds, StorageFails, HelperEnds, GraceExpires, CreateJob, Review,
              InspectForReview, AcknowledgeRecovery, CleanupReviewed
<1>3. ASSUME NEW j \in Jobs, Work(j) \/ WorkerExits(j)
      PROVE  \/ proc' = proc
             \/ \E p \in ProcStates \ {"absent"} : proc' = [proc EXCEPT ![j] = p]
  BY <1>3 DEF Work, ValidateWorker, ClaimJob, BeginMutation, BeginVerification, VerifyTarget,
              CommandFails, RetainImages, RecordUnchanged, RecordSuccess, CommitFails,
              RecordPartial, SaveFailure, RecordFailure, StartHelper, RollBack, Mutate,
              RetargetJob, WorkerExits, Become, ProcStates, Live, Claimed
<1>4. ASSUME NEW o \in Observers,
             \/ InspectWorker(o) \/ VerifyExited(o) \/ RecordReconciled(o)
             \/ RecordUncertain(o) \/ WorkerCleaned(o)
             \/ \E j \in Jobs : ListActive(o, j) \/ ListFinal(o, j)
      PROVE  proc' = proc
  BY <1>4 DEF InspectWorker, VerifyExited, RecordReconciled, RecordUncertain, WorkerCleaned,
              ListActive, ListFinal
<1>5. CASE WebStops \/ WebStarts \/ UNCHANGED vars
  BY <1>5 DEF WebStops, WebStarts, vars
<1>6. ASSUME NEW j \in Jobs, NEW p \in ProcStates \ {"absent"}, proc' = [proc EXCEPT ![j] = p]
      PROVE  FALSE
  BY <1>6 DEF CellsTyped
<1>7. {"created", "boot"} \subseteq ProcStates \ {"absent"}
  BY DEF ProcStates, Live
<1>. QED
  BY <1>1, <1>2, <1>3, <1>4, <1>5, <1>6, <1>7 DEF Next, Settle

(* Cleanup never takes a worker that still runs, nor one whose job has no  *)
(* result: what the observer listed is still terminal when it acts.        *)
THEOREM CleanupSparesWorkers == Spec => CleanupSparesLive
<1>1. ASSUME JobsInv, [Next]_vars
      PROVE  \A j \in Jobs : proc[j] # "absent" /\ proc'[j] = "absent" =>
                 Terminal(j) /\ proc[j] \notin Live /\ ~helper[j]
  <2>1. CellsTyped /\ \A o \in Observers : ObserverInv(o)
    BY <1>1, Parts DEF JobsInv
  <2>. SUFFICES ASSUME NEW j \in Jobs, proc[j] # "absent", proc'[j] = "absent"
                PROVE  Terminal(j) /\ proc[j] \notin Live /\ ~helper[j]
    OBVIOUS
  <2>2. PICK o \in Observers : obs[o].pc = "clean" /\ obs[o].job = j /\ ~Alive(j)
    BY <1>1, <2>1, RemovalStep
  <2>. QED
    BY <2>1, <2>2 DEF ObserverInv, Alive
<1>. QED
  BY <1>1, Invariance, PTL DEF Spec, CleanupSparesLive

(* Retained images and originals are given up by a result that needs no    *)
(* review, by a worker that restores the originals, by a reviewed job's    *)
(* cleanup, or by an observer that listed such a result.                   *)
LEMMA RetainedStep ==
    ASSUME RowsTyped, CellsTyped, [Next]_vars, NEW i \in Jobs, retained[i], ~retained'[i]
    PROVE  \/ proc[i] = "fail"
           \/ RowEnds(i)
           \/ review[i] = "cleaning"
           \/ \E o \in Observers : /\ obs[o].pc = "clean" /\ obs[o].job = i
                                   /\ CleanupDeletes(i, obs[o].snap.status, obs[o].snap.outcome)
<1>1. ASSUME NEW j \in Jobs,
             RecordUnchanged(j) \/ RecordSuccess(j) \/ RecordFailure(j)
      PROVE  RowEnds(i)
  <2>1. Running(j) /\ i = j
    BY <1>1 DEF RecordUnchanged, RecordSuccess, RecordFailure, MayDropImages, CellsTyped
  <2>2. PICK s \in {"succeeded", "failed"}, o \in Outcomes \ {"recovery_required"} :
           FinishJob(j, s, o)
    BY <1>1 DEF RecordUnchanged, RecordSuccess, RecordFailure, MayDropImages, Outcomes
  <2>. QED
    BY <2>1, <2>2, FinishJobMoves
<1>2. ASSUME NEW j \in Jobs, RollBack(j) PROVE proc[i] = "fail"
  BY <1>2 DEF RollBack, CellsTyped
<1>3. ASSUME NEW j \in Jobs, CleanupReviewed(j) PROVE review[i] = "cleaning"
  BY <1>3 DEF CleanupReviewed, CellsTyped
<1>4. ASSUME NEW o \in Observers, CleanWorker(o)
      PROVE  /\ obs[o].pc = "clean" /\ obs[o].job = i
             /\ CleanupDeletes(i, obs[o].snap.status, obs[o].snap.outcome)
  <2>1. /\ obs[o].pc = "clean"
        /\ \/ retained' = retained
           \/ retained' = [retained EXCEPT ![obs[o].job] =
                  IF CleanupDeletes(obs[o].job, obs[o].snap.status, obs[o].snap.outcome)
                  THEN FALSE ELSE retained[obs[o].job]]
    BY <1>4 DEF CleanWorker
  <2>. QED
    BY <2>1 DEF CellsTyped
<1>5. ASSUME NEW j \in Jobs, Work(j)
      PROVE  \/ RecordUnchanged(j) \/ RecordSuccess(j) \/ RecordFailure(j) \/ RollBack(j)
             \/ retained' = retained
             \/ retained' = [retained EXCEPT ![j] = TRUE]
             \/ retained' = [retained EXCEPT ![j] = retained[j] \/ row[j].route = "recreate"]
  BY <1>5 DEF Work, ValidateWorker, ClaimJob, BeginMutation, BeginVerification, VerifyTarget,
              CommandFails, RetainImages, CommitFails,
              RecordPartial, SaveFailure, StartHelper, Mutate, RetargetJob
<1>6. ASSUME NEW j \in Jobs,
             \/ StartUnlabelled(j) \/ UnlabelledEnds(j)
             \/ Submit(j) \/ DirectCall(j) \/ StorageFails(j) \/ WorkerExits(j) \/ HelperEnds(j)
             \/ GraceExpires(j) \/ InspectForReview(j) \/ AcknowledgeRecovery(j)
             \/ \E route \in Routes[j], R \in Scopes : CreateJob(j, route, R)
      PROVE  retained' = retained
  BY <1>6 DEF Submit, BeginDirect, FinishDirect, LaunchRestart, RegisterWorker, CreateWorker,
              ConfirmWorker, StartWorker, AfterPlainError, AfterUncertainLaunch, DirectCall,
              StartUnlabelled, UnlabelledEnds, StorageFails, WorkerExits, HelperEnds, GraceExpires, CreateJob,
              InspectForReview, AcknowledgeRecovery
<1>7. ASSUME NEW o \in Observers,
             \/ InspectWorker(o) \/ VerifyExited(o) \/ RecordReconciled(o)
             \/ RecordUncertain(o) \/ WorkerCleaned(o)
             \/ \E j \in Jobs : ListActive(o, j) \/ ListFinal(o, j)
      PROVE  retained' = retained
  BY <1>7 DEF InspectWorker, VerifyExited, RecordReconciled, RecordUncertain, WorkerCleaned,
              ListActive, ListFinal
<1>8. CASE WebStops \/ WebStarts \/ UNCHANGED vars
  BY <1>8 DEF WebStops, WebStarts, vars
<1>9. ASSUME NEW j \in Jobs, Work(j) PROVE RowEnds(i) \/ proc[i] = "fail"
  <2>1. CASE \/ retained' = retained
             \/ retained' = [retained EXCEPT ![j] = TRUE]
             \/ retained' = [retained EXCEPT ![j] = retained[j] \/ row[j].route = "recreate"]
    BY <2>1 DEF CellsTyped
  <2>. QED
    BY <1>1, <1>2, <1>5, <1>9, <2>1
<1>. QED
  BY <1>3, <1>4, <1>6, <1>7, <1>8, <1>9 DEF Next, Settle, Review

(* What host review needs stays until the review, whichever observer,      *)
(* review or late worker comes by in between.                              *)
THEOREM ReviewFindsRetained == Spec => RecoveryKeepsRetained
<1>1. ASSUME JobsInv, [Next]_vars, NEW j \in Jobs, Active(j), Active(j)',
             retained[j], ~retained'[j]
      PROVE  proc[j] = "fail"
  <2>1. RowsTyped /\ CellsTyped /\ JobInv(j) /\ \A o \in Observers : ObserverInv(o)
    BY <1>1, Parts DEF JobsInv, Sound
  <2>2. ~RowEnds(j)
    BY <1>1 DEF RowEnds, Spent
  <2>3. review[j] # "cleaning"
    BY <1>1, <2>1 DEF JobInv, JobsInv, ResultInv, Active, Running, Terminal
  <2>4. ASSUME NEW o \in Observers, obs[o].pc = "clean", obs[o].job = j
        PROVE  ~CleanupDeletes(j, obs[o].snap.status, obs[o].snap.outcome)
    <3>1. Uncertain(j)
      BY <1>1, <2>1, <2>4 DEF ObserverInv, Active, Running, Terminal
    <3>2. obs[o].snap.status = "failed" /\ obs[o].snap.outcome = "recovery_required"
      BY <1>1, <2>4, <3>1 DEF JobsInv, ResultInv
    <3>. QED
      BY <3>2 DEF CleanupDeletes
  <2>. QED
    BY <1>1, <2>1, <2>2, <2>3, <2>4, RetainedStep
<1>2. JobsInv /\ [Next]_vars =>
        \A j \in Jobs : Active(j) /\ Active(j)' /\ retained[j] /\ ~retained'[j] =>
            proc[j] = "fail"
  BY <1>1
<1>. QED
  BY <1>2, Invariance, PTL DEF Spec, RecoveryKeepsRetained

----------------------------------------------------------------------------
(* OperationJobs implements Reservations.                                  *)

Mapped == [Promise!Next]_(Promise!rvars)
Acting == {j \in Jobs : Touching(j) /\ ~Stray(j)}
Left == {j \in Jobs : Stray(j)}
Past == {j \in Jobs : Spent(j)}

(* The mapping, spelled out.                                               *)
LEMMA Mapping ==
    /\ Promise!rvars = <<lock, Acting, Left, Past>>
    /\ Promise!rvars' = <<lock', Acting', Left', Past'>>
    /\ \A o : Promise!HeldBy(o) = {r \in Resources : lock[r] = o}
  BY DEF Promise!rvars, Promise!HeldBy, Acting, Left, Past, Spent

\* A job at work either holds its reservation or has left a helper behind.
Apart(j) ==
    /\ Touching(j) => Active(j) \/ Stray(j)
    /\ Stray(j) => unlabelled[j] /\ Touching(j) /\ ~Active(j)

\* What both ends of a step say about the table of reservations.
Exact ==
    /\ lock \in [Resources -> Jobs \cup {NoJob}]
    /\ lock' \in [Resources -> Jobs \cup {NoJob}]
    /\ \A j \in Jobs, r \in Resources : lock[r] = j <=> Active(j) /\ r \in row[j].res
    /\ \A j \in Jobs, r \in Resources : lock'[r] = j <=> Active(j)' /\ r \in row'[j].res
    /\ \A j \in Jobs : Apart(j) /\ Apart(j)'
    /\ \A j \in Jobs : unlabelled'[j] /\ ~unlabelled[j] => Active(j) /\ row' = row
    /\ \A j \in Jobs : row[j].res \subseteq Resources

(* The invariant at both ends.                                             *)
LEMMA ExactEnds == ASSUME WorkInv, WorkInv', [Next]_vars PROVE Exact
<1>1. RowsTyped /\ RowsTyped' /\ \A j \in Jobs : row[j] \in Row
  BY Parts DEF RowsTyped
<1>2. \A j \in Jobs : Sound(j) /\ Sound(j)'
  BY Parts
<1>3. ASSUME NEW j \in Jobs PROVE Apart(j)
  BY <1>2 DEF Apart, Sound, JobInv, Stray, Touching, Active, Running, Uncertain
<1>4. ASSUME NEW j \in Jobs PROVE Apart(j)'
  BY <1>2 DEF Apart, Sound, JobInv, Stray, Touching, Active, Running, Uncertain
<1>5. \A j \in Jobs : unlabelled'[j] /\ ~unlabelled[j] => Active(j) /\ row' = row
  BY HelperStep DEF Active
<1>6. /\ \A j \in Jobs, r \in Resources : lock[r] = j <=> Active(j) /\ r \in row[j].res
      /\ \A j \in Jobs, r \in Resources : lock'[r] = j <=> Active(j)' /\ r \in row'[j].res
  BY <1>2 DEF Sound
<1>. QED
  BY <1>1, <1>3, <1>4, <1>5, <1>6 DEF Exact, RowsTyped, Row

(* An active job holds something.                                          *)
LEMMA HoldsSomething ==
    ASSUME Exact, NEW j \in Jobs, Active(j), row[j].res # {}
    PROVE  Promise!HeldBy(j) # {}
  BY Mapping DEF Exact

(* When no reservation moves and work only stops, work only stops.         *)
LEMMA StopsMapped ==
    ASSUME Exact, \A i \in Jobs : RowQuiet(i),
           \A i \in Jobs : Touching(i)' => Touching(i)
    PROVE  Mapped
<1>1. lock' = lock
  <2>1. \A i \in Jobs, r \in Resources : lock'[r] = i <=> lock[r] = i
    BY DEF Exact, RowQuiet
  <2>2. \A r \in Resources : lock'[r] = lock[r]
    BY <2>1 DEF Exact
  <2>. QED
    BY <2>2 DEF Exact
<1>2. Past' = Past
  BY DEF Past, RowQuiet
<1>3. \A i \in Jobs : /\ i \in Acting' => i \in Acting
                      /\ i \in Left' => i \in Left
                      /\ i \in Acting' => i \notin Left
                      /\ i \in Left' => i \notin Acting
  <2>. SUFFICES ASSUME NEW i \in Jobs
                PROVE  /\ i \in Acting' => i \in Acting
                       /\ i \in Left' => i \in Left
                       /\ i \in Acting' => i \notin Left
                       /\ i \in Left' => i \notin Acting
    OBVIOUS
  <2>1. /\ Apart(i) /\ Apart(i)' /\ (Active(i)' <=> Active(i)) /\ (Touching(i)' => Touching(i))
    BY DEF Exact, RowQuiet
  <2>. QED
    BY <2>1 DEF Acting, Left, Apart
<1>. DEFINE S == (Acting \ Acting') \cup (Left \ Left')
<1>4. /\ Acting' = Acting \ S /\ Left' = Left \ S /\ S \in SUBSET Jobs
  <2>1. Acting \subseteq Jobs /\ Acting' \subseteq Jobs /\ Left \subseteq Jobs /\ Left' \subseteq Jobs
    BY DEF Acting, Left
  <2>. QED
    BY <1>3, <2>1
<1>5. Promise!StopActing(S)
  BY <1>1, <1>2, <1>4 DEF Promise!StopActing, Acting, Left, Past, Spent
<1>. QED
  BY <1>4, <1>5 DEF Mapped, Promise!Next

(* A step on one job starts or stops its work, or releases what it held.   *)
LEMMA MovesMapped ==
    ASSUME Exact, NEW j \in Jobs, Moves(j), row[j].status # "none" => row[j].res # {},
           row[j].status = "none" => ~Active(j)
    PROVE  Mapped
<1>1. \A i \in Jobs \ {j} :
         /\ RowQuiet(i) /\ row'[i] = row[i]
         /\ Touching(i)' <=> Touching(i)
         /\ Stray(i)' <=> Stray(i)
         /\ Active(i)' <=> Active(i)
         /\ Spent(i)' <=> Spent(i)
  BY DEF Moves, Still, RowQuiet, Touching, Stray, Active, Running, Uncertain, Spent, Terminal
<1>2. CASE RowQuiet(j) /\ (Touching(j)' => Touching(j))
  BY <1>1, <1>2, StopsMapped
<1>3. CASE RowQuiet(j) /\ Touching(j)' /\ ~Touching(j)
  <2>1. lock' = lock
    <3>1. \A i \in Jobs, r \in Resources : lock'[r] = i <=> lock[r] = i
      BY <1>1, <1>3 DEF Exact, RowQuiet
    <3>2. \A r \in Resources : lock'[r] = lock[r]
      BY <3>1 DEF Exact
    <3>. QED
      BY <3>2 DEF Exact
  <2>2. Past' = Past
    BY <1>1, <1>3 DEF Past, RowQuiet
  <2>3. Apart(j) /\ Apart(j)' /\ (Active(j)' <=> Active(j)) /\ ~unlabelled[j]
    BY <1>3 DEF Exact, RowQuiet, Touching
  <2>4. ~Stray(j)' /\ ~Stray(j) /\ Active(j)
    <3>1. unlabelled'[j] => Active(j)
      BY <2>3 DEF Exact
    <3>. QED
      BY <1>3, <2>3, <3>1 DEF Apart
  <2>5. Acting' = Acting \cup {j} /\ Left' = Left
    BY <1>1, <1>3, <2>4 DEF Acting, Left
  <2>6. Promise!HeldBy(j) # {}
    BY <2>4, HoldsSomething
  <2>7. Promise!StartActing(j)
    BY <2>1, <2>2, <2>5, <2>6 DEF Promise!StartActing, Acting, Left, Past, Spent
  <2>. QED
    BY <2>7 DEF Mapped, Promise!Next
<1>4. CASE RowEnds(j)
  <2>1. ~Active(j)' /\ Active(j) /\ Spent(j)' /\ row[j].res # {} /\ Apart(j) /\ Apart(j)'
    BY <1>4 DEF RowEnds, Spent, Exact
  <2>2. lock' = [r \in Resources |-> IF lock[r] = j THEN NoJob ELSE lock[r]]
    <3>1. \A i \in Jobs \ {j}, r \in Resources : lock'[r] = i <=> lock[r] = i
      BY <1>1 DEF Exact
    <3>2. \A r \in Resources : lock'[r] # j
      BY <2>1 DEF Exact
    <3>3. \A r \in Resources : lock'[r] = IF lock[r] = j THEN NoJob ELSE lock[r]
      BY <3>1, <3>2, ConstantsAssumption DEF Exact
    <3>. QED
      BY <3>3 DEF Exact
  <2>3. Past' = Past \cup {j}
    BY <1>1, <2>1 DEF Past
  <2>4. ~Stray(j) /\ (Touching(j)' => Stray(j)')
    BY <2>1 DEF Apart
  <2>5. Stray(j)' => j \in Acting
    <3>1. row' # row
      BY <2>1 DEF Active, Running, Uncertain
    <3>2. unlabelled'[j] => unlabelled[j]
      BY <3>1 DEF Exact
    <3>3. Stray(j)' => unlabelled'[j]
      BY <2>1 DEF Apart
    <3>. QED
      BY <2>4, <3>2, <3>3 DEF Acting, Touching
  <2>6. Acting' = Acting \ {j}
    <3>1. \A i \in Jobs \ {j} : i \in Acting' <=> i \in Acting
      BY <1>1 DEF Acting
    <3>2. j \notin Acting'
      BY <2>4 DEF Acting
    <3>. QED
      BY <3>1, <3>2 DEF Acting
  <2>7. Left' \in {Left, Left \cup ({j} \cap Acting)}
    <3>1. \A i \in Jobs \ {j} : i \in Left' <=> i \in Left
      BY <1>1 DEF Left
    <3>2. j \notin Left /\ (j \in Left' => j \in Acting)
      BY <2>4, <2>5 DEF Left
    <3>3. Left \subseteq Jobs /\ Left' \subseteq Jobs
      BY DEF Left
    <3>. QED
      BY <3>1, <3>2, <3>3
  <2>8. Promise!HeldBy(j) # {}
    BY <2>1, HoldsSomething
  <2>9. Promise!Release(j)
    BY <2>2, <2>3, <2>6, <2>7, <2>8 DEF Promise!Release, Acting, Left, Past, Spent
  <2>. QED
    BY <2>9 DEF Mapped, Promise!Next
<1>. QED
  BY <1>2, <1>3, <1>4 DEF Moves

(* A new job reserves its whole scope at once.                             *)
LEMMA CreateJobMapped ==
    ASSUME WorkInv, Exact, NEW j \in Jobs, NEW route \in Routes[j], NEW R \in Scopes,
           CreateJob(j, route, R)
    PROVE  Mapped
<1>1. RowsTyped /\ CellsTyped /\ JobInv(j) /\ R # {} /\ R \in SUBSET Resources
  BY Parts, ConstantsAssumption DEF Sound
<1>2. /\ row[j].status = "none" /\ \A r \in R : lock[r] = NoJob
      /\ row' = [row EXCEPT ![j] = NewJob(route, R)]
      /\ lock' = [r \in Resources |-> IF r \in R THEN j ELSE lock[r]]
      /\ UNCHANGED <<proc, helper, unlabelled>>
      /\ \E s \in {"admitted", "register"} : sub' = [sub EXCEPT ![j] = s]
  BY DEF CreateJob, Goto
<1>3. sub[j] = "idle" /\ ~Active(j) /\ ~Spent(j)
  BY <1>1, <1>2 DEF JobInv, Active, Running, Uncertain, Spent, Terminal
<1>4. \A i \in Jobs \ {j} : row'[i] = row[i]
  BY <1>1, <1>2 DEF RowsTyped
<1>5. row'[j].status = "running"
  BY <1>1, <1>2 DEF RowsTyped, NewJob
<1>6. \A i \in Jobs : Spent(i)' <=> Spent(i)
  BY <1>3, <1>4, <1>5 DEF Spent, Terminal, Active, Running, Uncertain
<1>7. \A i \in Jobs : (Touching(i)' <=> Touching(i)) /\ (Stray(i)' <=> Stray(i))
  <2>1. \A i \in Jobs : Touching(i)' <=> Touching(i)
    BY <1>1, <1>2, <1>3 DEF Touching, CellsTyped
  <2>2. \A i \in Jobs \ {j} : Stray(i)' <=> Stray(i)
    BY <1>2, <1>4 DEF Stray
  <2>3. ~unlabelled[j] /\ ~unlabelled'[j]
    BY <1>1, <1>2 DEF JobInv
  <2>. QED
    BY <2>1, <2>2, <2>3 DEF Stray
<1>8. Promise!HeldBy(j) = {}
  BY <1>3, Mapping DEF Exact
<1>9. Acting' = Acting /\ Left' = Left /\ Past' = Past /\ j \notin Past
  BY <1>3, <1>6, <1>7 DEF Acting, Left, Past
<1>10. Promise!Admit(j, R)
  BY <1>1, <1>2, <1>8, <1>9 DEF Promise!Admit, Acting, Left, Past, Spent
<1>. QED
  BY <1>1, <1>10 DEF Mapped, Promise!Next

(* A replacement container joins the reservation of its job.               *)
LEMMA RetargetJobMapped ==
    ASSUME WorkInv, Exact, NEW j \in Jobs, NEW r \in Resources, RetargetJob(j, r),
           row[j].status # "none" => row[j].res # {}
    PROVE  Mapped
<1>1. RowsTyped /\ CellsTyped /\ row[j] \in Row
  BY Parts DEF RowsTyped
<1>2. UNCHANGED <<sub, helper, unlabelled>>
  BY DEF RetargetJob
<1>3. CASE ~(Running(j) /\ lock[r] \in {NoJob, j})
  <2>1. row' = row /\ proc' = [proc EXCEPT ![j] = "fail"]
    BY <1>3 DEF RetargetJob, Become
  <2>2. \A i \in Jobs : RowQuiet(i)
    BY <2>1, QuietRow
  <2>3. proc[j] = "mutate"
    BY DEF RetargetJob
  <2>4. \A i \in Jobs : Touching(i)' => Touching(i)
    BY <1>1, <1>2, <2>1, <2>3 DEF Touching, Stray, Claimed, CellsTyped
  <2>. QED
    BY <2>2, <2>4, StopsMapped
<1>4. CASE Running(j) /\ lock[r] \in {NoJob, j}
  <2>1. /\ row' = [row EXCEPT ![j].res = row[j].res \cup {r}]
        /\ lock' = [lock EXCEPT ![r] = j] /\ proc' = proc
    BY <1>4 DEF RetargetJob
  <2>2. \A i \in Jobs : /\ row'[i].status = row[i].status /\ row'[i].outcome = row[i].outcome
                        /\ row'[i].route = row[i].route
    <3>. DEFINE new == [row[j] EXCEPT !.res = row[j].res \cup {r}]
    <3>1. new.status = row[j].status /\ new.outcome = row[j].outcome /\ new.route = row[j].route
      BY <1>1 DEF Row
    <3>2. row' = [row EXCEPT ![j] = new]
      BY <2>1
    <3>. HIDE DEF new
    <3>. QED
      BY <1>1, <3>1, <3>2 DEF RowsTyped
  <2>3. Acting' = Acting /\ Left' = Left
    <3>1. \A i \in Jobs : (Touching(i)' <=> Touching(i)) /\ (Stray(i)' <=> Stray(i))
      BY <1>2, <2>1, <2>2 DEF Touching, Stray
    <3>. QED
      BY <3>1 DEF Acting, Left
  <2>4. Past' = Past
    BY <2>2 DEF Past, Spent, Terminal, Active, Running, Uncertain
  <2>5. Promise!HeldBy(j) # {}
    BY <1>4, HoldsSomething DEF Active, Running
  <2>6. CASE lock[r] = NoJob
    <3>1. Promise!Extend(j, r)
      BY <2>1, <2>3, <2>4, <2>5, <2>6 DEF Promise!Extend, Acting, Left, Past, Spent
    <3>. QED
      BY <3>1 DEF Mapped, Promise!Next
  <2>7. CASE lock[r] = j
    <3>1. lock' = lock
      BY <1>1, <2>1, <2>7 DEF RowsTyped
    <3>. QED
      BY <2>3, <2>4, <3>1, Mapping DEF Mapped
  <2>. QED
    BY <1>4, <2>6, <2>7
<1>. QED
  BY <1>3, <1>4

(* A stop of Yard ends requests, a start settles rows as uncertain: no     *)
(* reservation moves.                                                      *)
LEMMA WebMapped ==
    ASSUME WorkInv, Exact,
           WebStops \/ WebStarts \/ (\E j \in Jobs : Mutate(j)) \/ UNCHANGED vars
    PROVE  Mapped
<1>1. RowsTyped /\ CellsTyped /\ \A i \in Jobs : JobInv(i)
  BY Parts DEF Sound
<1>2. \A i \in Jobs : Touching(i)' => Touching(i)
  <2>1. proc' = proc /\ helper' = helper /\ unlabelled' = unlabelled
    BY DEF WebStops, WebStarts, Mutate, vars
  <2>2. sub' = sub \/ sub' = [j \in Jobs |-> IF sub[j] = "idle" THEN "idle" ELSE "done"]
    BY DEF WebStops, WebStarts, Mutate, vars
  <2>. QED
    BY <2>1, <2>2 DEF Touching
<1>3. \A i \in Jobs : RowQuiet(i)
  <2>1. CASE row' = row
    BY <2>1, QuietRow
  <2>2. CASE WebStarts
    <3>. SUFFICES ASSUME NEW i \in Jobs PROVE RowQuiet(i)
      OBVIOUS
    <3>. DEFINE new == [row[i] EXCEPT !.status = "failed", !.stage = "awaiting_recovery",
                                      !.outcome = "recovery_required"]
    <3>1. /\ new.status = "failed" /\ new.outcome = "recovery_required"
          /\ new.res = row[i].res
      BY <1>1 DEF RowsTyped, Row
    <3>2. row'[i] = IF Abandoned(i) THEN new ELSE row[i]
      BY <2>2 DEF WebStarts
    <3>. HIDE DEF new
    <3>3. CASE Abandoned(i)
      BY <3>1, <3>2, <3>3 DEF Abandoned, RowQuiet, Spent, Active, Running, Uncertain, Terminal
    <3>4. CASE ~Abandoned(i)
      BY <3>2, <3>4, QuietRow
    <3>. QED
      BY <3>3, <3>4
  <2>. QED
    BY <2>1, <2>2 DEF WebStops, Mutate, vars
<1>. QED
  BY <1>2, <1>3, StopsMapped

(* Every step of the jobs is a step of the reservations, or none.          *)
LEMMA PromiseStep == ASSUME JobsInv, WorkInv', [Next]_vars PROVE Mapped
<1>1. /\ WorkInv /\ Exact /\ RowsTyped /\ CellsTyped
      /\ \A o \in Observers : ObserverInv(o)
      /\ \A j \in Jobs : JobInv(j) /\ (row[j].status # "none" => row[j].res # {})
  BY Parts, ExactEnds DEF JobsInv, ResultInv, Sound
<1>2. \A j \in Jobs : row[j].status = "none" => ~Active(j)
  BY <1>1 DEF JobInv, Active, Running, Uncertain
<1>3. ASSUME NEW j \in Jobs, Moves(j) PROVE Mapped
  BY <1>1, <1>2, <1>3, MovesMapped
<1>4. ASSUME NEW j \in Jobs, NEW route \in Routes[j], NEW R \in Scopes,
             CreateJob(j, route, R)
      PROVE  Mapped
  BY <1>1, <1>4, CreateJobMapped
<1>5. ASSUME NEW j \in Jobs,
             \/ Submit(j) \/ DirectCall(j) \/ StorageFails(j)
             \/ StartUnlabelled(j) \/ UnlabelledEnds(j)
      PROVE Mapped
  BY <1>1, <1>3, <1>5, SubmitMoves
<1>6. ASSUME NEW j \in Jobs, Work(j) \/ WorkerExits(j) \/ HelperEnds(j) PROVE Mapped
  BY <1>1, <1>3, <1>6, WorkMoves, RetargetJobMapped, WebMapped
<1>7. ASSUME NEW j \in Jobs, Review(j) \/ GraceExpires(j) PROVE Mapped
  BY <1>1, <1>3, <1>7, ReviewMoves
<1>8. ASSUME NEW o \in Observers, Settle(o) PROVE Mapped
  BY <1>1, <1>3, <1>8, SettleMoves
<1>9. ASSUME NEW o \in Observers, NEW j \in Jobs, ListActive(o, j) \/ ListFinal(o, j)
      PROVE  Mapped
  <2>1. UNCHANGED <<row, sub, proc, helper, unlabelled>>
    BY <1>9 DEF ListActive, ListFinal
  <2>2. Moves(j)
    BY <2>1, QuietRow DEF Moves, Still
  <2>. QED
    BY <1>3, <2>2
<1>. QED
  BY <1>1, <1>4, <1>5, <1>6, <1>7, <1>8, <1>9, WebMapped DEF Next

(* OperationJobs implements Reservations: whatever requests, workers,      *)
(* observers, reviews and restarts do, an operation is admitted with all   *)
(* its resources, works only while it holds them, and gives them up once,  *)
(* together, when nothing works for it any more but what it is known to    *)
(* have left behind.                                                       *)
THEOREM ReservationsAreImplemented == Spec => ReservationsImplemented
<1>1. ASSUME Init PROVE Promise!Init
  <2>1. \A j \in Jobs : row[j].status = "none" /\ ~Touching(j) /\ ~Stray(j)
    BY <1>1 DEF Init, NoRow, NewJob, Touching, Stray, Claimed
  <2>2. /\ {j \in Jobs : Touching(j) /\ ~Stray(j)} = {} /\ {j \in Jobs : Stray(j)} = {}
        /\ {j \in Jobs : Terminal(j) /\ ~Active(j)} = {}
    BY <2>1 DEF Terminal
  <2>. QED
    BY <1>1, <2>2 DEF Init, Promise!Init
<1>2. JobsInv /\ JobsInv' /\ [Next]_vars => [Promise!Next]_(Promise!rvars)
  BY PromiseStep DEF JobsInv, Mapped
<1>. QED
  BY <1>1, <1>2, Invariance, PTL DEF Spec, ReservationsImplemented, Promise!Spec
=============================================================================
