----------------------- MODULE ProjectSchedulerProofs -----------------------
(* Proofs about ProjectScheduler, for any keys, jobs, images, zones and     *)
(* bounds: the inductive invariant SchedInv and what follows from it.       *)
EXTENDS ProjectScheduler, FiniteSetTheorems, SequenceTheorems, TLAPS

-----------------------------------------------------------------------------
(* Civil time: slots lie between one day before the clock and the clock.    *)

(* Division does not leave the interval.                                    *)
LEMMA Quotient ==
    ASSUME NEW x \in Nat, NEW y \in Nat, x <= y, NEW D \in Nat, D > 0
    PROVE  x \div D \in 0..(y \div D)
<1>1. x = D * (x \div D) + (x % D) /\ x % D \in 0..(D - 1) /\ x \div D \in Int
  OBVIOUS
<1>2. y = D * (y \div D) + (y % D) /\ y % D \in 0..(D - 1) /\ y \div D \in Int
  OBVIOUS
<1>3. x \div D >= 0
  BY <1>1
<1>4. x \div D <= y \div D
  BY <1>1, <1>2
<1>. QED BY <1>1, <1>2, <1>3, <1>4

(* A slot is at most a day old, and its civil date is one of Dates.         *)
LEMMA SlotTypes ==
    ASSUME zone \in Zones, NEW t \in Instants, NEW at \in Offsets
    PROVE  /\ SlotAt(t, at) \in Int /\ SlotAt(t, at) <= t /\ SlotAt(t, at) > t - DayLength
           /\ NextAt(t, at) \in Nat
           /\ CivilDate(SlotAt(t, at)) \in Dates
<1>. DEFINE r == (t + zone - at) % DayLength
<1>1. DayLength \in Nat /\ DayLength > 0 /\ zone \in 0..(DayLength - 1) /\ t \in DayLength..MaxTime
  BY SchedulerAssumption DEF Instants
<1>2. at \in 0..(DayLength - 1)
  BY DEF Offsets
<1>3. r \in 0..(DayLength - 1)
  BY <1>1, <1>2
<1>4. /\ SlotAt(t, at) = t - r
      /\ SlotAt(t, at) + zone \in Nat
      /\ SlotAt(t, at) + zone <= MaxTime + DayLength
  BY <1>1, <1>2, <1>3, SchedulerAssumption DEF SlotAt
<1>5. CivilDate(SlotAt(t, at)) \in Dates
  BY <1>1, <1>4, Quotient, SchedulerAssumption DEF CivilDate, Dates
<1>. QED BY <1>1, <1>3, <1>4, <1>5 DEF NextAt

-----------------------------------------------------------------------------
(* The invariant in two parts: the rows of both tables, and the rest.       *)

Rows ==
    /\ sched \in [Keys -> Schedule] /\ job \in [Jobs -> Job]
    /\ Placed /\ OneActive /\ OneAutomatic
    /\ FenceRespected /\ Named /\ ScheduleMirrorsJob

Around ==
    /\ occ \in [Keys -> SUBSET Dates] /\ checks \in [Keys -> [Dates -> Nat]] /\ Counted
    /\ current \in [Keys -> Generations] /\ edit \in Edit
    /\ now \in Instants /\ zone \in Zones /\ events \in 0..MaxEvents

TickTyped ==
    /\ tick \in TickState
    /\ tick.pc \in {"run", "submit", "launch", "skip", "coalesce", "busy"} => tick.due # <<>>

(* SchedInv is its two parts and the tick, before and after a step.         *)
LEMMA Parts ==
    /\ SchedInv <=> Rows /\ Around /\ TickTyped /\ Ticking
    /\ SchedInv' <=> Rows' /\ Around' /\ TickTyped' /\ Ticking'
BY DEF SchedInv, Rows, Around, TickTyped, TypeOK

-----------------------------------------------------------------------------
(* One job moves, and what it tells the schedules.                          *)

(* A row that keeps its key, its origin and its candidate's type.           *)
Follows(j, x) ==
    /\ x \in Job
    /\ x.key = job[j].key /\ x.auto = job[j].auto /\ x.status # "none"
    /\ x.pc \in {"none", "over"} <=> x.status # "running"
    /\ x.outcome = "recovery_required" => x.status = "failed"

(* A job that moves stays placed, alone on its key, and automatic alone.    *)
LEMMA JobMoves ==
    ASSUME SchedInv, NEW j \in Jobs, NEW x, Follows(j, x), Active(j),
           job' = [job EXCEPT ![j] = x]
    PROVE  job' \in [Jobs -> Job] /\ Placed' /\ OneActive' /\ OneAutomatic'
<1>1. job \in [Jobs -> Job] /\ x \in Job
  BY DEF SchedInv, TypeOK, Follows
<1>2. /\ job' \in [Jobs -> Job] /\ job'[j] = x
      /\ \A i \in Jobs : i # j => job'[i] = job[i]
  BY <1>1
<1>3. \A i \in Jobs : Active(i)' => Active(i)
  BY <1>2 DEF Active, Running, Uncertain
<1>4. Placed'
  BY <1>2 DEF SchedInv, Placed, Follows, Running, Uncertain
<1>5. \A i \in Jobs : job'[i].key = job[i].key /\ job'[i].auto = job[i].auto
  BY <1>2 DEF Follows
<1>6. OneActive'
  BY <1>3, <1>5 DEF SchedInv, OneActive
<1>7. OneAutomatic'
  <2> SUFFICES ASSUME NEW i \in Jobs, NEW k \in Jobs, i # k, job'[i].auto, job'[k].auto,
                      Active(i)' \/ (job'[i].worker /\ ~job'[i].cleaned), Active(k)'
               PROVE  FALSE
    BY DEF OneAutomatic
  <2>1. job[i].auto /\ job[k].auto /\ Active(k)
    BY <1>3, <1>5
  <2>2. ~(Active(i) \/ (job[i].worker /\ ~job[i].cleaned))
    BY <2>1 DEF SchedInv, OneAutomatic
  <2>3. i = j
    BY <1>2, <1>3, <2>2
  <2>. QED BY <2>2, <2>3
<1>. QED BY <1>2, <1>4, <1>6, <1>7

(* finishSchedule writes the outcome of the named job, and the fence of its *)
(* own key only.                                                            *)
LEMMA ScheduleAfterEffect ==
    ASSUME SchedInv, NEW j \in Jobs, NEW x, Follows(j, x), NEW k \in Keys
    PROVE  /\ ScheduleAfter(k, j, x) \in Schedule
           /\ ScheduleAfter(k, j, x).last = sched[k].last
           /\ ScheduleAfter(k, j, x).outcome =
                  IF x.auto /\ x.key = k /\ sched[k].last = j THEN x.outcome ELSE sched[k].outcome
           /\ x.key # k => ScheduleAfter(k, j, x).failed = sched[k].failed
<1>1. sched[k] \in Schedule /\ x \in Job
  BY DEF SchedInv, TypeOK, Follows
<1>. DEFINE s == sched[k]
            mirrored == IF x.auto /\ x.key = k /\ s.last = j
                        THEN [s EXCEPT !.outcome = x.outcome, !.target = x.target] ELSE s
            removed == IF x.op = "remove" /\ x.status = "succeeded" /\ x.key = k
                       THEN [mirrored EXCEPT !.enabled = FALSE, !.next = 0] ELSE mirrored
<1>2. /\ mirrored \in Schedule /\ mirrored.last = s.last /\ mirrored.failed = s.failed
      /\ mirrored.outcome = IF x.auto /\ x.key = k /\ s.last = j THEN x.outcome ELSE s.outcome
  BY <1>1 DEF Schedule, Job
<1>. HIDE DEF mirrored
<1>3. /\ removed \in Schedule /\ removed.last = s.last /\ removed.failed = s.failed
      /\ removed.outcome = mirrored.outcome
  BY <1>2 DEF Schedule
<1>. HIDE DEF removed
<1>4. \A f \in Images \cup {NoImage} :
        LET r == [removed EXCEPT !.failed = f]
        IN  r \in Schedule /\ r.last = s.last /\ r.outcome = removed.outcome
  BY <1>3 DEF Schedule
<1>5. ScheduleAfter(k, j, x) =
        IF x.op # "update" \/ x.cand = NoImage \/ x.key # k THEN removed
        ELSE IF x.status = "failed" THEN [removed EXCEPT !.failed = x.cand]
        ELSE IF x.outcome \in {"verified", "unchanged"}
             THEN [removed EXCEPT !.failed = NoImage]
        ELSE removed
  BY DEF ScheduleAfter, removed, mirrored
<1>6. x.cand \in Images \cup {NoImage}
  BY <1>1 DEF Job
<1>. QED BY <1>2, <1>3, <1>4, <1>5, <1>6

(* A final transaction keeps the rows.                                      *)
LEMMA WriteKeeps ==
    ASSUME SchedInv, NEW j \in Jobs, NEW x, Follows(j, x), Active(j), x.status # "running",
           Write(j, x)
    PROVE  Rows'
<1>1. job' = [job EXCEPT ![j] = x] /\ sched' = [k \in Keys |-> ScheduleAfter(k, j, x)]
  BY DEF Write
<1>2. job' \in [Jobs -> Job] /\ Placed' /\ OneActive' /\ OneAutomatic'
  BY <1>1, JobMoves
<1>3. /\ job'[j] = x /\ \A i \in Jobs : i # j => job'[i] = job[i]
      /\ job \in [Jobs -> Job] /\ sched \in [Keys -> Schedule] /\ NoJob \notin Jobs
      /\ \A i \in Jobs : job[i].key \in Keys
  BY <1>1, SchedulerAssumption DEF SchedInv, TypeOK, Job
<1>4. \A k \in Keys :
        /\ sched'[k] \in Schedule /\ sched'[k].last = sched[k].last
        /\ sched'[k].outcome = IF x.auto /\ x.key = k /\ sched[k].last = j
                               THEN x.outcome ELSE sched[k].outcome
        /\ x.key # k => sched'[k].failed = sched[k].failed
  BY <1>1, ScheduleAfterEffect
<1>5. Named'
  BY <1>3, <1>4 DEF SchedInv, Named, Follows, Schedule
<1>6. ScheduleMirrorsJob'
  <2> SUFFICES ASSUME NEW k \in Keys, NEW i \in Jobs, i = sched'[k].last
               PROVE  /\ job'[i].key = k
                      /\ sched'[k].outcome = IF job'[i].status = "running" THEN "running"
                                            ELSE job'[i].outcome
    BY <1>4 DEF ScheduleMirrorsJob, Running, Schedule
  <2>1. i = sched[k].last /\ i # NoJob
    BY <1>3, <1>4
  <2>2. /\ job[i].key = k /\ job[i].auto
        /\ sched[k].outcome = IF job[i].status = "running" THEN "running" ELSE job[i].outcome
    BY <2>1, <1>3 DEF SchedInv, ScheduleMirrorsJob, Named, Running
  <2>3. CASE i = j
    <3>1. x.auto /\ x.key = k /\ sched[k].last = j
      BY <2>1, <2>2, <2>3 DEF Follows
    <3>2. sched'[k].outcome = x.outcome
      BY <1>4, <3>1
    <3>. QED BY <1>3, <2>3, <3>1, <3>2
  <2>4. CASE i # j
    <3>1. x.auto /\ x.key = k /\ sched[k].last = j => FALSE
      BY <2>1, <2>4
    <3>. QED BY <1>3, <1>4, <2>1, <2>2, <2>4, <3>1
  <2>. QED BY <2>3, <2>4
<1>7. FenceRespected'
  <2> SUFFICES ASSUME NEW i \in Jobs, job'[i].auto, job'[i].pc \in {"replace", "retargeted"}
               PROVE  job'[i].cand # sched'[job'[i].key].failed
    BY DEF FenceRespected
  <2>1. i # j
    BY <1>3 DEF Follows
  <2>2. job'[i] = job[i] /\ Active(i)
    BY <1>3, <2>1 DEF SchedInv, Placed, Active
  <2>3. job[i].key # x.key
    BY <2>1, <2>2 DEF SchedInv, OneActive, Follows
  <2>. QED BY <1>3, <1>4, <2>2, <2>3 DEF SchedInv, FenceRespected
<1>8. sched' \in [Keys -> Schedule]
  BY <1>1, <1>4
<1>. QED BY <1>2, <1>5, <1>6, <1>7, <1>8 DEF Rows

(* What leaves the fences alone and names no job a schedule did not name.   *)
Settled ==
    /\ sched' \in [Keys -> Schedule]
    /\ \A k \in Keys :
        /\ sched'[k].failed = sched[k].failed
        /\ sched'[k].last # NoJob =>
              sched'[k].last = sched[k].last /\ sched'[k].outcome = sched[k].outcome

(* Unchanged schedules are settled.                                         *)
LEMMA StaysSettled == SchedInv /\ UNCHANGED sched => Settled
BY DEF SchedInv, TypeOK, Settled

(* The same for a job that goes on.                                         *)
LEMMA StepKeeps ==
    ASSUME SchedInv, NEW j \in Jobs, NEW x, Follows(j, x), Running(j), x.status = "running",
           job' = [job EXCEPT ![j] = x], Settled,
           x.auto /\ x.pc \in {"replace", "retargeted"} => x.cand # sched[x.key].failed
    PROVE  Rows'
<1>1. job' \in [Jobs -> Job] /\ Placed' /\ OneActive' /\ OneAutomatic'
  BY JobMoves DEF Active
<1>2. /\ job'[j] = x /\ \A i \in Jobs : i # j => job'[i] = job[i]
      /\ job \in [Jobs -> Job] /\ sched' \in [Keys -> Schedule]
      /\ \A i \in Jobs : job'[i].key \in Keys
  BY <1>1 DEF SchedInv, TypeOK, Settled, Job
<1>3. FenceRespected'
  BY <1>2 DEF SchedInv, FenceRespected, Settled
<1>4. \A k \in Keys : sched'[k].last \in Jobs \cup {NoJob}
  BY <1>2 DEF Schedule
<1>5. Named'
  BY <1>2, <1>4 DEF SchedInv, Named, Follows, Settled
<1>6. ScheduleMirrorsJob'
  BY <1>2, <1>4 DEF SchedInv, ScheduleMirrorsJob, Follows, Running, Settled
<1>. QED BY <1>1, <1>2, <1>3, <1>5, <1>6 DEF Rows

(* The schedules change, the jobs do not.                                   *)
LEMMA SettledKeeps ==
    ASSUME SchedInv, UNCHANGED job, Settled
    PROVE  Rows'
<1>1. /\ job \in [Jobs -> Job] /\ sched' \in [Keys -> Schedule]
      /\ \A k \in Keys : sched'[k].last \in Jobs \cup {NoJob}
      /\ \A j \in Jobs : job[j].key \in Keys
  BY DEF SchedInv, TypeOK, Settled, Schedule, Job
<1>2. Placed' /\ OneActive' /\ OneAutomatic'
  BY DEF SchedInv, Placed, OneActive, OneAutomatic, Active, Running, Uncertain
<1>3. FenceRespected'
  BY <1>1 DEF SchedInv, FenceRespected, Settled
<1>4. Named'
  BY <1>1 DEF SchedInv, Named, Settled
<1>5. ScheduleMirrorsJob'
  BY <1>1 DEF SchedInv, ScheduleMirrorsJob, Running, Settled
<1>. QED BY <1>1, <1>2, <1>3, <1>4, <1>5 DEF Rows

(* A row nobody has drawn has no schedule that names it and is not active.  *)
LEMMA FreeRow ==
    ASSUME SchedInv, NEW j \in Jobs, job[j].status = "none"
    PROVE  ~Active(j) /\ \A k \in Keys : sched[k].last # j
<1>1. ~Active(j)
  BY DEF SchedInv, Placed, Active, Running
<1>2. \A k \in Keys : sched[k].last # j
  BY SchedulerAssumption DEF SchedInv, Named
<1>. QED BY <1>1, <1>2

-----------------------------------------------------------------------------
(* The update workers.                                                      *)

(* A row has its type.                                                      *)
LEMMA RunningRow ==
    ASSUME SchedInv, NEW j \in Jobs
    PROVE  job[j] \in Job
BY DEF SchedInv, TypeOK

(* FinishJob with a known result keeps the rows.                            *)
LEMMA FinishKeeps ==
    ASSUME SchedInv, NEW j \in Jobs, Running(j), NEW status, NEW outcome,
           FinishJob(j, status, outcome), outcome \in Outcomes,
           \/ status = "succeeded" /\ outcome # "recovery_required"
           \/ status = "failed"
    PROVE  Rows'
<1>. DEFINE x == [job[j] EXCEPT !.status = status, !.outcome = outcome, !.pc = "over"]
<1>1. Follows(j, x) /\ x.status # "running"
  BY RunningRow DEF Follows, Job, Pcs
<1>2. Write(j, x) /\ job \in [Jobs -> Job]
  BY DEF FinishJob, SchedInv, TypeOK
<1>. HIDE DEF x
<1>. QED BY <1>1, <1>2, WriteKeeps DEF Active

(* A worker that goes on to its next step keeps the rows.                   *)
LEMMA MoveKeeps ==
    ASSUME SchedInv, NEW j \in Jobs, Running(j), NEW pc \in Pcs \ {"none", "over"}, Step(j, pc),
           job[j].auto /\ pc \in {"replace", "retargeted"} =>
               job[j].cand # sched[job[j].key].failed
    PROVE  Rows'
<1>. DEFINE x == [job[j] EXCEPT !.pc = pc]
<1>1. Follows(j, x) /\ x.status = "running"
  BY RunningRow DEF Follows, Job, Running, SchedInv, Placed, Uncertain
<1>2. job' = [job EXCEPT ![j] = x] /\ UNCHANGED sched
  BY DEF Step, SchedInv, TypeOK
<1>3. x.auto /\ x.pc \in {"replace", "retargeted"} => x.cand # sched[x.key].failed
  BY RunningRow DEF Job
<1>. HIDE DEF x
<1>. QED BY <1>1, <1>2, <1>3, StepKeeps, StaysSettled

(* A worker's step touches neither the tick nor the job the tick holds.     *)
LEMMA AwayFromTick ==
    ASSUME SchedInv, Rows', NoTime, NEW j \in Jobs, \A i \in Jobs : i # j => job'[i] = job[i],
           current' \in [Keys -> Generations],
           tick.pc = "submit" => job[j].status # "none" \/ tick.job # j,
           tick.pc = "launch" => job[j].pc # "launch" \/ tick.job # j
    PROVE  SchedInv'
<1>1. Around' /\ TickTyped'
  BY Parts DEF Around, TickTyped, NoTime, Counted
<1>2. Ticking'
  BY DEF SchedInv, Ticking, NoTime
<1>. QED BY <1>1, <1>2, Parts

(* Each way to write a row leaves the others alone.                         *)
LEMMA OthersStay ==
    ASSUME SchedInv, NEW j \in Jobs
    PROVE  /\ \A x : job' = [job EXCEPT ![j] = x] => \A i \in Jobs : i # j => job'[i] = job[i]
           /\ \A x : Write(j, x) => \A i \in Jobs : i # j => job'[i] = job[i]
           /\ \A pc : Step(j, pc) => \A i \in Jobs : i # j => job'[i] = job[i]
           /\ \A status, outcome : FinishJob(j, status, outcome) =>
                  \A i \in Jobs : i # j => job'[i] = job[i]
BY DEF SchedInv, TypeOK, Write, Step, FinishJob

(* Every step of an update worker.                                          *)
LEMMA WorkKeeps ==
    ASSUME SchedInv, NEW j \in Jobs, Work(j)
    PROVE  SchedInv'
<1>1. Running(j) /\ NoTime
  BY DEF Work, CheckEnabled, PullImages, BeginReplacement, RetargetJob, RecordSuccess,
         RecordFailure, RemoveTarget, FinishSelfUpdate, SettleLaunch
<1>2. job[j] \in Job /\ job \in [Jobs -> Job] /\ sched \in [Keys -> Schedule]
      /\ current \in [Keys -> Nat]
  BY DEF SchedInv, TypeOK, Generations
<1>3. \A outcome \in Outcomes :
        FinishJob(j, "failed", outcome)
        \/ (FinishJob(j, "succeeded", outcome) /\ outcome # "recovery_required") => Rows'
  BY <1>1, FinishKeeps
<1>4. \A i \in Jobs : i # j => job'[i] = job[i]
  <2>1. CASE CheckEnabled(j)
    BY <2>1, OthersStay DEF CheckEnabled
  <2>2. CASE PullImages(j)
    BY <2>2, OthersStay DEF PullImages
  <2>3. CASE BeginReplacement(j)
    BY <2>3, OthersStay DEF BeginReplacement
  <2>4. CASE RetargetJob(j)
    BY <2>4, <1>2 DEF RetargetJob
  <2>5. CASE RecordSuccess(j)
    BY <2>5, OthersStay DEF RecordSuccess
  <2>6. CASE RecordFailure(j)
    BY <2>6, OthersStay DEF RecordFailure
  <2>7. CASE RemoveTarget(j)
    BY <2>7, OthersStay DEF RemoveTarget
  <2>8. CASE FinishSelfUpdate(j)
    BY <2>8, OthersStay DEF FinishSelfUpdate
  <2>9. CASE SettleLaunch(j)
    BY <2>9, OthersStay DEF SettleLaunch
  <2>. QED BY <2>1, <2>2, <2>3, <2>4, <2>5, <2>6, <2>7, <2>8, <2>9 DEF Work
<1>5. Rows' /\ current' \in [Keys -> Generations]
  <2>1. CASE CheckEnabled(j)
    <3>1. FinishJob(j, "succeeded", "skipped") => Rows'
      BY <1>3 DEF Outcomes
    <3>2. Step(j, "pull") => Rows'
      BY <1>1, MoveKeeps DEF Pcs
    <3>. QED BY <2>1, <1>2, <3>1, <3>2 DEF CheckEnabled, Generations
  <2>2. CASE PullImages(j)
    <3>1. PICK image \in Images :
            LET x == [job[j] EXCEPT !.cand =
                         IF ~job[j].auto /\ job[j].key \in FileBacked THEN NoImage ELSE image]
            IN  IF Refused(j, image)
                THEN Write(j, [x EXCEPT !.status = "succeeded", !.outcome = "skipped",
                                        !.pc = "over"])
                ELSE job' = [job EXCEPT ![j] = [x EXCEPT !.pc = "ready"]] /\ UNCHANGED sched
      BY <2>2 DEF PullImages
    <3>. DEFINE x == [job[j] EXCEPT !.cand =
                         IF ~job[j].auto /\ job[j].key \in FileBacked THEN NoImage ELSE image]
                s == [x EXCEPT !.status = "succeeded", !.outcome = "skipped", !.pc = "over"]
                r == [x EXCEPT !.pc = "ready"]
    <3>2. Follows(j, s) /\ s.status # "running"
      BY ZenonT(40), <1>2 DEF Follows, Job, Pcs, Outcomes
    <3>3. Follows(j, r) /\ r.status = "running" /\ r.pc = "ready"
      BY <1>1, <1>2 DEF Follows, Job, Pcs, Running, SchedInv, Placed, Uncertain
    <3>4. Write(j, s) \/ (job' = [job EXCEPT ![j] = r] /\ UNCHANGED sched)
      BY <3>1
    <3>. HIDE DEF x, s, r
    <3>5. Write(j, s) => Rows'
      BY <1>1, <3>2, WriteKeeps DEF Active
    <3>6. job' = [job EXCEPT ![j] = r] /\ UNCHANGED sched => Rows'
      BY <1>1, <3>3, StepKeeps, StaysSettled
    <3>. QED BY <2>2, <1>2, <3>4, <3>5, <3>6 DEF PullImages, Generations
  <2>3. CASE BeginReplacement(j)
    <3>1. FinishJob(j, "succeeded", "skipped") \/ FinishJob(j, "succeeded", "unchanged") => Rows'
      BY <1>3 DEF Outcomes
    <3>2. ~Refused(j, job[j].cand) /\ Step(j, "replace") => Rows'
      BY <1>1, MoveKeeps DEF Pcs, Refused
    <3>. QED BY <2>3, <1>2, <3>1, <3>2 DEF BeginReplacement, Generations
  <2>4. CASE RetargetJob(j)
    <3>. DEFINE k == job[j].key
                x == [job[j] EXCEPT !.pc = "retargeted", !.target = current[k] + 1]
    <3>1. k \in Keys /\ current[k] + 1 \in Nat
      BY <1>2 DEF Job
    <3>2. /\ current' = [current EXCEPT ![k] = @ + 1] /\ job' = [job EXCEPT ![j] = x]
          /\ sched' = [sched EXCEPT ![k].target =
                          IF @ = job[j].target THEN current[k] + 1 ELSE @]
      BY <2>4, <1>2 DEF RetargetJob
    <3>3. Follows(j, x) /\ x.status = "running" /\ x.key = k
          /\ x.auto = job[j].auto /\ x.cand = job[j].cand
      BY <1>1, <1>2, <3>1 DEF Follows, Job, Pcs, Generations, Running, SchedInv, Placed, Uncertain
    <3>4. x.auto => x.cand # sched[x.key].failed
      BY <2>4, <3>3 DEF RetargetJob, SchedInv, FenceRespected
    <3>5. Settled
      BY <1>2, <3>1, <3>2 DEF Settled, Schedule, Generations
    <3>. HIDE DEF x, k
    <3>6. Rows'
      BY <1>1, <3>2, <3>3, <3>4, <3>5, StepKeeps
    <3>. QED BY <1>2, <3>1, <3>2, <3>6 DEF Generations
  <2>5. CASE RecordSuccess(j)
    BY <2>5, <1>2, <1>3 DEF RecordSuccess, Outcomes, Generations
  <2>6. CASE RecordFailure(j)
    <3>1. (FinishJob(j, "failed", "failed") \/ FinishJob(j, "failed", "recovery_required"))
          /\ UNCHANGED current
      BY <2>6 DEF RecordFailure
    <3>2. "failed" \in Outcomes /\ "recovery_required" \in Outcomes
      BY DEF Outcomes
    <3>. QED BY <3>1, <3>2, <1>2, <1>3 DEF Generations
  <2>7. CASE RemoveTarget(j)
    <3>1. FinishJob(j, "succeeded", "verified")
          /\ current' = [current EXCEPT ![job[j].key] = @ + 1]
      BY <2>7 DEF RemoveTarget
    <3>2. "verified" \in Outcomes /\ "verified" # "recovery_required"
      BY DEF Outcomes
    <3>3. Rows'
      BY <3>1, <3>2, <1>3
    <3>4. current' \in [Keys -> Nat]
      BY <3>1, <1>2 DEF Job
    <3>. QED BY <3>3, <3>4 DEF Generations
  <2>8. CASE FinishSelfUpdate(j)
    <3>1. UNCHANGED current
          /\ (FinishJob(j, "succeeded", "verified")
              \/ FinishJob(j, "failed", "failed") \/ FinishJob(j, "failed", "recovery_required"))
      BY <2>8 DEF FinishSelfUpdate
    <3>2. {"verified", "failed", "recovery_required"} \subseteq Outcomes
      BY DEF Outcomes
    <3>. QED BY <3>1, <3>2, <1>2, <1>3 DEF Generations
  <2>9. CASE SettleLaunch(j)
    BY <2>9, <1>2, <1>3 DEF SettleLaunch, Outcomes, Generations
  <2>. QED BY <2>1, <2>2, <2>3, <2>4, <2>5, <2>6, <2>7, <2>8, <2>9 DEF Work
<1>6. tick.pc = "launch" => job[j].pc # "launch" \/ tick.job # j
  BY DEF Work, CheckEnabled, PullImages, BeginReplacement, RetargetJob, RecordSuccess,
         RecordFailure, RemoveTarget, FinishSelfUpdate, SettleLaunch
<1>. QED BY <1>1, <1>4, <1>5, <1>6, AwayFromTick DEF Running

(* The review of an uncertain job.                                          *)
LEMMA AcknowledgeKeeps ==
    ASSUME SchedInv, NEW j \in Jobs, AcknowledgeRecovery(j)
    PROVE  SchedInv'
<1>. DEFINE x == [job[j] EXCEPT !.outcome = "recovery_acknowledged", !.cleaned = FALSE]
<1>1. Uncertain(j) /\ Write(j, x) /\ NoTime /\ UNCHANGED current
  BY DEF AcknowledgeRecovery
<1>2. job[j] \in Job /\ job[j].status = "failed" /\ job[j].pc \in {"none", "over"}
  BY <1>1 DEF SchedInv, TypeOK, Placed, Running
<1>3. Follows(j, x) /\ x.status # "running"
  BY <1>2 DEF Follows, Job, Outcomes
<1>. HIDE DEF x
<1>4. Rows'
  BY <1>1, <1>3, WriteKeeps DEF Active
<1>5. current' \in [Keys -> Generations]
  BY <1>1 DEF SchedInv, TypeOK
<1>. QED BY <1>1, <1>2, <1>4, <1>5, OthersStay, AwayFromTick

(* The removal of a finished worker.                                        *)
LEMMA CleanKeeps ==
    ASSUME SchedInv, NEW j \in Jobs, CleanWorker(j)
    PROVE  SchedInv'
<1>1. job' = [job EXCEPT ![j].cleaned = TRUE] /\ UNCHANGED sched /\ NoTime /\ UNCHANGED current
      /\ job[j].status \in {"succeeded", "failed"}
  BY DEF CleanWorker
<1>2. job \in [Jobs -> Job] /\ sched \in [Keys -> Schedule] /\ current \in [Keys -> Generations]
  BY DEF SchedInv, TypeOK
<1>3. /\ job' \in [Jobs -> Job]
      /\ \A i \in Jobs : i # j => job'[i] = job[i]
      /\ \A i \in Jobs :
            /\ job'[i].key = job[i].key /\ job'[i].auto = job[i].auto /\ job'[i].pc = job[i].pc
            /\ job'[i].status = job[i].status /\ job'[i].outcome = job[i].outcome
            /\ job'[i].cand = job[i].cand /\ job'[i].worker = job[i].worker
            /\ ~job'[i].cleaned => ~job[i].cleaned
  <2>. DEFINE x == [job[j] EXCEPT !.cleaned = TRUE]
  <2>1. /\ x \in Job /\ x.key = job[j].key /\ x.auto = job[j].auto /\ x.pc = job[j].pc
        /\ x.status = job[j].status /\ x.outcome = job[j].outcome
        /\ x.cand = job[j].cand /\ x.worker = job[j].worker /\ x.cleaned
    BY <1>2 DEF Job
  <2>2. job' = [job EXCEPT ![j] = x]
    BY <1>1, <1>2
  <2>. HIDE DEF x
  <2>3. /\ job' \in [Jobs -> Job] /\ job'[j] = x
        /\ \A i \in Jobs : i # j => job'[i] = job[i]
    BY <1>2, <2>1, <2>2
  <2>. QED BY <2>1, <2>3
<1>4. Placed' /\ OneActive'
  BY <1>3 DEF SchedInv, Placed, OneActive, Active, Running, Uncertain
<1>5. OneAutomatic'
  BY <1>3 DEF SchedInv, OneAutomatic, Active, Running, Uncertain
<1>6. FenceRespected'
  BY <1>1, <1>3 DEF SchedInv, FenceRespected
<1>7. \A k \in Keys : sched[k].last \in Jobs \cup {NoJob}
  BY <1>2 DEF Schedule
<1>8. Named' /\ ScheduleMirrorsJob'
  BY <1>1, <1>3, <1>7 DEF SchedInv, Named, ScheduleMirrorsJob, Running
<1>9. Rows'
  BY <1>1, <1>2, <1>3, <1>4, <1>5, <1>6, <1>8 DEF Rows
<1>10. tick.pc = "launch" => job[j].pc # "launch" \/ tick.job # j
  BY <1>1 DEF SchedInv, Placed, Running
<1>. QED BY <1>1, <1>2, <1>3, <1>9, <1>10, AwayFromTick

-----------------------------------------------------------------------------
(* Admissions.                                                              *)

(* A drawn id becomes a job of key k, of an automatic check or of a user.   *)
LEMMA AdmissionKeeps ==
    ASSUME SchedInv, NEW j \in Jobs, NEW x \in Job, NEW k \in Keys,
           job[j].status = "none", job' = [job EXCEPT ![j] = x],
           x.key = k, x.status = "running", x.outcome # "recovery_required",
           x.pc \notin {"none", "over", "replace", "retargeted"},
           ~Reserved(k), x.auto => ~AutomaticBusy,
           sched' \in [Keys -> Schedule],
           \A h \in Keys :
              \/ sched'[h].failed = sched[h].failed
                 /\ sched'[h].last = sched[h].last /\ sched'[h].outcome = sched[h].outcome
              \/ /\ h = k /\ x.auto /\ sched'[h].failed = sched[h].failed
                 /\ sched'[h].last = j /\ sched'[h].outcome = "running"
    PROVE  Rows'
<1>1. /\ job \in [Jobs -> Job] /\ job' \in [Jobs -> Job] /\ job'[j] = x
      /\ \A i \in Jobs : i # j => job'[i] = job[i]
      /\ \A h \in Keys : sched'[h].last \in Jobs \cup {NoJob}
      /\ \A i \in Jobs : job'[i].key \in Keys
  BY DEF SchedInv, TypeOK, Schedule, Job
<1>2. ~Active(j) /\ \A h \in Keys : sched[h].last # j
  BY FreeRow
<1>3. Placed'
  BY <1>1 DEF SchedInv, Placed, Running, Uncertain
<1>4. OneActive'
  <2>1. \A i \in Jobs : i # j /\ Active(i)' => job'[i].key # k
    BY <1>1 DEF Reserved, Active, Running, Uncertain
  <2>. QED BY <1>1, <2>1 DEF SchedInv, OneActive, Active, Running, Uncertain
<1>5. OneAutomatic'
  <2> SUFFICES ASSUME NEW i \in Jobs, NEW h \in Jobs, i # h, job'[i].auto, job'[h].auto,
                      Active(i)' \/ (job'[i].worker /\ ~job'[i].cleaned), Active(h)'
               PROVE  FALSE
    BY DEF OneAutomatic
  <2>1. CASE i = j
    <3>1. h # j /\ job[h].auto /\ Active(h)
      BY <1>1, <2>1 DEF Active, Running, Uncertain
    <3>. QED BY <1>1, <2>1, <3>1 DEF AutomaticBusy
  <2>2. CASE h = j
    <3>1. i # j /\ job[i].auto /\ (Active(i) \/ (job[i].worker /\ ~job[i].cleaned))
      BY <1>1, <2>2 DEF Active, Running, Uncertain
    <3>. QED BY <1>1, <2>2, <3>1 DEF AutomaticBusy, Uncleaned
  <2>3. CASE i # j /\ h # j
    BY <1>1, <2>3 DEF SchedInv, OneAutomatic, Active, Running, Uncertain
  <2>. QED BY <2>1, <2>2, <2>3
<1>6. FenceRespected'
  BY <1>1 DEF SchedInv, FenceRespected
<1>7. Named'
  BY <1>1 DEF SchedInv, Named
<1>8. ScheduleMirrorsJob'
  <2> SUFFICES ASSUME NEW h \in Keys, NEW i \in Jobs, i = sched'[h].last
               PROVE  /\ job'[i].key = h
                      /\ sched'[h].outcome = IF job'[i].status = "running" THEN "running"
                                            ELSE job'[i].outcome
    BY <1>1 DEF ScheduleMirrorsJob, Running
  <2>1. CASE i = j
    BY <1>1, <1>2, <2>1
  <2>2. CASE i # j
    BY <1>1, <2>2, SchedulerAssumption DEF SchedInv, ScheduleMirrorsJob, Running
  <2>. QED BY <2>1, <2>2
<1>. QED BY <1>1, <1>3, <1>4, <1>5, <1>6, <1>7, <1>8 DEF Rows

(* A manual operation.                                                      *)
LEMMA ManualKeeps ==
    ASSUME SchedInv, NEW j \in Jobs, NEW k \in Keys, NEW op \in ManualOps, ManualJob(k, j, op)
    PROVE  SchedInv'
<1>. DEFINE x == [NewJob(k, FALSE, op, current[k], IF op = "remove" THEN "remove" ELSE "start")
                     EXCEPT !.worker = op = "update"]
<1>1. /\ Free(j) /\ ~Reserved(k) /\ job' = [job EXCEPT ![j] = x]
      /\ UNCHANGED sched /\ UNCHANGED current /\ NoTime
  BY DEF ManualJob
<1>2. sched \in [Keys -> Schedule] /\ current \in [Keys -> Generations]
  BY DEF SchedInv, TypeOK
<1>3. /\ x \in Job /\ x.key = k /\ x.status = "running" /\ x.outcome = "" /\ ~x.auto
      /\ x.pc \in {"remove", "start"}
  BY <1>2, SchedulerAssumption DEF NewJob, Job, Pcs, Outcomes
<1>. HIDE DEF x
<1>4. Rows'
  BY <1>1, <1>2, <1>3, AdmissionKeeps DEF Free
<1>. QED BY <1>1, <1>2, <1>4, OthersStay, AwayFromTick DEF Free

-----------------------------------------------------------------------------
(* The tick: its row, its date, and the check it may consume.               *)

(* The row being run, and its date.                                         *)
LEMMA RowTypes ==
    ASSUME SchedInv, tick.due # <<>>
    PROVE  /\ Row \in DueCheck /\ Tail(tick.due) \in Seq(DueCheck)
           /\ Following \in Nat /\ Date \in Dates
<1>1. tick.due \in Seq(DueCheck) /\ tick.at \in Instants /\ zone \in Zones
  BY DEF SchedInv, TypeOK, TickState
<1>2. Row \in DueCheck /\ Tail(tick.due) \in Seq(DueCheck)
  BY <1>1 DEF Row
<1>3. Row.at \in Offsets
  BY <1>2 DEF DueCheck
<1>. QED BY <1>1, <1>2, <1>3, SlotTypes DEF Following, Date, Slot

(* A claimed date is counted once, and the row names the given job.         *)
LEMMA ClaimKeeps ==
    ASSUME SchedInv, tick.due # <<>>, Claimable, NEW last \in Jobs \cup {NoJob},
           NEW outcome \in Outcomes, Claim(last, outcome), Resting
    PROVE  /\ Around' /\ sched' \in [Keys -> Schedule]
           /\ \A k \in Keys :
                /\ sched'[k].failed = sched[k].failed
                /\ IF k = Row.key THEN sched'[k].last = last /\ sched'[k].outcome = outcome
                   ELSE sched'[k] = sched[k]
<1>. DEFINE k == Row.key
            d == Date
            row == [sched[k] EXCEPT !.next = Following, !.outcome = outcome, !.last = last]
<1>1. /\ k \in Keys /\ d \in Dates /\ Following \in Nat
      /\ sched \in [Keys -> Schedule] /\ sched[k] \in Schedule
      /\ occ \in [Keys -> SUBSET Dates] /\ checks \in [Keys -> [Dates -> Nat]]
  BY RowTypes DEF SchedInv, TypeOK, DueCheck
<1>2. /\ sched' = [sched EXCEPT ![k] = row]
      /\ occ' = [occ EXCEPT ![k] = @ \cup {d}]
      /\ checks' = [checks EXCEPT ![k][d] = @ + 1]
      /\ d \notin occ[k]
  BY <1>1 DEF Claim, Claimable
<1>3. /\ row \in Schedule /\ row.failed = sched[k].failed
      /\ row.last = last /\ row.outcome = outcome
  BY <1>1 DEF Schedule
<1>. HIDE DEF k, d, row
<1>4. occ' \in [Keys -> SUBSET Dates] /\ checks' \in [Keys -> [Dates -> Nat]]
  BY <1>1, <1>2
<1>5. Counted'
  BY <1>1, <1>2 DEF SchedInv, Counted
<1>6. /\ sched' \in [Keys -> Schedule]
      /\ \A h \in Keys :
            /\ sched'[h].failed = sched[h].failed
            /\ IF h = k THEN sched'[h].last = last /\ sched'[h].outcome = outcome
               ELSE sched'[h] = sched[h]
  BY <1>1, <1>2, <1>3
<1>7. Around'
  BY <1>4, <1>5, Parts DEF Around, Resting
<1>. QED BY <1>6, <1>7 DEF k

(* Without a claim the rest of the state keeps its invariant.               *)
LEMMA QuietAround ==
    ASSUME SchedInv, UNCHANGED <<occ, checks>>, Resting
    PROVE  Around'
BY Parts DEF Around, Resting, Counted

(* The tick goes to its next step.                                          *)
LEMMA TickToTyped ==
    ASSUME SchedInv, NEW pc \in {"launch", "skip", "coalesce", "busy"}, TickTo(pc),
           tick.due # <<>>
    PROVE  TickTyped' /\ tick'.pc = pc /\ (pc = "launch" => tick'.job = tick.job)
BY DEF SchedInv, TypeOK, TickTyped, TickState, TickTo

(* Without a write the rows keep theirs.                                    *)
LEMMA QuietRows ==
    ASSUME SchedInv, UNCHANGED <<sched, job>>
    PROVE  Rows'
BY SettledKeeps, StaysSettled

(* The due rows in order are a sequence of due rows, and so is its head.    *)
LEMMA ListDueKeeps ==
    ASSUME SchedInv, ListDue
    PROVE  SchedInv'
<1>. DEFINE keys == {k \in Keys : sched[k].enabled /\ sched[k].next <= tick.at}
            due == {DueRow(k) : k \in keys}
<1>1. UNCHANGED <<sched, occ, checks, job>> /\ Resting
  BY DEF ListDue
<1>2. tick \in TickState /\ NoTick \in TickState
  BY SchedulerAssumption DEF SchedInv, TypeOK, TickState, NoTick, Instants
<1>3. due \subseteq DueCheck
  BY DEF SchedInv, TypeOK, Schedule, DueCheck, DueRow
<1>4. IsFiniteSet(due)
  <2>1. IsFiniteSet(keys)
    BY SchedulerAssumption, FS_Subset
  <2>2. [k \in keys |-> DueRow(k)] \in Surjection(keys, due)
    BY DEF Surjection
  <2>. QED BY <2>1, <2>2, FS_Surjection
<1>5. TickTyped' /\ tick'.pc \in {"idle", "run"}
  <2>1. CASE tick' = NoTick
    BY <2>1, <1>2 DEF TickTyped, NoTick
  <2>2. CASE due # {} /\ tick' # NoTick
    <3>1. PICK q \in SetToSeqs(due) :
             tick' = [tick EXCEPT !.pc = "run",
                         !.due = IF Len(q) > DueLimit THEN SubSeq(q, 1, DueLimit) ELSE q]
      BY <2>2 DEF ListDue
    <3>2. q \in Seq(DueCheck) /\ q # <<>>
      <4>1. Cardinality(due) \in Nat \ {0}
        BY <2>2, <1>4, FS_CardinalityType, FS_EmptySet
      <4>2. q \in [1..Cardinality(due) -> due]
        BY DEF SetToSeqs
      <4>3. q \in [1..Cardinality(due) -> DueCheck]
        BY <4>2, <1>3
      <4>. HIDE DEF due
      <4>4. q \in Seq(DueCheck)
        BY <4>1, <4>3, SeqDef
      <4>5. 1 \in DOMAIN q
        BY <4>1, <4>3
      <4>. QED BY <4>4, <4>5
    <3>. DEFINE r == IF Len(q) > DueLimit THEN SubSeq(q, 1, DueLimit) ELSE q
    <3>3. r \in Seq(DueCheck) /\ r # <<>>
      <4>1. CASE Len(q) > DueLimit
        <5>. HIDE DEF due
        <5>1. DueLimit \in Int /\ DueLimit >= 1 /\ \A i \in 1..DueLimit : q[i] \in DueCheck
          BY <3>2, <4>1, SchedulerAssumption, ElementOfSeq, LenProperties
        <5>2. SubSeq(q, 1, DueLimit) \in Seq(DueCheck) /\ Len(SubSeq(q, 1, DueLimit)) = DueLimit
          BY <5>1, SubSeqProperties
        <5>. QED BY <4>1, <5>1, <5>2
      <4>2. CASE ~(Len(q) > DueLimit)
        BY <3>2, <4>2
      <4>. QED BY <4>1, <4>2
    <3>4. tick' = [tick EXCEPT !.pc = "run", !.due = r]
      BY <3>1
    <3>. HIDE DEF r
    <3>. QED BY <3>3, <3>4, <1>2 DEF TickTyped, TickState
  <2>. QED BY <2>1, <2>2 DEF ListDue
<1>. QED BY <1>1, <1>5, Parts, QuietRows, QuietAround DEF Ticking

(* The admission of an automatic check, or its refusal.                     *)
LEMMA SubmitKeeps ==
    ASSUME SchedInv, NEW j \in Jobs, SubmitScheduled(j)
    PROVE  SchedInv'
<1>. DEFINE self == Row.key \in SelfKeys
            x == NewJob(Row.key, TRUE, "update", Row.target, IF self THEN "self" ELSE "launch")
<1>1. /\ tick.pc = "submit" /\ tick.job = j /\ tick.due # <<>> /\ Resting
      /\ job[j].status = "none" /\ job \in [Jobs -> Job] /\ sched \in [Keys -> Schedule]
  BY DEF SubmitScheduled, SchedInv, TypeOK, Ticking
<1>2. CASE ~Uncleaned /\ Claimable /\ ~Reserved(Row.key) /\ ~AutomaticBusy
  <2>1. /\ Claim(j, "running") /\ job' = [job EXCEPT ![j] = x]
        /\ TickTo("busy") \/ TickTo("skip") \/ (~self /\ TickTo("launch"))
    BY <1>2 DEF SubmitScheduled
  <2>2. /\ x \in Job /\ x.key = Row.key /\ x.status = "running" /\ x.outcome = "" /\ x.auto
        /\ x.pc \in {"self", "launch"} /\ (~self => x.pc = "launch")
    <3>1. Row.key \in Keys /\ Row.target \in Generations
      BY <1>1, RowTypes DEF DueCheck
    <3>. QED BY <3>1 DEF NewJob, Job, Pcs, Outcomes
  <2>3. Row.key \in Keys /\ "running" \in Outcomes /\ j \in Jobs \cup {NoJob}
    BY <1>1, RowTypes DEF DueCheck, Outcomes
  <2>. HIDE DEF x, self
  <2>4. /\ Around' /\ sched' \in [Keys -> Schedule]
        /\ \A k \in Keys :
             /\ sched'[k].failed = sched[k].failed
             /\ IF k = Row.key THEN sched'[k].last = j /\ sched'[k].outcome = "running"
                ELSE sched'[k] = sched[k]
    BY <1>1, <1>2, <2>1, <2>3, ClaimKeeps
  <2>5. Rows'
    BY ZenonT(40), <1>1, <1>2, <2>1, <2>2, <2>3, <2>4, AdmissionKeeps
  <2>6. TickTyped' /\ (tick'.pc = "busy" \/ tick'.pc = "skip"
                        \/ (~self /\ tick'.pc = "launch" /\ tick'.job = j))
    BY <1>1, <2>1, TickToTyped
  <2>7. Ticking'
    BY <1>1, <2>1, <2>2, <2>6 DEF Ticking
  <2>. QED BY <2>4, <2>5, <2>6, <2>7, Parts
<1>3. CASE ~(~Uncleaned /\ Claimable /\ ~Reserved(Row.key) /\ ~AutomaticBusy)
  <2>1. /\ UNCHANGED <<sched, occ, checks, job>>
        /\ TickTo("skip") \/ TickTo("coalesce")
    BY <1>3 DEF SubmitScheduled, AfterChange
  <2>2. TickTyped' /\ tick'.pc \in {"skip", "coalesce"}
    BY <1>1, <2>1, TickToTyped
  <2>. QED BY <1>1, <2>1, <2>2, Parts, QuietRows, QuietAround DEF Ticking
<1>. QED BY <1>2, <1>3

(* The launch of an admitted check, failed and uncertain ones included.     *)
LEMMA LaunchKeeps ==
    ASSUME SchedInv, LaunchScheduled
    PROVE  SchedInv'
<1>. DEFINE j == tick.job
            x == [job[j] EXCEPT !.pc = "start", !.worker = TRUE]
            f == [job[j] EXCEPT !.pc = "over", !.status = "failed", !.outcome = "failed"]
            u == [job[j] EXCEPT !.pc = "over", !.status = "failed",
                                !.outcome = "recovery_required", !.worker = TRUE]
<1>1. /\ tick.pc = "launch" /\ j \in Jobs /\ job[j].pc = "launch" /\ tick.due # <<>>
      /\ TickTo("busy") /\ UNCHANGED <<occ, checks>> /\ Resting
  BY DEF LaunchScheduled, SchedInv, Ticking, TypeOK
<1>2. Running(j) /\ job[j] \in Job /\ job \in [Jobs -> Job]
  BY <1>1 DEF SchedInv, Placed, TypeOK
<1>3. \/ job' = [job EXCEPT ![j] = x] /\ UNCHANGED sched
      \/ Write(j, f) \/ Write(j, u)
  BY <1>2 DEF LaunchScheduled
<1>4. Follows(j, x) /\ x.status = "running" /\ x.pc = "start"
  BY <1>1, <1>2 DEF Follows, Job, Pcs, Running, SchedInv, Placed, Uncertain
<1>5. Follows(j, f) /\ f.status # "running"
  <2>1. f \in Job
    BY <1>2 DEF Job, Pcs, Outcomes
  <2>. QED BY <2>1, <1>2 DEF Follows, Job
<1>6. Follows(j, u) /\ u.status # "running"
  <2>1. u \in Job
    BY <1>2 DEF Job, Pcs, Outcomes
  <2>. QED BY <2>1, <1>2 DEF Follows, Job
<1>. HIDE DEF x, f, u, j
<1>7. Rows'
  <2>1. Write(j, f) \/ Write(j, u) => Rows'
    BY <1>1, <1>2, <1>5, <1>6, WriteKeeps DEF Active
  <2>2. job' = [job EXCEPT ![j] = x] /\ UNCHANGED sched => Rows'
    BY <1>1, <1>2, <1>4, StepKeeps, StaysSettled
  <2>. QED BY <1>3, <2>1, <2>2
<1>8. TickTyped' /\ tick'.pc = "busy"
  BY <1>1, TickToTyped
<1>. QED BY <1>1, <1>7, <1>8, QuietAround, Parts DEF Ticking

(* A check that is consumed without a job.                                  *)
LEMMA SkipKeeps ==
    ASSUME SchedInv, SkipScheduled
    PROVE  SchedInv'
<1>1. tick.pc = "skip" /\ tick.due # <<>> /\ Resting /\ UNCHANGED job
  BY DEF SkipScheduled, SchedInv, TypeOK
<1>2. TickTyped' /\ tick'.pc \in {"busy", "coalesce"}
  BY <1>1, TickToTyped DEF SkipScheduled
<1>3. CASE Claimable
  <2>1. Claim(NoJob, "skipped") /\ "skipped" \in Outcomes /\ NoJob \in Jobs \cup {NoJob}
    BY <1>3 DEF SkipScheduled, Outcomes
  <2>2. /\ Around' /\ sched' \in [Keys -> Schedule]
        /\ \A k \in Keys :
             /\ sched'[k].failed = sched[k].failed
             /\ IF k = Row.key THEN sched'[k].last = NoJob /\ sched'[k].outcome = "skipped"
                ELSE sched'[k] = sched[k]
    BY <1>1, <1>3, <2>1, ClaimKeeps
  <2>3. Settled
    BY <2>2 DEF Settled
  <2>. QED BY <1>1, <1>2, <2>2, <2>3, SettledKeeps, Parts DEF Ticking
<1>4. CASE ~Claimable
  <2>1. UNCHANGED <<sched, occ, checks>>
    BY <1>4 DEF SkipScheduled
  <2>. QED BY <1>1, <1>2, <2>1, QuietRows, QuietAround, Parts DEF Ticking
<1>. QED BY <1>3, <1>4

(* A check whose date is consumed already.                                  *)
LEMMA CoalesceKeeps ==
    ASSUME SchedInv, CoalesceOccurrence
    PROVE  SchedInv'
<1>1. /\ tick.pc = "coalesce" /\ tick.due # <<>> /\ Resting /\ TickTo("busy")
      /\ UNCHANGED <<occ, checks, job>> /\ sched \in [Keys -> Schedule]
  BY DEF CoalesceOccurrence, SchedInv, TypeOK
<1>2. TickTyped' /\ tick'.pc = "busy"
  BY <1>1, TickToTyped
<1>3. Row.key \in Keys /\ Following \in Nat
  BY <1>1, RowTypes DEF DueCheck
<1>4. Settled
  BY SMTT(30), <1>1, <1>3 DEF CoalesceOccurrence, Settled, Schedule
<1>. QED BY <1>1, <1>2, <1>4, SettledKeeps, QuietAround, Parts DEF Ticking

(* The steps of the tick that change no row.                                *)
LEMMA QuietTickKeeps ==
    ASSUME SchedInv, TickStart \/ AssessScheduled \/ RecheckBusy
    PROVE  SchedInv'
<1>1. UNCHANGED <<sched, occ, checks, job>> /\ Resting
  BY DEF TickStart, AssessScheduled, RecheckBusy
<1>2. tick \in TickState /\ now \in Instants
      /\ (tick.pc \in {"run", "busy"} => tick.due # <<>>)
  BY DEF SchedInv, TypeOK
<1>3. TickTyped' /\ Ticking'
  <2>1. CASE TickStart
    BY <1>2, <2>1 DEF TickStart, TickTyped, TickState, Ticking
  <2>2. CASE AssessScheduled
    <3>1. tick.pc = "run" /\ (TickTo("skip")
             \/ \E j \in Jobs : Free(j) /\ tick' = [tick EXCEPT !.pc = "submit", !.job = j])
      BY <2>2 DEF AssessScheduled
    <3>2. TickTo("skip") => TickTyped' /\ Ticking'
      BY <1>2, <3>1, TickToTyped DEF Ticking
    <3>3. ASSUME NEW j \in Jobs, Free(j), tick' = [tick EXCEPT !.pc = "submit", !.job = j]
          PROVE  TickTyped' /\ Ticking'
      BY <1>1, <1>2, <3>1, <3>3 DEF TickTyped, TickState, Ticking, Free
    <3>. QED BY <3>1, <3>2, <3>3
  <2>3. CASE RecheckBusy
    <3>1. Tail(tick.due) \in Seq(DueCheck) /\ NoTick \in TickState
      BY <1>2, <2>3, RowTypes, SchedulerAssumption
      DEF RecheckBusy, TickState, NoTick, Instants
    <3>2. \/ tick' = [tick EXCEPT !.pc = "defer", !.due = <<>>]
          \/ tick' = NoTick
          \/ Tail(tick.due) # <<>> /\ tick' = [tick EXCEPT !.pc = "run", !.due = Tail(@)]
      BY <2>3 DEF RecheckBusy
    <3>. QED BY <1>2, <3>1, <3>2 DEF TickTyped, TickState, Ticking, NoTick
  <2>. QED BY <2>1, <2>2, <2>3
<1>. QED BY <1>1, <1>3, Parts, QuietRows, QuietAround

(* The due rows of a busy tick are deferred.                                *)
LEMMA DeferKeeps ==
    ASSUME SchedInv, DeferDueSchedules
    PROVE  SchedInv'
<1>1. /\ Resting /\ UNCHANGED <<occ, checks, job>> /\ tick' = NoTick
      /\ sched \in [Keys -> Schedule]
  BY DEF DeferDueSchedules, SchedInv, TypeOK
<1>2. TickTyped' /\ Ticking'
  BY <1>1, SchedulerAssumption DEF TickTyped, Ticking, NoTick, TickState, Instants
<1>3. Settled
  <2>1. \A k \in Keys :
          \/ sched'[k] = sched[k]
          \/ sched'[k] = [sched[k] EXCEPT !.outcome = "deferred", !.last = NoJob]
    BY DEF DeferDueSchedules
  <2>2. \A s \in Schedule :
          LET d == [s EXCEPT !.outcome = "deferred", !.last = NoJob]
          IN  d \in Schedule /\ d.failed = s.failed /\ d.last = NoJob
    BY DEF Schedule, Outcomes
  <2>3. sched' = [k \in Keys |-> sched'[k]]
    BY DEF DeferDueSchedules
  <2>4. \A k \in Keys :
          /\ sched'[k] \in Schedule /\ sched'[k].failed = sched[k].failed
          /\ sched'[k] = sched[k] \/ sched'[k].last = NoJob
    BY ZenonT(40), <1>1, <2>1, <2>2
  <2>. QED BY <2>3, <2>4 DEF Settled
<1>. QED BY <1>1, <1>2, <1>3, SettledKeeps, QuietAround, Parts

-----------------------------------------------------------------------------
(* Edits, time and restarts.                                                *)

(* No edit is an edit.                                                      *)
LEMMA NoEditTyped == NoEdit \in Edit
BY SchedulerAssumption DEF NoEdit, Edit, Offsets, Generations

(* An edit reads its row.                                                   *)
LEMMA BeginEditKeeps ==
    ASSUME SchedInv, NEW k \in Keys, NEW enabled \in BOOLEAN, NEW at \in Offsets,
           BeginEdit(k, enabled, at)
    PROVE  SchedInv'
<1>1. /\ UNCHANGED <<sched, occ, checks, job, current, tick, now, zone>>
      /\ events < MaxEvents /\ events' = events + 1
      /\ edit' = [on |-> TRUE, key |-> k, enabled |-> enabled, at |-> at,
                  target |-> IF enabled THEN current[k] ELSE sched[k].target]
  BY DEF BeginEdit
<1>2. edit' \in Edit /\ events' \in 0..MaxEvents
  BY <1>1, SchedulerAssumption DEF SchedInv, TypeOK, Edit, Schedule
<1>3. Around' /\ TickTyped' /\ Ticking'
  BY <1>1, <1>2, Parts DEF Around, Counted, TickTyped, Ticking
<1>. QED BY <1>1, <1>3, QuietRows, Parts

(* An edit writes its row.                                                  *)
LEMMA CommitEditKeeps ==
    ASSUME SchedInv, CommitEdit
    PROVE  SchedInv'
<1>. DEFINE k == edit.key
            s == sched[k]
            kept == s.enabled = edit.enabled /\ s.at = edit.at
            next == IF edit.enabled THEN NextAt(now, edit.at) ELSE 0
            row == [s EXCEPT !.enabled = edit.enabled, !.at = edit.at, !.target = edit.target,
                             !.next = IF kept THEN s.next ELSE next]
<1>1. /\ sched' = [sched EXCEPT ![k] = row] /\ edit' = NoEdit
      /\ UNCHANGED <<occ, checks, job, current, tick, now, zone, events>>
  BY DEF CommitEdit
<1>2. /\ edit \in Edit /\ k \in Keys /\ sched \in [Keys -> Schedule] /\ s \in Schedule
      /\ zone \in Zones /\ now \in Instants /\ edit.at \in Offsets
  BY DEF SchedInv, TypeOK, Edit
<1>3. next \in Nat
  BY <1>2, SlotTypes
<1>. HIDE DEF next
<1>4. row \in Schedule /\ row.failed = s.failed /\ row.last = s.last /\ row.outcome = s.outcome
  BY <1>2, <1>3 DEF Edit, Schedule
<1>. HIDE DEF row, k
<1>5. Settled
  BY <1>1, <1>2, <1>4 DEF Settled
<1>6. Around' /\ TickTyped' /\ Ticking'
  BY <1>1, NoEditTyped, Parts DEF Around, Counted, TickTyped, Ticking
<1>. QED BY <1>1, <1>5, <1>6, SettledKeeps, Parts

(* The clock moves either way.                                              *)
LEMMA TimeKeeps ==
    ASSUME SchedInv, Advance \/ ClockStepsBack
    PROVE  SchedInv'
<1>1. /\ UNCHANGED <<sched, occ, checks, job, current, tick, edit, zone>>
      /\ now' \in Instants /\ events' \in 0..MaxEvents
  BY SchedulerAssumption DEF Advance, ClockStepsBack, SchedInv, TypeOK, Instants
<1>2. Around' /\ TickTyped' /\ Ticking'
  BY <1>1, Parts DEF Around, Counted, TickTyped, Ticking
<1>. QED BY <1>1, <1>2, QuietRows, Parts

(* The web process restarts, with any timezone.                             *)
LEMMA RestartKeeps ==
    ASSUME SchedInv, NEW z \in Zones, Restart(z)
    PROVE  SchedInv'
<1>1. /\ UNCHANGED <<sched, occ, checks, job, current, now>>
      /\ tick' = NoTick /\ edit' = NoEdit /\ zone' = z /\ events' \in 0..MaxEvents
  BY SchedulerAssumption DEF Restart, SchedInv, TypeOK
<1>2. Around'
  BY <1>1, NoEditTyped, Parts DEF Around, Counted
<1>3. TickTyped' /\ Ticking'
  BY <1>1, SchedulerAssumption DEF TickTyped, Ticking, NoTick, TickState, Instants
<1>. QED BY <1>1, <1>2, <1>3, QuietRows, Parts

(* Nothing happens.                                                         *)
LEMMA StutterKeeps ==
    ASSUME SchedInv, UNCHANGED svars
    PROVE  SchedInv'
<1>1. Around' /\ TickTyped' /\ Ticking'
  BY Parts DEF svars, Around, Counted, TickTyped, Ticking
<1>. QED BY <1>1, QuietRows, Parts DEF svars

-----------------------------------------------------------------------------
(* The invariant and what follows from it.                                  *)

(* The invariant holds of every set of saved schedules.                     *)
LEMMA InitHolds == Init => SchedInv
<1> SUFFICES ASSUME Init PROVE SchedInv
  OBVIOUS
<1>0. PICK on \in [Keys -> BOOLEAN], at \in [Keys -> Offsets] :
        sched = [k \in Keys |-> Saved(on[k], at[k])]
  BY DEF Init
<1>1. /\ job = [j \in Jobs |-> NoRow]
      /\ \A j \in Jobs : job[j] = NoRow /\ ~Running(j) /\ ~Uncertain(j)
      /\ \A k \in Keys : sched[k].last = NoJob
  <2>1. job = [j \in Jobs |-> NoRow]
    BY DEF Init
  <2>2. \A j \in Jobs : job[j].status = "none" /\ job[j].outcome = ""
    BY <2>1 DEF NoRow
  <2>3. \A k \in Keys : sched[k].last = NoJob
    BY <1>0 DEF Saved
  <2>. QED BY <2>1, <2>2, <2>3 DEF Running, Uncertain
<1>2. NoRow \in Job
  BY SchedulerAssumption DEF NoRow, Job, Outcomes, Pcs, Generations
<1>3. sched \in [Keys -> Schedule]
  <2>1. DayLength \in Instants
    BY SchedulerAssumption DEF Instants
  <2>2. zone \in Zones
    BY DEF Init
  <2>3. \A a \in Offsets : NextAt(DayLength, a) \in Nat
    BY <2>1, <2>2, SlotTypes
  <2>4. \A e \in BOOLEAN, a \in Offsets : Saved(e, a) \in Schedule
    BY <2>3 DEF Saved, Schedule, Outcomes, Generations
  <2>. QED BY <1>0, <2>4
<1>4. TypeOK
  <2>1. job \in [Jobs -> Job]
    BY <1>1, <1>2
  <2>2. NoTick \in TickState /\ tick = NoTick /\ tick.pc = "idle"
    BY SchedulerAssumption DEF Init, NoTick, TickState, Instants
  <2>3. edit \in Edit
    BY NoEditTyped DEF Init
  <2>4. /\ occ \in [Keys -> SUBSET Dates] /\ checks \in [Keys -> [Dates -> Nat]]
        /\ current \in [Keys -> Generations]
    BY DEF Init, Generations
  <2>5. now \in Instants /\ events \in 0..MaxEvents
    BY SchedulerAssumption DEF Init, Instants
  <2>6. zone \in Zones
    BY DEF Init
  <2>. QED BY <1>3, <2>1, <2>2, <2>3, <2>4, <2>5, <2>6 DEF TypeOK
<1>5. Placed /\ OneActive /\ OneAutomatic /\ FenceRespected
  <2>1. \A j \in Jobs : job[j].pc = "none" /\ ~job[j].auto
    BY <1>1 DEF NoRow
  <2>. QED BY <1>1, <2>1 DEF Placed, OneActive, OneAutomatic, FenceRespected, Active
<1>6. Named /\ ScheduleMirrorsJob
  BY <1>1 DEF Named, ScheduleMirrorsJob
<1>7. Counted /\ Ticking
  BY DEF Init, Counted, Ticking, NoTick
<1>. QED BY <1>4, <1>5, <1>6, <1>7 DEF SchedInv

(* Every step keeps the invariant.                                          *)
LEMMA NextKeeps == SchedInv /\ [Next]_svars => SchedInv'
<1> SUFFICES ASSUME SchedInv, [Next]_svars PROVE SchedInv'
  OBVIOUS
<1>1. CASE \E j \in Jobs : Work(j)
  BY <1>1, WorkKeeps
<1>2. CASE \E j \in Jobs : CleanWorker(j) \/ AcknowledgeRecovery(j)
  BY <1>2, CleanKeeps, AcknowledgeKeeps
<1>3. CASE \E j \in Jobs : \E k \in Keys, op \in ManualOps : ManualJob(k, j, op)
  BY <1>3, ManualKeeps
<1>4. CASE Tick
  BY <1>4, QuietTickKeeps, ListDueKeeps, SubmitKeeps, LaunchKeeps, SkipKeeps, CoalesceKeeps,
     DeferKeeps DEF Tick
<1>5. CASE \E k \in Keys, enabled \in BOOLEAN, at \in Offsets : BeginEdit(k, enabled, at)
  BY <1>5, BeginEditKeeps
<1>6. CASE CommitEdit \/ Advance \/ ClockStepsBack \/ \E z \in Zones : Restart(z)
  BY <1>6, CommitEditKeeps, TimeKeeps, RestartKeeps
<1>7. CASE UNCHANGED svars
  BY <1>7, StutterKeeps
<1>. QED BY <1>1, <1>2, <1>3, <1>4, <1>5, <1>6, <1>7 DEF Next

(* The inductive invariant of the schedules, the jobs and the tick.         *)
THEOREM Invariance == Spec => []SchedInv
BY InitHolds, NextKeeps, PTL DEF Spec

(* Only one automatic worker exists, whatever the keys and the jobs: no     *)
(* other is admitted before its job is settled, reviewed and cleaned.       *)
THEOREM OneAutomaticHolds == Spec => []OneAutomatic
<1>1. SchedInv => OneAutomatic
  BY DEF SchedInv
<1>. QED BY <1>1, Invariance, PTL

(* An automatic worker never replaces anything by the image set recorded as *)
(* failed, although the fence is read well before the replacement.          *)
THEOREM FenceRespectedHolds == Spec => []FenceRespected
<1>1. SchedInv => FenceRespected
  BY DEF SchedInv
<1>. QED BY <1>1, Invariance, PTL

(* While a schedule names its last job, it shows that job's result.         *)
THEOREM ScheduleMirrorsJobHolds == Spec => []ScheduleMirrorsJob
<1>1. SchedInv => ScheduleMirrorsJob
  BY DEF SchedInv
<1>. QED BY <1>1, Invariance, PTL

(* A civil date yields at most one check of a schedule, through restarts,   *)
(* timezone changes and clock steps of any number.                          *)
THEOREM OccurrenceOnceHolds == Spec => []OccurrenceOnce
<1>1. SchedInv => OccurrenceOnce
  BY DEF SchedInv, Counted, OccurrenceOnce
<1>. QED BY <1>1, Invariance, PTL
=============================================================================
