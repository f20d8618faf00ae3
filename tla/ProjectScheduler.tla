-------------------------- MODULE ProjectScheduler --------------------------
(***************************************************************************)
(* Daily automatic updates: the schedule rows and occurrences of           *)
(* internal/store/schedules.go, the tick of internal/schedule, the         *)
(* admission of internal/application/schedules.go, and the part of the     *)
(* update workers that looks at a schedule.                                *)
(*                                                                         *)
(* A job's reservations are those of an active row, which OperationJobs    *)
(* shows and proves (ReservationsExact), so they are not kept twice.  A    *)
(* day has DayLength instants; civil time is the clock plus the zone.      *)
(* Docker containers of a target are numbered: a guarded replacement of a  *)
(* standalone container yields the next number.                            *)
(***************************************************************************)
EXTENDS Integers, Sequences, SequencesExt

CONSTANTS
    Keys,           \* schedule keys: compose:NAME or container:ID
    Standalone,     \* the keys of single containers (recreate worker)
    FileBacked,     \* the keys deployed from saved project files
    SelfKeys,       \* Yard's own key, if it updates itself by its own worker
    Jobs,           \* operation ids
    Images,         \* candidate image sets
    NoJob, NoImage,
    DayLength,      \* instants per civil day
    Zones,          \* offsets NOX_TIMEZONE may have
    DueLimit,       \* DueSchedules reads at most 4 rows
    MaxTime,        \* bound: last instant of the clock
    ManualOps,      \* the manual operations requested
    MaxEvents       \* bound: edits, web restarts and backward clock steps

ASSUME SchedulerAssumption ==
    /\ IsFiniteSet(Keys) /\ Keys # {}
    /\ Standalone \subseteq Keys /\ FileBacked \subseteq Keys /\ SelfKeys \subseteq Keys
    /\ NoJob \notin Jobs /\ NoImage \notin Images
    /\ DayLength \in Nat \ {0} /\ DueLimit \in Nat \ {0}
    /\ Zones \subseteq 0..(DayLength - 1) /\ Zones # {}
    /\ MaxTime \in Nat /\ MaxTime >= DayLength /\ MaxEvents \in Nat
    /\ ManualOps \subseteq {"update", "remove"}

VARIABLES
    sched,      \* project_schedules
    occ,        \* schedule_occurrences: the civil dates consumed per key
    checks,     \* rows of operation_jobs per key and civil date (a history)
    job,        \* operation_jobs and the worker of each
    current,    \* the number of the key's container in Docker
    tick,       \* Manager.Tick
    edit,       \* setProjectSchedule in progress
    now, zone,  \* the clock and the server's timezone
    events

svars == <<sched, occ, checks, job, current, tick, edit, now, zone, events>>

----------------------------------------------------------------------------
(* Civil time.                                                             *)

Offsets == 0..(DayLength - 1)
Instants == DayLength..MaxTime
Dates == 0..((MaxTime + DayLength) \div DayLength)
Generations == Nat

\* SlotAt: the latest instant, not after t, of the daily time.
SlotAt(t, at) == t - ((t + zone - at) % DayLength)
\* NextAt: the first instant after t of the daily time.
NextAt(t, at) == SlotAt(t, at) + DayLength
CivilDate(t) == (t + zone) \div DayLength

----------------------------------------------------------------------------
(* Rows.                                                                   *)

Outcomes == {"", "running", "deferred", "skipped", "unchanged", "verified",
             "failed", "recovery_required", "recovery_acknowledged"}
Pcs == {"none", "launch", "start", "pull", "ready", "replace", "retargeted", "self",
        "remove", "over"}

NoRow == [key |-> CHOOSE k \in Keys : TRUE, auto |-> FALSE, op |-> "update",
          status |-> "none", outcome |-> "", worker |-> FALSE, cleaned |-> FALSE,
          cand |-> NoImage, target |-> 0, pc |-> "none"]

\* A scheduled job of Yard itself carries its worker's name from the start.
NewJob(k, auto, op, target, pc) ==
    [key |-> k, auto |-> auto, op |-> op, status |-> "running", outcome |-> "",
     worker |-> pc = "self", cleaned |-> FALSE, cand |-> NoImage, target |-> target, pc |-> pc]

Running(j)   == job[j].status = "running"
Uncertain(j) == job[j].outcome = "recovery_required"
Active(j)    == Running(j) \/ Uncertain(j)
Reserved(k)  == \E j \in Jobs : job[j].key = k /\ Active(j)

\* An id nobody has drawn.  Bound: there are as many jobs as ids.
Free(j) == job[j].status = "none" /\ tick.job # j

\* Mutant: a finished worker that awaits cleanup is forgotten.
NoneUncleaned == FALSE
Uncleaned == \E j \in Jobs : job[j].auto /\ job[j].worker /\ ~job[j].cleaned

AutomaticBusy == (\E j \in Jobs : job[j].auto /\ Active(j)) \/ Uncleaned

Due(k) == sched[k].enabled /\ sched[k].next <= now

Schedule == [enabled : BOOLEAN, at : Offsets, next : Nat, outcome : Outcomes,
             last : Jobs \cup {NoJob}, failed : Images \cup {NoImage}, target : Generations]
Job == [key : Keys, auto : BOOLEAN, op : {"update", "remove"},
        status : {"none", "running", "succeeded", "failed"}, outcome : Outcomes,
        worker : BOOLEAN, cleaned : BOOLEAN, cand : Images \cup {NoImage},
        target : Generations, pc : Pcs]
DueCheck == [key : Keys, at : Offsets, next : Nat, target : Generations]
TickState == [pc : {"idle", "list", "run", "submit", "launch", "skip", "coalesce", "busy", "defer"},
              at : Instants, due : Seq(DueCheck), job : Jobs \cup {NoJob}]
Edit == [on : BOOLEAN, key : Keys, enabled : BOOLEAN, at : Offsets, target : Generations]

TypeOK ==
    /\ sched \in [Keys -> Schedule]
    /\ occ \in [Keys -> SUBSET Dates]
    /\ checks \in [Keys -> [Dates -> Nat]]
    /\ job \in [Jobs -> Job]
    /\ current \in [Keys -> Generations]
    /\ tick \in TickState
    /\ tick.pc \in {"run", "submit", "launch", "skip", "coalesce", "busy"} => tick.due # <<>>
    /\ edit \in Edit
    /\ now \in Instants /\ zone \in Zones /\ events \in 0..MaxEvents

NoTick == [pc |-> "idle", at |-> DayLength, due |-> <<>>, job |-> NoJob]
NoEdit == [on |-> FALSE, key |-> CHOOSE k \in Keys : TRUE, enabled |-> FALSE, at |-> 0,
           target |-> 0]

\* A schedule starts disabled, or as its user saved it before.
Saved(enabled, at) ==
    [enabled |-> enabled, at |-> at, next |-> IF enabled THEN NextAt(DayLength, at) ELSE 0,
     outcome |-> "", last |-> NoJob, failed |-> NoImage, target |-> 0]

Init ==
    /\ zone \in Zones
    /\ \E on \in [Keys -> BOOLEAN], at \in [Keys -> Offsets] :
        sched = [k \in Keys |-> Saved(on[k], at[k])]
    /\ occ = [k \in Keys |-> {}]
    /\ checks = [k \in Keys |-> [d \in Dates |-> 0]]
    /\ job = [j \in Jobs |-> NoRow]
    /\ current = [k \in Keys |-> 0]
    /\ tick = NoTick
    /\ edit = NoEdit
    /\ now = DayLength
    /\ events = 0

----------------------------------------------------------------------------
(* The job's final transactions and what they tell the schedules.          *)

\* finishSchedule, for the job as it will be.
ScheduleAfter(k, j, x) ==
    LET s == sched[k]
        mirrored == IF x.auto /\ x.key = k /\ s.last = j
                    THEN [s EXCEPT !.outcome = x.outcome, !.target = x.target] ELSE s
        removed  == IF x.op = "remove" /\ x.status = "succeeded" /\ x.key = k
                    THEN [mirrored EXCEPT !.enabled = FALSE, !.next = 0] ELSE mirrored
    IN  IF x.op # "update" \/ x.cand = NoImage \/ x.key # k THEN removed
        ELSE IF x.status = "failed" THEN [removed EXCEPT !.failed = x.cand]
        ELSE IF x.outcome \in {"verified", "unchanged"}
             THEN [removed EXCEPT !.failed = NoImage]
        ELSE removed

Write(j, x) ==
    /\ job' = [job EXCEPT ![j] = x]
    /\ sched' = [k \in Keys |-> ScheduleAfter(k, j, x)]

\* FinishJob and FinishSelfUpdateOutcome.
FinishJob(j, status, outcome) ==
    Write(j, [job[j] EXCEPT !.status = status, !.outcome = outcome, !.pc = "over"])

Step(j, pc) == job' = [job EXCEPT ![j].pc = pc] /\ UNCHANGED sched
NoTime == UNCHANGED <<occ, checks, tick, edit, now, zone, events>>

----------------------------------------------------------------------------
(* Update workers, manual or automatic.                                    *)

\* A manual operation, admitted and launched.
ManualJob(k, j, op) ==
    /\ Free(j)
    /\ k \notin SelfKeys
    /\ ~Reserved(k)
    /\ job' = [job EXCEPT ![j] =
                  [NewJob(k, FALSE, op, current[k], IF op = "remove" THEN "remove" ELSE "start")
                      EXCEPT !.worker = op = "update"]]
    /\ UNCHANGED <<sched, current>> /\ NoTime

\* ScheduleEnabled before the pull.
CheckEnabled(j) ==
    /\ Running(j) /\ job[j].pc = "start"
    /\ IF job[j].auto /\ ~sched[job[j].key].enabled
       THEN FinishJob(j, "succeeded", "skipped") ELSE Step(j, "pull")
    /\ UNCHANGED current /\ NoTime

\* Mutant: a disabled schedule stops the worker, a failed image set does not.
RefusedOnlyDisabled(j, image) == job[j].auto /\ ~sched[job[j].key].enabled

\* UpdateCandidate's reason not to replace.
Refused(j, image) ==
    /\ job[j].auto
    /\ LET s == sched[job[j].key] IN ~s.enabled \/ image = s.failed

\* UpdateCandidate after the pull.  A manual update of a file-backed project
\* does not call it.
PullImages(j) ==
    /\ Running(j) /\ job[j].pc = "pull"
    /\ \E image \in Images :
        LET x == [job[j] EXCEPT !.cand =
                     IF ~job[j].auto /\ job[j].key \in FileBacked THEN NoImage ELSE image]
        IN  IF Refused(j, image)
            THEN Write(j, [x EXCEPT !.status = "succeeded", !.outcome = "skipped", !.pc = "over"])
            ELSE job' = [job EXCEPT ![j] = [x EXCEPT !.pc = "ready"]] /\ UNCHANGED sched
    /\ UNCHANGED current /\ NoTime

\* The images are the running ones, or UpdateCandidate is asked again right
\* before the replacement.
BeginReplacement(j) ==
    /\ Running(j) /\ job[j].pc = "ready"
    /\ \/ FinishJob(j, "succeeded", "unchanged")
       \/ IF Refused(j, job[j].cand)
          THEN FinishJob(j, "succeeded", "skipped") ELSE Step(j, "replace")
    /\ UNCHANGED current /\ NoTime

\* complete's RetargetJob: the replacement is the job's and the schedule's
\* target from now on.
RetargetJob(j) ==
    /\ Running(j) /\ job[j].pc = "replace"
    /\ LET k == job[j].key
       IN  /\ k \in Standalone
           /\ current' = [current EXCEPT ![k] = @ + 1]
           /\ job' = [job EXCEPT ![j] = [@ EXCEPT !.pc = "retargeted", !.target = current[k] + 1]]
           /\ sched' = [sched EXCEPT ![k].target =
                           IF @ = job[j].target THEN current[k] + 1 ELSE @]
    /\ NoTime

RecordSuccess(j) ==
    /\ Running(j)
    /\ job[j].pc = "retargeted" \/ (job[j].pc = "replace" /\ job[j].key \notin Standalone)
    /\ FinishJob(j, "succeeded", "verified")
    /\ UNCHANGED current /\ NoTime

\* Any error before the target has moved; a rollback that went wrong, a worker
\* that disappeared and a lost write are uncertain.
RecordFailure(j) ==
    /\ Running(j)
    /\ \/ /\ job[j].pc \in {"start", "pull", "ready", "replace", "remove"}
          /\ FinishJob(j, "failed", "failed")
       \/ /\ job[j].pc \in {"start", "pull", "ready", "replace", "retargeted", "remove"}
          /\ FinishJob(j, "failed", "recovery_required")
    /\ UNCHANGED current /\ NoTime

\* The target is gone: whatever appears under its name is another container.
RemoveTarget(j) ==
    /\ Running(j) /\ job[j].pc = "remove"
    /\ FinishJob(j, "succeeded", "verified")
    /\ current' = [current EXCEPT ![job[j].key] = @ + 1]
    /\ NoTime

\* Yard's own worker and reconcileInterruptedJob.
FinishSelfUpdate(j) ==
    /\ Running(j) /\ job[j].pc = "self"
    /\ \/ FinishJob(j, "succeeded", "verified")
       \/ \E outcome \in {"failed", "recovery_required"} : FinishJob(j, "failed", outcome)
    /\ UNCHANGED current /\ NoTime

\* WorkersForCleanup and WorkerCleaned, which leave self-updates out.
CleanWorker(j) ==
    /\ job[j].status \in {"succeeded", "failed"}
    /\ job[j].worker /\ ~job[j].cleaned
    /\ job[j].key \notin SelfKeys
    /\ job' = [job EXCEPT ![j].cleaned = TRUE]
    /\ UNCHANGED <<sched, current>> /\ NoTime

\* Mutant: the review does not tell the schedule.
AcknowledgeSilently(j) ==
    /\ Uncertain(j)
    /\ job' = [job EXCEPT ![j] = [@ EXCEPT !.outcome = "recovery_acknowledged", !.cleaned = FALSE]]
    /\ UNCHANGED <<sched, current>> /\ NoTime

AcknowledgeRecovery(j) ==
    /\ Uncertain(j)
    /\ Write(j, [job[j] EXCEPT !.outcome = "recovery_acknowledged", !.cleaned = FALSE])
    /\ UNCHANGED current /\ NoTime

----------------------------------------------------------------------------
(* Manager.Tick: one database statement, transaction or Docker call a step. *)

TickTo(pc) ==
    tick' = [tick EXCEPT !.pc = pc, !.job = IF pc = "launch" THEN @ ELSE NoJob]
Resting == UNCHANGED <<current, edit, now, zone, events>>

TickStart ==
    /\ tick.pc = "idle"
    /\ tick' = [tick EXCEPT !.pc = IF AutomaticBusy THEN "defer" ELSE "list", !.at = now]
    /\ UNCHANGED <<sched, occ, checks, job>> /\ Resting

DueRow(k) == [key |-> k, at |-> sched[k].at, next |-> sched[k].next, target |-> sched[k].target]

\* DueSchedules: the longest due first, at most DueLimit of them.
ListDue ==
    /\ tick.pc = "list"
    /\ LET due == {DueRow(k) : k \in {k \in Keys : sched[k].enabled /\ sched[k].next <= tick.at}}
       IN  IF due = {} THEN tick' = NoTick
           ELSE \E q \in SetToSeqs(due) :
                  /\ \A i \in 1..(Len(q) - 1) : q[i].next <= q[i + 1].next
                  /\ tick' = [tick EXCEPT !.pc = "run",
                                 !.due = IF Len(q) > DueLimit THEN SubSeq(q, 1, DueLimit) ELSE q]
    /\ UNCHANGED <<sched, occ, checks, job>> /\ Resting

\* The row being run and its occurrence, from the tick's own clock reading.
Row == Head(tick.due)
Slot == SlotAt(tick.at, Row.at)
DueAt == IF Slot > Row.next THEN Slot ELSE Row.next
Date == CivilDate(Slot)
Following == NextAt(tick.at, Row.at)

\* RunScheduledUpdate up to the submission.  Any assessment may refuse.
AssessScheduled ==
    /\ tick.pc = "run"
    /\ \/ TickTo("skip")
       \/ /\ Row.target = current[Row.key]
          /\ Row.key \in SelfKeys \/ ~Reserved(Row.key)
          /\ \E j \in Jobs : Free(j) /\ tick' = [tick EXCEPT !.pc = "submit", !.job = j]
    /\ UNCHANGED <<sched, occ, checks, job>> /\ Resting

\* Mutant: the occurrence table is not consulted.
ClaimableTwice ==
    LET s == sched[Row.key] IN s.enabled /\ s.target = Row.target /\ s.next <= DueAt

\* claimSchedule's compare-and-set and the unique (key, civil date).
Claimable ==
    /\ LET s == sched[Row.key] IN s.enabled /\ s.target = Row.target /\ s.next <= DueAt
    /\ Date \notin occ[Row.key]

\* The occurrence, the schedule and the job change together.
Claim(last, outcome) ==
    /\ sched' = [sched EXCEPT ![Row.key] = [@ EXCEPT !.next = Following, !.outcome = outcome,
                                                     !.last = last]]
    /\ occ' = [occ EXCEPT ![Row.key] = @ \cup {Date}]
    /\ checks' = [checks EXCEPT ![Row.key][Date] = @ + 1]

\* The caller of a refused admission: ErrScheduleChanged comes back to the tick
\* from the managed and recreate paths only; anything else is skipped.
AfterChange == IF Row.key \in FileBacked \cup SelfKeys THEN "skip" ELSE "coalesce"

\* CreateJob with the occurrence in its context.
SubmitScheduled(j) ==
    /\ tick.pc = "submit" /\ tick.job = j
    /\ IF ~Uncleaned /\ Claimable /\ ~Reserved(Row.key) /\ ~AutomaticBusy
       THEN LET self == Row.key \in SelfKeys
            IN  /\ Claim(j, "running")
                /\ job' = [job EXCEPT ![j] = NewJob(Row.key, TRUE, "update", Row.target,
                                                    IF self THEN "self" ELSE "launch")]
                /\ \/ self /\ TickTo("busy")
                   \/ self /\ TickTo("skip")
                   \/ ~self /\ TickTo("launch")
       ELSE /\ TickTo(IF ~Uncleaned /\ ~Claimable THEN AfterChange ELSE "skip")
            /\ UNCHANGED <<sched, occ, checks, job>>
    /\ Resting

\* Launch inside Submit or enqueue, which keep its errors to themselves.  An
\* uncertain launch of the managed path is the first case, or SettleLaunch.
LaunchScheduled ==
    /\ tick.pc = "launch"
    /\ LET j == tick.job
           x == [job[j] EXCEPT !.pc = "over", !.status = "failed"]
       IN  \/ /\ job' = [job EXCEPT ![j] = [@ EXCEPT !.pc = "start", !.worker = TRUE]]
              /\ UNCHANGED sched
           \/ Write(j, [x EXCEPT !.outcome = "failed"])
           \/ Write(j, [x EXCEPT !.outcome = "recovery_required", !.worker = TRUE])
    /\ TickTo("busy")
    /\ UNCHANGED <<occ, checks>> /\ Resting

\* SkipSchedule: a terminal job without worker or reservation, its id in the
\* row (NoJob here: nothing refers to it again).
SkipScheduled ==
    /\ tick.pc = "skip"
    /\ IF Claimable
       THEN Claim(NoJob, "skipped") /\ TickTo("busy")
       ELSE TickTo("coalesce") /\ UNCHANGED <<sched, occ, checks>>
    /\ UNCHANGED job /\ Resting

\* Mutant: a check whose date is consumed stays due.
CoalesceNothing ==
    /\ tick.pc = "coalesce"
    /\ TickTo("busy")
    /\ UNCHANGED <<sched, occ, checks, job>> /\ Resting

\* The date is consumed already: the schedule moves on without a job.
CoalesceOccurrence ==
    /\ tick.pc = "coalesce"
    /\ LET s == sched[Row.key]
       IN  IF s.enabled /\ s.next < Following /\ Date \in occ[Row.key]
           THEN sched' = [sched EXCEPT ![Row.key].next = Following] ELSE UNCHANGED sched
    /\ TickTo("busy")
    /\ UNCHANGED <<occ, checks, job>> /\ Resting

\* Mutant: the loop does not notice the end of the due rows.
RecheckPastEnd ==
    /\ tick.pc = "busy"
    /\ tick' = [tick EXCEPT !.pc = "run", !.due = Tail(@)]
    /\ UNCHANGED <<sched, occ, checks, job>> /\ Resting

RecheckBusy ==
    /\ tick.pc = "busy"
    /\ tick' = IF AutomaticBusy THEN [tick EXCEPT !.pc = "defer", !.due = <<>>]
               ELSE IF Tail(tick.due) = <<>> THEN NoTick
               ELSE [tick EXCEPT !.pc = "run", !.due = Tail(@)]
    /\ UNCHANGED <<sched, occ, checks, job>> /\ Resting

DeferDueSchedules ==
    /\ tick.pc = "defer"
    /\ sched' = [k \in Keys |->
                    IF sched[k].enabled /\ sched[k].next <= tick.at /\ sched[k].outcome # "deferred"
                    THEN [sched[k] EXCEPT !.outcome = "deferred", !.last = NoJob] ELSE sched[k]]
    /\ tick' = NoTick
    /\ UNCHANGED <<occ, checks, job>> /\ Resting

----------------------------------------------------------------------------
(* setProjectSchedule: the row is read, the project assessed, the row      *)
(* written.                                                                *)

BeginEdit(k, enabled, at) ==
    /\ ~edit.on
    /\ events < MaxEvents /\ events' = events + 1
    /\ edit' = [on |-> TRUE, key |-> k, enabled |-> enabled, at |-> at,
                target |-> IF enabled THEN current[k] ELSE sched[k].target]
    /\ UNCHANGED <<sched, occ, checks, job, current, tick, now, zone>>

\* SetProjectScheduleAt: an unchanged setting keeps the next check.
CommitEdit ==
    /\ edit.on
    /\ LET s == sched[edit.key]
           kept == s.enabled = edit.enabled /\ s.at = edit.at
           next == IF edit.enabled THEN NextAt(now, edit.at) ELSE 0
       IN  sched' = [sched EXCEPT ![edit.key] =
                        [@ EXCEPT !.enabled = edit.enabled, !.at = edit.at,
                                  !.target = edit.target, !.next = IF kept THEN s.next ELSE next]]
    /\ edit' = NoEdit
    /\ UNCHANGED <<occ, checks, job, current, tick, now, zone, events>>

----------------------------------------------------------------------------
(* Time and the web process.                                               *)

Advance ==
    /\ now < MaxTime
    /\ now' = now + 1
    /\ UNCHANGED <<sched, occ, checks, job, current, tick, edit, zone, events>>

ClockStepsBack ==
    /\ events < MaxEvents /\ now > DayLength
    /\ now' = now - 1
    /\ events' = events + 1
    /\ UNCHANGED <<sched, occ, checks, job, current, tick, edit, zone>>

\* A restart ends the tick and the request; a timezone change takes effect.
Restart(z) ==
    /\ events < MaxEvents
    /\ events' = events + 1
    /\ zone' = z
    /\ tick' = NoTick
    /\ edit' = NoEdit
    /\ UNCHANGED <<sched, occ, checks, job, current, now>>

\* Startup and observer settle a job whose launch was cut off.
SettleLaunch(j) ==
    /\ Running(j) /\ job[j].pc = "launch"
    /\ tick.pc # "launch" \/ tick.job # j
    /\ FinishJob(j, "failed", "recovery_required")
    /\ UNCHANGED current /\ NoTime

----------------------------------------------------------------------------
Work(j) ==
    \/ CheckEnabled(j) \/ PullImages(j) \/ BeginReplacement(j) \/ RetargetJob(j)
    \/ RecordSuccess(j) \/ RecordFailure(j) \/ RemoveTarget(j) \/ FinishSelfUpdate(j)
    \/ SettleLaunch(j)

Tick ==
    \/ TickStart \/ ListDue \/ AssessScheduled \/ \E j \in Jobs : SubmitScheduled(j)
    \/ LaunchScheduled \/ SkipScheduled \/ CoalesceOccurrence \/ RecheckBusy
    \/ DeferDueSchedules

Next ==
    \/ \E j \in Jobs :
        \/ Work(j) \/ CleanWorker(j) \/ AcknowledgeRecovery(j)
        \/ \E k \in Keys, op \in ManualOps : ManualJob(k, j, op)
    \/ Tick
    \/ \E k \in Keys, enabled \in BOOLEAN, at \in Offsets : BeginEdit(k, enabled, at)
    \/ CommitEdit
    \/ Advance \/ ClockStepsBack \/ \E z \in Zones : Restart(z)

Spec == Init /\ [][Next]_svars

(***************************************************************************)
(* Fairness: the scheduler's loop ticks every minute, worker deadlines and *)
(* the observer end every job, and the observer's cleanup pass comes round *)
(* again.  Nothing is assumed of host review, of users or of the clock.    *)
(***************************************************************************)
FairSpec ==
    /\ Spec /\ WF_svars(Tick)
    /\ \A j \in Jobs : WF_svars(Work(j)) /\ WF_svars(CleanWorker(j))

----------------------------------------------------------------------------
(* Properties.                                                             *)

(* A civil date yields at most one check of a schedule, update or skip,    *)
(* through restarts, timezone and time changes, and clock steps            *)
(* (claimSchedule, SkipSchedule; Project-Schedules.md, "Restart and clock  *)
(* movement cannot repeat a recorded civil date").                         *)
OccurrenceOnce == \A k \in Keys : \A d \in Dates : checks[k][d] <= 1

(* Only one automatic worker exists: no other is admitted before its job   *)
(* is settled, reviewed and its container removed.                         *)
OneAutomatic ==
    \A i, j \in Jobs :
        /\ i # j /\ job[i].auto /\ job[j].auto
        /\ Active(i) \/ (job[i].worker /\ ~job[i].cleaned)
        => ~Active(j)

(* An automatic worker never replaces anything by the image set recorded   *)
(* as failed, although the fence is read well before the replacement and   *)
(* other jobs write it (UpdateCandidate, finishSchedule).                  *)
FenceRespected ==
    \A j \in Jobs :
        job[j].auto /\ job[j].pc \in {"replace", "retargeted"} =>
            job[j].cand # sched[job[j].key].failed

(* While a schedule names its last job, it shows that job's result.        *)
ScheduleMirrorsJob ==
    \A k \in Keys :
        LET j == sched[k].last
        IN  j # NoJob =>
              /\ job[j].key = k
              /\ sched[k].outcome = IF Running(j) THEN "running" ELSE job[j].outcome

(* What holds between any two steps: a job is somewhere in its worker      *)
(* exactly while it runs, two active jobs never share a key, a schedule    *)
(* names a job that was admitted for it, every consumed date was checked   *)
(* once, and the tick holds the job it is about to admit or launch.        *)
Placed ==
    \A j \in Jobs :
        /\ job[j].pc \in {"none", "over"} <=> ~Running(j)
        /\ Uncertain(j) => job[j].status = "failed"
OneActive ==
    \A i, j \in Jobs : i # j /\ Active(i) /\ Active(j) => job[i].key # job[j].key
Named ==
    \A k \in Keys :
        sched[k].last # NoJob =>
            job[sched[k].last].auto /\ job[sched[k].last].status # "none"
Counted ==
    \A k \in Keys : \A d \in Dates : checks[k][d] = IF d \in occ[k] THEN 1 ELSE 0
Ticking ==
    /\ tick.pc = "submit" => tick.job \in Jobs /\ job[tick.job].status = "none"
    /\ tick.pc = "launch" => tick.job \in Jobs /\ job[tick.job].pc = "launch"

SchedInv ==
    /\ TypeOK /\ Placed /\ OneActive /\ OneAutomatic /\ FenceRespected
    /\ Named /\ ScheduleMirrorsJob /\ Counted /\ Ticking

(* A due schedule is attempted, or disabled, unless an automatic job waits *)
(* for host review: "other due schedules remain deferred until             *)
(* execution/cleanup/recovery permits progress" (Operation-Jobs.md:17).    *)
DueIsAttempted ==
    \A k \in Keys : Due(k) ~> ~Due(k) \/ \E j \in Jobs : job[j].auto /\ Uncertain(j)
=============================================================================
