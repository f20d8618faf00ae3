---------------------- MODULE EngineReplacementProofs ----------------------
(***************************************************************************)
(* Proofs about EngineReplacement.  ReplacementInv is inductive.  Its part *)
(* about the row and the Engine (Core) is kept by every call whatever the  *)
(* worker does next, so an action is reduced to the call it makes and to   *)
(* the phase its program counter enters.                                   *)
(***************************************************************************)
EXTENDS EngineReplacement, ComposeOrderProofs

----------------------------------------------------------------------------
(* The parts of the invariant.                                             *)

RowType == [status : {"none", "running", "succeeded", "failed"}, stage : Stages,
            outcome : Outcomes, mutated : BOOLEAN, touched : SUBSET E, made : SUBSET E]
WorkerType == [at : Steps, i : 0..Len(order), operation : Operations,
               scheduled : BOOLEAN, image : {"same", "new", "volumes"},
               verdict : Outcomes, mutated : BOOLEAN,
               touched : SUBSET E, made : SUBSET E]
OriginalType == [name : {"own", "backup"}, attached : BOOLEAN, up : BOOLEAN, there : BOOLEAN]
ReplacementType == [there : BOOLEAN, up : BOOLEAN, same : BOOLEAN]

EngineTyped ==
    /\ original \in [E -> OriginalType]
    /\ replacement \in [E -> ReplacementType]
    /\ disturbed \subseteq E

\* What holds of the row and the Engine wherever the worker is.
Core ==
    /\ ~row.mutated => row.touched = {}
    /\ \A e \in E \ row.touched : IsOriginal(e)
    /\ \A a, b \in {e \in E : replacement[e].there} \ row.made : a = b
    /\ Exclusive
    /\ row.status \in {"none", "running"} <=> row.outcome = ""
    /\ Holds(row.outcome)

\* The worker's journal is the row's.
Synced == /\ row.mutated = worker.mutated /\ row.touched = worker.touched
          /\ row.made = worker.made

\* What is left to say, by where the worker is.
Place ==
    /\ worker.at # "gone" => Synced
    /\ worker.at \in Early => ~row.mutated
    /\ worker.at \in Mutating => row.mutated
    /\ row.status \in {"succeeded", "failed"} => worker.at = "gone"
    /\ StopPhase /\ CreatePhase /\ RestorePhase
    /\ worker.at = "own" => \A e \in E : IsReplaced(e)
    /\ worker.at \in {"recording", "close"} =>
           /\ worker.verdict \notin {"", "reconciled", "recovery_acknowledged"}
           /\ Holds(worker.verdict)

(* TypeOK, group by group.                                                 *)
LEMMA Typed ==
    /\ TypeOK <=> order \in Seq(E) /\ row \in RowType /\ worker \in WorkerType /\ EngineTyped
    /\ TypeOK' <=> /\ order' \in Seq(E') /\ row' \in RowType' /\ worker' \in WorkerType'
                   /\ EngineTyped'
  BY DEF TypeOK, RowType, WorkerType, EngineTyped, OriginalType, ReplacementType

(* ReplacementInv, regrouped.                                              *)
LEMMA Parts ==
    /\ ReplacementInv <=> /\ row \in RowType /\ worker \in WorkerType /\ EngineTyped
                          /\ Admitted /\ Core /\ Place
    /\ ReplacementInv' <=> /\ row' \in RowType' /\ worker' \in WorkerType' /\ EngineTyped'
                           /\ Admitted' /\ Core' /\ Place'
<1>1. ReplacementInv <=> /\ row \in RowType /\ worker \in WorkerType /\ EngineTyped
                         /\ Admitted /\ Core /\ Place
  BY Typed DEF ReplacementInv, Admitted, Journalled, ResultPhase, Core, Place, Synced
<1>2. ReplacementInv' <=> /\ row' \in RowType' /\ worker' \in WorkerType' /\ EngineTyped'
                          /\ Admitted' /\ Core' /\ Place'
  BY Typed DEF ReplacementInv, Admitted, Journalled, ResultPhase, Core, Place, Synced
<1>. QED
  BY <1>1, <1>2

----------------------------------------------------------------------------
(* The order.                                                              *)

(* The containers before, at and after a position are all of them, once.   *)
LEMMA Positions ==
    ASSUME order \in Seq(E), IsInjective(order), Range(order) = E,
           NEW i \in 1..Len(order)
    PROVE  /\ order[i] \in E
           /\ Before(i) \subseteq E /\ After(i) \subseteq E
           /\ E = Before(i) \cup {order[i]} \cup After(i)
           /\ order[i] \notin Before(i) /\ order[i] \notin After(i)
           /\ Before(i) \cap After(i) = {}
<1>1. DOMAIN order = 1..Len(order) /\ Len(order) \in Nat /\ \A k \in 1..Len(order) : order[k] \in E
  OBVIOUS
<1>2. \A a, b \in 1..Len(order) : order[a] = order[b] => a = b
  BY <1>1 DEF IsInjective
<1>3. \A e \in E : \E k \in 1..Len(order) : e = order[k]
  BY <1>1 DEF Range
<1>4. Before(i) \subseteq E /\ After(i) \subseteq E
  BY <1>1 DEF Before, After
<1>5. E \subseteq Before(i) \cup {order[i]} \cup After(i)
  <2>. SUFFICES ASSUME NEW k \in 1..Len(order)
                PROVE  order[k] \in Before(i) \cup {order[i]} \cup After(i)
    BY <1>3
  <2>1. k \in 1..(i - 1) \/ k = i \/ k \in (i + 1)..Len(order)
    BY <1>1
  <2>. QED
    BY <2>1 DEF Before, After
<1>6. order[i] \notin Before(i) /\ order[i] \notin After(i)
  BY <1>1, <1>2 DEF Before, After
<1>7. Before(i) \cap After(i) = {}
  BY <1>1, <1>2 DEF Before, After
<1>. QED
  BY <1>1, <1>4, <1>5, <1>6, <1>7

(* The first, the last and the next position.                              *)
LEMMA Ends ==
    ASSUME order \in Seq(E)
    PROVE  Before(1) = {} /\ After(Len(order)) = {}
  BY DEF Before, After

(* From one position to the next.                                          *)
LEMMA NextPosition ==
    ASSUME order \in Seq(E), NEW i \in 1..Len(order), i + 1 \in 1..Len(order)
    PROVE  /\ Before(i + 1) = Before(i) \cup {order[i]}
           /\ After(i) = After(i + 1) \cup {order[i + 1]}
<1>1. 1..((i + 1) - 1) = 1..(i - 1) \cup {i}
  OBVIOUS
<1>2. (i + 1)..Len(order) = ((i + 1) + 1)..Len(order) \cup {i + 1}
  OBVIOUS
<1>. QED
  BY <1>1, <1>2 DEF Before, After

----------------------------------------------------------------------------
(* One call of a worker that runs.                                         *)

\* The worker runs; the preview it works from does not change.
Runs == ReplacementInv /\ UNCHANGED <<project, order>> /\ worker.at \notin {"none", "gone"}

\* What a call keeps whatever the worker does next.
Keeps == /\ row' \in RowType /\ EngineTyped' /\ Core'
         /\ row'.status = "running"

\* The row's journal and state are not written.
SameJournal == /\ row' \in RowType /\ row'.status = row.status /\ row'.outcome = row.outcome
               /\ row'.mutated = row.mutated /\ row'.touched = row.touched /\ row'.made = row.made

Moves(step, i, verdict) ==
    /\ worker' \in WorkerType /\ worker'.at = step /\ worker'.i = i
    /\ worker'.verdict = verdict /\ worker'.mutated = worker.mutated
    /\ worker'.touched = worker.touched /\ worker'.made = worker.made

(* Types over the same preview are the same types.                         *)
LEMMA SameTypes ==
    ASSUME UNCHANGED <<project, order>>
    PROVE  E' = E /\ RowType' = RowType /\ WorkerType' = WorkerType
           /\ OriginalType' = OriginalType /\ ReplacementType' = ReplacementType
  BY DEF E, RowType, WorkerType, OriginalType, ReplacementType, Outcomes, Stages, Steps, Operations

(* A worker that runs has a running row without outcome, and a position.   *)
LEMMA Running ==
    ASSUME Runs
    PROVE  /\ row \in RowType /\ worker \in WorkerType /\ EngineTyped /\ Core /\ Place
           /\ row.status = "running" /\ row.outcome = "" /\ Synced
           /\ order \in Seq(E) /\ IsInjective(order) /\ Range(order) = E /\ E # {}
           /\ OneShot(project) \cap project.running = {}
           /\ Len(order) \in Nat /\ Len(order) \in 1..Len(order) /\ Len(order) # 0
           /\ worker.at \in Mutating \ {"verifying", "verify", "rolling"} =>
                  worker.i \in 1..Len(order) /\ Current \in E
<1>1. /\ row \in RowType /\ worker \in WorkerType /\ EngineTyped /\ Core /\ Place /\ Admitted
      /\ worker.at \notin {"none", "gone"}
  BY Parts DEF Runs
<1>2. order \in Seq(E) /\ IsInjective(order) /\ Range(order) = E /\ E # {}
      /\ OneShot(project) \cap project.running = {} /\ row.status # "none"
  BY <1>1 DEF Admitted
<1>3. Len(order) \in Nat /\ Len(order) \in 1..Len(order) /\ Len(order) # 0
  <2>1. order # <<>>
    BY <1>2 DEF Range
  <2>. QED
    BY <2>1, <1>2
<1>4. row.status = "running" /\ row.outcome = "" /\ Synced
  BY <1>1, <1>2 DEF Place, Core, RowType
<1>5. ASSUME worker.at \in Mutating \ {"verifying", "verify", "rolling"}
      PROVE  worker.i \in 1..Len(order) /\ Current \in E
  <2>1. worker.i \in 1..Len(order)
    BY <1>1, <1>2, <1>5 DEF Admitted, WorkerType
  <2>. QED
    BY <2>1, <1>2 DEF Current
<1>. QED
  BY <1>1, <1>2, <1>3, <1>4, <1>5

(* The ways the worker moves.                                              *)
LEMMA GotoMoves ==
    ASSUME worker \in WorkerType, NEW step \in Steps, Goto(step)
    PROVE  Moves(step, worker.i, worker.verdict)
  BY DEF Goto, Moves, WorkerType

(* Goto, with another position.                                            *)
LEMMA GotoAtMoves ==
    ASSUME worker \in WorkerType, NEW step \in Steps, NEW i \in 0..Len(order), GotoAt(step, i)
    PROVE  Moves(step, i, worker.verdict)
  BY DEF GotoAt, Moves, WorkerType

(* A verdict.                                                              *)
LEMMA SettleMoves ==
    ASSUME worker \in WorkerType, NEW step \in Steps, NEW verdict \in Outcomes,
           Settle(verdict, step)
    PROVE  Moves(step, worker.i, verdict)
  BY DEF Settle, Moves, WorkerType

(* A save writes what the worker has, or the worker is gone.               *)
LEMMA SaveMoves ==
    ASSUME row \in RowType, NEW w \in WorkerType, NEW stage \in Stages, NEW next \in Steps,
           Save(stage, w, next)
    PROVE  /\ row' \in RowType /\ row'.status = row.status /\ row'.outcome = row.outcome
           /\ worker' \in WorkerType /\ worker'.i = w.i /\ worker'.verdict = w.verdict
           /\ worker'.mutated = w.mutated /\ worker'.touched = w.touched /\ worker'.made = w.made
           /\ \/ worker'.at = next /\ row'.mutated = w.mutated
                   /\ row'.touched = w.touched /\ row'.made = w.made
              \/ worker'.at = "gone" /\ \/ row' = row
                                        \/ row'.mutated = w.mutated
                                             /\ row'.touched = w.touched /\ row'.made = w.made
<1>. DEFINE J == [row EXCEPT !.mutated = w.mutated, !.touched = w.touched, !.made = w.made]
<1>1. J \in RowType /\ J.status = row.status /\ J.outcome = row.outcome
      /\ J.mutated = w.mutated /\ J.touched = w.touched /\ J.made = w.made
  BY DEF RowType, WorkerType
<1>2. Journal(w) = J
  BY DEF Journal
<1>. HIDE DEF J
<1>3. CASE row' = [J EXCEPT !.stage = stage] /\ worker' = [w EXCEPT !.at = next]
  BY <1>1, <1>3 DEF RowType, WorkerType
<1>4. CASE row' \in {row, J} /\ worker' = [w EXCEPT !.at = "gone"]
  <2>1. "gone" \in Steps
    BY DEF Steps
  <2>. QED
    BY <1>1, <1>4, <2>1 DEF RowType, WorkerType
<1>. QED
  BY <1>2, <1>3, <1>4 DEF Save

----------------------------------------------------------------------------
(* What calls keep.                                                        *)

(* A journal that grows.                                                   *)
LEMMA RowKeeps ==
    ASSUME Runs, UNCHANGED <<original, replacement, disturbed>>,
           row' \in RowType, row'.status = row.status, row'.outcome = row.outcome,
           row.touched \subseteq row'.touched, row.made \subseteq row'.made,
           row'.mutated \/ row'.touched = {}
    PROVE  Keeps
<1>1. E' = E
  BY SameTypes DEF Runs
<1>2. EngineTyped' /\ row'.status = "running"
  BY Running, <1>1, SameTypes DEF EngineTyped, Runs
<1>3. \A e : IsOriginal(e)' = IsOriginal(e)
  BY DEF IsOriginal, Runs
<1>4. Holds(row.outcome)'
  BY Running, <1>1 DEF Holds, Core
<1>5. Exclusive'
  BY Running, <1>1 DEF Exclusive, Core
<1>6. \A e \in E' \ row'.touched : IsOriginal(e)'
  BY Running, <1>1, <1>3 DEF Core
<1>7. \A a, b \in {e \in E' : replacement'[e].there} \ row'.made : a = b
  BY Running, <1>1 DEF Core
<1>. QED
  BY Running, <1>2, <1>4, <1>5, <1>6, <1>7 DEF Keeps, Core

(* Nothing but the worker moves.                                           *)
LEMMA QuietKeeps ==
    ASSUME Runs, UNCHANGED <<original, replacement, disturbed>>, SameJournal
    PROVE  Keeps
  BY RowKeeps, Running DEF SameJournal, Core

(* A call on a touched original that leaves it there.                      *)
LEMMA OriginalKeeps ==
    ASSUME Runs, UNCHANGED <<replacement, disturbed>>, SameJournal,
           NEW c \in row.touched, NEW x \in OriginalType,
           original' = [original EXCEPT ![c] = x], x.there = original[c].there,
           replacement[c].there => x.name = "backup" /\ (c \notin disturbed => ~x.up)
    PROVE  /\ Keeps
           /\ \A e \in E : original'[e] = IF e = c THEN x ELSE original[e]
<1>1. E' = E /\ OriginalType' = OriginalType /\ ReplacementType' = ReplacementType
  BY SameTypes DEF Runs
<1>2. c \in E
  BY Running DEF RowType
<1>3. \A e \in E : original'[e] = IF e = c THEN x ELSE original[e]
  BY Running DEF EngineTyped
<1>4. EngineTyped'
  BY Running, <1>1, <1>2 DEF EngineTyped
<1>5. row' \in RowType /\ row'.status = "running" /\ row'.outcome = ""
  BY Running DEF SameJournal
<1>6. ASSUME NEW e \in E \ row.touched
      PROVE  IsOriginal(e)'
  <2>1. IsOriginal(e)
    BY Running DEF Core
  <2>2. original'[e] = original[e] /\ replacement'[e] = replacement[e]
    BY <1>3
  <2>. QED
    BY <2>1, <2>2 DEF IsOriginal, Runs
<1>7. Exclusive'
  <2>1. Exclusive
    BY Running DEF Core
  <2>. QED
    BY <2>1, <1>1, <1>3 DEF Exclusive
<1>8. Holds(row.outcome)'
  BY Running, <1>1, <1>3, <1>5 DEF Core, Holds
<1>9. \A a, b \in {e \in E' : replacement'[e].there} \ row'.made : a = b
  BY Running, <1>1 DEF Core, SameJournal
<1>. QED
  BY Running, <1>1, <1>3, <1>4, <1>5, <1>6, <1>7, <1>8, <1>9 DEF Keeps, Core, SameJournal

(* A call on a replacement, of an original that is touched and out of its  *)
(* way if there is one afterwards.                                         *)
LEMMA ReplacementKeeps ==
    ASSUME Runs, UNCHANGED <<original, disturbed>>, SameJournal,
           NEW c \in E, NEW x \in ReplacementType,
           replacement' = [replacement EXCEPT ![c] = x], x.up => x.there,
           x.there => /\ c \in row.touched
                      /\ original[c].name = "backup" /\ (c \notin disturbed => ~original[c].up)
                      /\ \/ replacement[c].there \/ c \in row.made
                         \/ \A e \in E : replacement[e].there => e \in row.made
    PROVE  /\ Keeps
           /\ \A e \in E : replacement'[e] = IF e = c THEN x ELSE replacement[e]
<1>1. E' = E /\ OriginalType' = OriginalType /\ ReplacementType' = ReplacementType
  BY SameTypes DEF Runs
<1>2. c \in E
  OBVIOUS
<1>3. \A e \in E : replacement'[e] = IF e = c THEN x ELSE replacement[e]
  BY Running DEF EngineTyped
<1>4. EngineTyped'
  BY Running, <1>1, <1>2 DEF EngineTyped
<1>5. row' \in RowType /\ row'.status = "running" /\ row'.outcome = ""
  BY Running DEF SameJournal
<1>6. ASSUME NEW e \in E \ row.touched
      PROVE  IsOriginal(e)'
  <2>1. IsOriginal(e)
    BY Running DEF Core
  <2>2. original'[e] = original[e]
        /\ (replacement'[e] = replacement[e] \/ ~replacement'[e].there)
    BY <1>3
  <2>. QED
    BY <2>1, <2>2 DEF IsOriginal, Runs
<1>7. Exclusive'
  <2>1. Exclusive
    BY Running DEF Core
  <2>. QED
    BY <2>1, <1>1, <1>3 DEF Exclusive
<1>8. Holds(row.outcome)'
  BY Running, <1>1, <1>3, <1>5 DEF Core, Holds
<1>9. \A a, b \in {e \in E' : replacement'[e].there} \ row'.made : a = b
  <2>1. \A a, b \in {e \in E : replacement[e].there} \ row.made : a = b
    BY Running DEF Core
  <2>. QED
    BY <2>1, <1>1, <1>3 DEF SameJournal
<1>. QED
  BY Running, <1>1, <1>3, <1>4, <1>5, <1>6, <1>7, <1>8, <1>9 DEF Keeps, Core, SameJournal

----------------------------------------------------------------------------
(* Where a call leaves the worker.                                         *)

(* Where the worker arrives: what is left to show of the invariant.        *)
LEMMA Arrives ==
    ASSUME Runs, Keeps, worker' \in WorkerType, worker'.at # "none",
           worker'.at \in Mutating \ {"verifying", "verify", "rolling"} => worker'.i # 0,
           Place'
    PROVE  ReplacementInv'
<1>1. E' = E /\ RowType' = RowType /\ WorkerType' = WorkerType
  BY SameTypes DEF Runs
<1>2. Admitted'
  BY Running, <1>1 DEF Admitted, Runs, Keeps
<1>. QED
  BY <1>1, <1>2, Parts DEF Keeps

(* A worker that is gone leaves nothing to show.                           *)
LEMMA GoneKeeps ==
    ASSUME Runs, Keeps, worker' \in WorkerType, worker'.at = "gone"
    PROVE  ReplacementInv'
<1>1. Place'
  BY DEF Place, Early, Mutating, Stopping, Creating, Restoring, StopPhase, CreatePhase,
         RestorePhase, Keeps
<1>. QED
  BY <1>1, Arrives DEF Mutating, Stopping, Creating, Restoring

(* Places without a phase of their own.                                    *)
LEMMA PlainPlaces ==
    ASSUME Runs, Keeps, worker' \in WorkerType, Synced',
           \/ worker'.at \in {"preparing", "pulling", "candidate", "replacing"} /\ ~row'.mutated
           \/ worker'.at \in {"verifying", "verify", "rolling"} /\ row'.mutated
           \/ worker'.at = "remove" /\ row'.mutated /\ worker'.i # 0
           \/ worker'.at = "own" /\ \A e \in E : IsReplaced(e)'
           \/ worker'.at = "disown" /\ \A e \in E : IsOriginal(e)'
           \/ /\ worker'.at \in {"recording", "close"}
              /\ worker'.verdict \notin {"", "reconciled", "recovery_acknowledged"}
              /\ Holds(worker.verdict)'
    PROVE  ReplacementInv'
<1>1. E' = E
  BY SameTypes DEF Runs
<1>2. /\ worker'.at \notin {"none", "gone"} \cup Stopping \cup Creating \cup Restoring
      /\ row'.status = "running"
  BY DEF Stopping, Creating, Restoring, Keeps
<1>3. StopPhase' /\ CreatePhase' /\ RestorePhase'
  BY <1>1, <1>2 DEF StopPhase, CreatePhase, RestorePhase
<1>4. Place'
  BY <1>1, <1>2, <1>3 DEF Place, Early, Mutating
<1>. QED
  BY <1>2, <1>4, Arrives DEF Mutating

(* With nothing touched, everything is as inspected.                       *)
LEMMA NothingTouched ==
    ASSUME Runs, Keeps, ~row'.mutated
    PROVE  \A e \in E : IsOriginal(e)'
<1>1. E' = E
  BY SameTypes DEF Runs
<1>. QED
  BY <1>1 DEF Keeps, Core

(* Verdicts that a running worker may always pass.                         *)
LEMMA Verdicts ==
    ASSUME Runs, Keeps
    PROVE  /\ Holds("recovery_required")'
           /\ (\A e \in E : IsOriginal(e)') =>
                  \A v \in {"unchanged", "skipped", "failed", "rolled_back"} : Holds(v)'
           /\ (\A e \in E : IsReplaced(e)') => Holds("verified")'
<1>1. E' = E /\ row'.status = "running" /\ Holds(row.outcome)'
      /\ (row'.status \in {"none", "running"} <=> row'.outcome = "")
  BY SameTypes DEF Runs, Keeps, Core
<1>2. \A e \in E : original'[e].there
  BY <1>1 DEF Holds
<1>. QED
  BY <1>1, <1>2 DEF Holds

(* An error after which the host has to look.                              *)
LEMMA NotRestoredKeeps ==
    ASSUME Runs, Keeps, SameJournal, NotRestored
    PROVE  ReplacementInv'
<1>1. Moves("recording", worker.i, "recovery_required")
  BY Running, SettleMoves DEF NotRestored, Steps, Outcomes
<1>2. worker' \in WorkerType /\ Synced' /\ worker'.at = "recording"
      /\ worker'.verdict = "recovery_required"
  BY <1>1, Running DEF Moves, SameJournal, Synced
<1>. QED
  BY <1>2, Verdicts, PlainPlaces

(* An error going forward.                                                 *)
LEMMA FailKeeps ==
    ASSUME Runs, Keeps, SameJournal, Fail
    PROVE  ReplacementInv'
<1>1. CASE Settle("recovery_required", "recording")
  BY <1>1, NotRestoredKeeps DEF NotRestored
<1>2. CASE worker.mutated /\ Goto("rolling")
  <2>1. Moves("rolling", worker.i, worker.verdict)
    BY <1>2, Running, GotoMoves DEF Steps
  <2>2. worker' \in WorkerType /\ Synced' /\ worker'.at = "rolling" /\ row'.mutated
    BY <1>2, <2>1, Running DEF Moves, SameJournal, Synced
  <2>. QED
    BY <2>2, PlainPlaces
<1>3. CASE ~worker.mutated /\ Settle("failed", "recording")
  <2>1. Moves("recording", worker.i, "failed")
    BY <1>3, Running, SettleMoves DEF Steps, Outcomes
  <2>2. worker' \in WorkerType /\ Synced' /\ worker'.at = "recording"
        /\ worker'.verdict = "failed" /\ ~row'.mutated
    BY <1>3, <2>1, Running DEF Moves, SameJournal, Synced
  <2>3. Holds("failed")'
    BY <2>2, NothingTouched, Verdicts
  <2>. QED
    BY <2>2, <2>3, PlainPlaces
<1>. QED
  BY <1>1, <1>2, <1>3 DEF Fail

----------------------------------------------------------------------------
(* Actions that leave the Engine alone.                                    *)

(* A save of what the row already has.                                     *)
LEMMA SaveSame ==
    ASSUME Runs, NEW stage \in Stages, NEW next \in Steps, Save(stage, worker, next)
    PROVE  /\ SameJournal /\ Synced'
           /\ worker' \in WorkerType /\ worker'.i = worker.i
           /\ worker'.verdict = worker.verdict /\ worker'.at \in {next, "gone"}
  BY Running, SaveMoves DEF SameJournal, Synced

(* A new stage of the job.                                                 *)
LEMMA StageOnly ==
    ASSUME Runs, NEW stage \in Stages, row' = [row EXCEPT !.stage = stage]
    PROVE  SameJournal
  BY Running DEF SameJournal, RowType

(* Before the first change.                                                *)
LEMMA EarlyPlaces ==
    ASSUME Runs, worker.at \in Early
    PROVE  ~row.mutated /\ \A e \in E : IsOriginal(e)
  BY Running DEF Core, Place

(* Before the first change a verdict that claims the originals is true.    *)
LEMMA SkipKeeps ==
    ASSUME Runs, Keeps, SameJournal, ~row.mutated,
           NEW verdict \in {"skipped", "unchanged"}, NEW step \in {"recording", "close"},
           Settle(verdict, step)
    PROVE  ReplacementInv'
<1>1. Moves(step, worker.i, verdict)
  BY Running, SettleMoves DEF Steps, Outcomes
<1>2. worker' \in WorkerType /\ Synced' /\ worker'.at \in {"recording", "close"}
      /\ worker'.verdict = verdict /\ ~row'.mutated
  BY <1>1, Running DEF Moves, SameJournal, Synced
<1>3. Holds(worker.verdict)'
  BY <1>2, NothingTouched, Verdicts
<1>. QED
  BY <1>2, <1>3, PlainPlaces

(* Prepare: the first fingerprint.                                         *)
LEMMA PrepareKeeps ==
    ASSUME Runs, Prepare
    PROVE  ReplacementInv'
<1>1. ~row.mutated /\ UNCHANGED <<original, replacement, disturbed>>
  BY EarlyPlaces DEF Prepare, Early, engine
<1>2. CASE Save("preparing", worker, "pulling")
  <2>1. SameJournal /\ Synced' /\ worker' \in WorkerType /\ worker'.at \in {"pulling", "gone"}
    BY <1>2, SaveSame DEF Stages, Steps
  <2>2. Keeps /\ ~row'.mutated
    BY <1>1, <2>1, QuietKeeps DEF SameJournal
  <2>. QED
    BY <2>1, <2>2, GoneKeeps, PlainPlaces
<1>3. CASE row' = [row EXCEPT !.stage = "preparing"] /\ (Fail \/ Settle("skipped", "close"))
  <2>1. SameJournal /\ Keeps
    BY <1>1, <1>3, StageOnly, QuietKeeps DEF Stages
  <2>. QED
    BY <1>1, <1>3, <2>1, FailKeeps, SkipKeeps
<1>. QED
  BY <1>2, <1>3 DEF Prepare

(* Pull: images are no part of what is inspected.                          *)
LEMMA PullKeeps ==
    ASSUME Runs, Pull
    PROVE  ReplacementInv'
<1>1. ~row.mutated /\ UNCHANGED <<original, replacement, disturbed>>
  BY EarlyPlaces DEF Pull, Early, engine
<1>2. SameJournal
  <2>1. CASE row' = row
    BY <2>1, Running DEF SameJournal
  <2>. QED
    BY <2>1, StageOnly DEF Pull, Stages
<1>3. Keeps
  BY <1>1, <1>2, QuietKeeps
<1>4. ASSUME NEW image \in {"same", "new", "volumes"},
             worker' = [worker EXCEPT !.at = "candidate", !.image = image]
      PROVE  ReplacementInv'
  <2>1. worker' \in WorkerType /\ worker'.at = "candidate" /\ worker'.mutated = worker.mutated
        /\ worker'.touched = worker.touched /\ worker'.made = worker.made
    BY <1>4, Running DEF WorkerType, Steps
  <2>2. Synced' /\ ~row'.mutated
    BY <1>1, <1>2, <2>1, Running DEF Synced, SameJournal
  <2>. QED
    BY <1>3, <2>1, <2>2, PlainPlaces
<1>. QED
  BY <1>2, <1>3, <1>4, FailKeeps DEF Pull

(* Candidate: the last reasons not to begin.                               *)
LEMMA CandidateKeeps ==
    ASSUME Runs, Candidate
    PROVE  ReplacementInv'
<1>1. ~row.mutated /\ UNCHANGED <<row, original, replacement, disturbed>>
  BY EarlyPlaces DEF Candidate, Early, engine
<1>2. SameJournal /\ Keeps
  BY <1>1, Running, QuietKeeps DEF SameJournal
<1>3. CASE Goto("replacing")
  <2>1. Moves("replacing", worker.i, worker.verdict)
    BY <1>3, Running, GotoMoves DEF Steps
  <2>. QED
    BY <1>1, <1>2, <2>1, Running, PlainPlaces DEF Moves, Synced
<1>. QED
  BY <1>1, <1>2, <1>3, FailKeeps, SkipKeeps DEF Candidate

(* Worker and row learn something new together.                            *)
LEMMA SaveKeeps ==
    ASSUME Runs, UNCHANGED <<original, replacement, disturbed>>,
           NEW w \in WorkerType, NEW stage \in Stages, NEW next \in Steps, Save(stage, w, next),
           row.touched \subseteq w.touched, row.made \subseteq w.made, w.mutated
    PROVE  /\ Keeps /\ worker' \in WorkerType /\ worker'.i = w.i
           /\ \/ worker'.at = "gone" /\ ReplacementInv'
              \/ /\ worker'.at = next /\ Synced' /\ row'.mutated
                 /\ row'.touched = w.touched /\ row'.made = w.made
<1>1. /\ row' \in RowType /\ row'.status = row.status /\ row'.outcome = row.outcome
      /\ worker' \in WorkerType /\ worker'.i = w.i
      /\ worker'.mutated = w.mutated /\ worker'.touched = w.touched /\ worker'.made = w.made
      /\ \/ worker'.at = next /\ row'.mutated = w.mutated
              /\ row'.touched = w.touched /\ row'.made = w.made
         \/ worker'.at = "gone" /\ \/ row' = row
                                   \/ row'.mutated = w.mutated
                                        /\ row'.touched = w.touched /\ row'.made = w.made
  BY Running, SaveMoves
<1>2. row'.mutated \/ row'.touched = {}
  BY <1>1, Running DEF Core
<1>3. row.touched \subseteq row'.touched /\ row.made \subseteq row'.made
  BY <1>1
<1>4. Keeps
  BY <1>1, <1>2, <1>3, RowKeeps
<1>. QED
  BY <1>1, <1>4, GoneKeeps DEF Synced

(* BeginVerifying: a new stage.                                            *)
LEMMA BeginVerifyingKeeps ==
    ASSUME Runs, BeginVerifying
    PROVE  ReplacementInv'
<1>1. row.mutated /\ UNCHANGED <<original, replacement, disturbed>>
  BY Running DEF BeginVerifying, Place, Mutating, engine
<1>2. SameJournal /\ Synced' /\ worker' \in WorkerType /\ worker'.at \in {"verify", "gone"}
  BY SaveSame DEF BeginVerifying, Stages, Steps
<1>3. Keeps /\ row'.mutated
  BY <1>1, <1>2, QuietKeeps DEF SameJournal
<1>. QED
  BY <1>2, <1>3, GoneKeeps, PlainPlaces

(* What is verified is replaced.                                           *)
LEMMA VerifiedIsReplaced ==
    ASSUME NEW made, Verified(made)
    PROVE  \A e \in E : IsReplaced(e)
  BY DEF Verified, IsReplaced

(* Verify: only what is in place goes on.                                  *)
LEMMA VerifyKeeps ==
    ASSUME Runs, Verify
    PROVE  ReplacementInv'
<1>1. UNCHANGED <<row, original, replacement, disturbed>>
  BY DEF Verify, engine
<1>2. SameJournal /\ Keeps
  BY <1>1, Running, QuietKeeps DEF SameJournal
<1>3. CASE Verified(worker.made) /\ Goto("own")
  <2>1. Moves("own", worker.i, worker.verdict)
    BY <1>3, Running, GotoMoves DEF Steps
  <2>2. \A e \in E : IsReplaced(e)'
    BY <1>1, <1>3, VerifiedIsReplaced DEF IsReplaced, Runs
  <2>. QED
    BY <1>1, <1>2, <2>1, <2>2, Running, PlainPlaces DEF Moves, Synced
<1>. QED
  BY <1>2, <1>3, FailKeeps DEF Verify

(* Own: the row is retargeted, the verdict is what was verified.           *)
LEMMA OwnKeeps ==
    ASSUME Runs, Own
    PROVE  ReplacementInv'
<1>1. UNCHANGED <<row, original, replacement, disturbed>> /\ \A e \in E : IsReplaced(e)
  BY Running DEF Own, engine, Place
<1>2. SameJournal /\ Keeps
  BY <1>1, Running, QuietKeeps DEF SameJournal
<1>3. CASE Settle("verified", "recording")
  <2>1. Moves("recording", worker.i, "verified")
    BY <1>3, Running, SettleMoves DEF Steps, Outcomes
  <2>2. Holds("verified")'
    BY <1>1, <1>2, Verdicts DEF IsReplaced, Runs
  <2>. QED
    BY <1>1, <1>2, <2>1, <2>2, Running, PlainPlaces DEF Moves, Synced
<1>4. CASE Goto("gone")
  BY <1>2, <1>4, Running, GotoMoves, GoneKeeps DEF Moves, Steps
<1>. QED
  BY <1>3, <1>4 DEF Own

(* The worker may die anywhere.                                            *)
LEMMA WorkerDiesKeeps ==
    ASSUME Runs, WorkerDies
    PROVE  ReplacementInv'
<1>1. SameJournal /\ Keeps
  BY Running, QuietKeeps DEF SameJournal, WorkerDies, engine
<1>. QED
  BY <1>1, Running, GotoMoves, GoneKeeps DEF Moves, Steps, WorkerDies

(* Record: the verdict is as true as before.                               *)
LEMMA RecordKeeps ==
    ASSUME Runs, Record
    PROVE  ReplacementInv'
<1>1. UNCHANGED <<original, replacement, disturbed>>
      /\ worker.verdict \notin {"", "reconciled", "recovery_acknowledged"} /\ Holds(worker.verdict)
  BY Running DEF Record, Place, engine
<1>2. /\ SameJournal /\ Synced' /\ worker' \in WorkerType /\ worker'.at \in {"close", "gone"}
      /\ worker'.verdict = worker.verdict
  BY SaveSame DEF Record, Stages, Steps
<1>3. Keeps
  BY <1>1, <1>2, QuietKeeps
<1>4. Holds(worker.verdict)'
  BY <1>1, <1>2 DEF Holds, IsOriginal, IsReplaced, Runs, E
<1>. QED
  BY <1>1, <1>2, <1>3, <1>4, GoneKeeps, PlainPlaces

(* Result and end of the job, in one statement.                            *)
LEMMA FinishRow ==
    ASSUME row \in RowType, NEW verdict \in Outcomes, Finish(verdict)
    PROVE  /\ row' \in RowType /\ row'.status \in {"succeeded", "failed"}
           /\ row'.outcome = verdict /\ row'.mutated = row.mutated
           /\ row'.touched = row.touched /\ row'.made = row.made
  BY DEF RowType, Finish, StatusOf

(* Whoever ends the job, with a verdict that holds.                        *)
LEMMA FinishKeeps ==
    ASSUME ReplacementInv, UNCHANGED <<project, order, original, replacement, disturbed>>,
           worker.at # "none", NEW verdict \in Outcomes \ {""}, Holds(verdict), Finish(verdict),
           worker' \in WorkerType, worker'.at = "gone"
    PROVE  ReplacementInv'
<1>1. /\ row \in RowType /\ EngineTyped /\ Admitted /\ Core
      /\ E' = E /\ RowType' = RowType /\ WorkerType' = WorkerType
  BY Parts, SameTypes
<1>2. EngineTyped'
  BY <1>1, SameTypes DEF EngineTyped
<1>3. /\ row' \in RowType /\ row'.status \in {"succeeded", "failed"}
      /\ row'.outcome = verdict /\ row'.mutated = row.mutated
      /\ row'.touched = row.touched /\ row'.made = row.made
  BY <1>1, FinishRow
<1>4. Admitted'
  BY <1>1, <1>3 DEF Admitted, Mutating, Stopping, Creating, Restoring
<1>5. Core'
  <2>1. \A e : (IsOriginal(e)' <=> IsOriginal(e)) /\ (IsReplaced(e)' <=> IsReplaced(e))
    BY DEF IsOriginal, IsReplaced
  <2>2. Holds(verdict)'
    BY <1>1, <2>1 DEF Holds
  <2>3. Exclusive'
    BY <1>1 DEF Core, Exclusive
  <2>. QED
    BY <1>1, <1>3, <2>1, <2>2, <2>3 DEF Core
<1>6. Place'
  BY DEF Place, Early, Mutating, Stopping, Creating, Restoring, StopPhase, CreatePhase,
         RestorePhase
<1>. QED
  BY <1>1, <1>2, <1>3, <1>4, <1>5, <1>6, Parts

(* Close: the worker ends its job, or fails to.                            *)
LEMMA CloseKeeps ==
    ASSUME Runs, Close
    PROVE  ReplacementInv'
<1>1. /\ UNCHANGED <<original, replacement, disturbed>>
      /\ worker.verdict \in Outcomes \ {""} /\ Holds(worker.verdict)
  BY Running DEF Close, Place, engine, WorkerType
<1>2. worker' \in WorkerType /\ worker'.at = "gone"
  BY Running, GotoMoves DEF Close, Moves, Steps
<1>3. CASE Finish(worker.verdict)
  BY <1>1, <1>2, <1>3, FinishKeeps DEF Runs
<1>4. CASE UNCHANGED row
  BY <1>1, <1>2, <1>4, Running, QuietKeeps, GoneKeeps DEF SameJournal
<1>. QED
  BY <1>3, <1>4 DEF Close

(* Observe: a job without worker is settled by what the Engine holds.      *)
LEMMA ObserveKeeps ==
    ASSUME ReplacementInv, Observe
    PROVE  ReplacementInv'
<1>1. row \in RowType /\ worker \in WorkerType /\ Core
  BY Parts
<1>2. worker' \in WorkerType /\ worker'.at = "gone"
      /\ UNCHANGED <<project, order, original, replacement, disturbed>>
  BY <1>1 DEF Observe, engine
<1>3. CASE Verified(row.made) /\ Finish("reconciled")
  <2>1. Holds("reconciled")
    BY <1>3, VerifiedIsReplaced DEF Holds
  <2>. QED
    BY <1>2, <1>3, <2>1, FinishKeeps DEF Outcomes, Observe
<1>4. CASE Finish("recovery_required")
  <2>1. Holds("recovery_required")
    BY <1>1 DEF Holds, Core, Observe
  <2>. QED
    BY <1>2, <1>4, <2>1, FinishKeeps DEF Outcomes, Observe
<1>. QED
  BY <1>3, <1>4 DEF Observe

----------------------------------------------------------------------------
(* The first loop: originals are stopped and retained.                     *)

(* In the first loop.                                                      *)
LEMMA StoppingPlaces ==
    ASSUME Runs, Keeps, worker' \in WorkerType, Synced', row'.mutated,
           worker'.at \in Stopping, worker'.i # 0, StopPhase'
    PROVE  ReplacementInv'
<1>1. CreatePhase' /\ RestorePhase'
  BY DEF CreatePhase, RestorePhase, Stopping, Creating, Restoring
<1>2. Place'
  BY <1>1 DEF Place, Early, Stopping, Keeps
<1>. QED
  BY <1>2, Arrives DEF Stopping

(* Nothing replaces an original before the change begins.                  *)
LEMMA AsInspected ==
    ASSUME Runs, ~row.mutated
    PROVE  row.touched = {} /\ \A e \in E : ~replacement[e].there
  BY Running DEF Core, IsOriginal

(* BeginReplacing: the change is journalled before it begins.              *)
LEMMA BeginReplacingKeeps ==
    ASSUME Runs, BeginReplacing
    PROVE  ReplacementInv'
<1>. DEFINE w == [worker EXCEPT !.mutated = TRUE, !.i = Len(order)]
<1>1. ~row.mutated /\ UNCHANGED <<original, replacement, disturbed>>
  BY EarlyPlaces DEF BeginReplacing, Early, engine
<1>2. row.touched = {} /\ \A e \in E : ~replacement[e].there
  BY <1>1, AsInspected
<1>3. /\ w \in WorkerType /\ w.mutated /\ w.touched = row.touched
      /\ w.made = row.made /\ w.i = Len(order)
  <2>1. Len(order) \in Nat /\ worker \in WorkerType /\ Synced
    BY Running
  <2>2. Len(order) \in 0..Len(order)
    BY <2>1
  <2>. QED
    BY <2>1, <2>2 DEF WorkerType, Synced
<1>4. Save("replacing", w, "touch")
  BY DEF BeginReplacing
<1>. HIDE DEF w
<1>5. /\ Keeps /\ worker' \in WorkerType /\ worker'.i = w.i
      /\ \/ worker'.at = "gone" /\ ReplacementInv'
         \/ worker'.at = "touch" /\ Synced' /\ row'.mutated /\ row'.touched = w.touched
  BY <1>1, <1>3, <1>4, SaveKeeps DEF Stages, Steps
<1>6. ASSUME worker'.at = "touch", row'.touched = {} PROVE StopPhase'
  <2>1. order \in Seq(E)
    BY Running
  <2>2. After(Len(order)) = {}
    BY <2>1, Ends
  <2>3. worker'.i = Len(order) /\ order' = order
    BY <1>3, <1>5 DEF Runs
  <2>4. After(worker.i)' = {}
    BY <2>2, <2>3 DEF After
  <2>5. E' = E
    BY SameTypes DEF Runs
  <2>6. \A e \in E' : ~replacement'[e].there
    BY <1>1, <1>2, <2>5
  <2>. QED
    BY <1>6, <2>4, <2>6 DEF StopPhase, Stopping
<1>7. worker'.i # 0
  BY <1>3, <1>5, Running
<1>. QED
  BY <1>2, <1>3, <1>5, <1>6, <1>7, StoppingPlaces DEF Stopping

(* Touch: an original is journalled before it is stopped or renamed.       *)
LEMMA TouchKeeps ==
    ASSUME Runs, Touch
    PROVE  ReplacementInv'
<1>. DEFINE w == [worker EXCEPT !.touched = @ \cup {Current}]
            next == IF Current \in project.running THEN "stop" ELSE "retain"
<1>1. UNCHANGED <<original, replacement, disturbed>> /\ worker.at = "touch"
      /\ worker.i \in 1..Len(order) /\ Current \in E /\ row.mutated /\ StopPhase
  BY Running DEF Touch, engine, Mutating, Stopping, Place
<1>2. /\ w \in WorkerType /\ w.mutated /\ w.touched = row.touched \cup {Current}
      /\ w.made = row.made /\ w.i = worker.i
  BY <1>1, Running DEF WorkerType, Synced
<1>3. Save("replacing", w, next) /\ next \in {"stop", "retain"} /\ next \in Steps
  BY DEF Touch, Steps
<1>. HIDE DEF w, next
<1>4. /\ Keeps /\ worker' \in WorkerType /\ worker'.i = w.i
      /\ \/ worker'.at = "gone" /\ ReplacementInv'
         \/ worker'.at = next /\ Synced' /\ row'.mutated /\ row'.touched = w.touched
  BY <1>1, <1>2, <1>3, SaveKeeps DEF Stages
<1>5. ASSUME worker'.at = next, row'.touched = row.touched \cup {Current} PROVE StopPhase'
  <2>1. /\ E' = E /\ Current' = Current /\ worker'.i = worker.i
        /\ Before(worker.i)' = Before(worker.i) /\ After(worker.i)' = After(worker.i)
    BY <1>2, <1>4, SameTypes DEF Runs, After, Before, Current
  <2>2. Before(worker.i) \cap row'.touched = {}
    <3>1. Before(worker.i) \cap row.touched = {}
      BY <1>1 DEF StopPhase, Stopping
    <3>2. Current \notin Before(worker.i)
      BY <1>1, Running, Positions DEF Current
    <3>. QED
      BY <3>1, <3>2, <1>5
  <2>3. \A e \in After(worker.i) : Retained(e)'
    BY <1>1 DEF StopPhase, Stopping, Retained
  <2>4. \A e \in E : ~replacement'[e].there
    BY <1>1 DEF StopPhase, Stopping
  <2>5. next = "retain" => (Current \notin disturbed => ~original[Current].up)
    <3>1. CASE Current \in project.running
      BY <1>3, <3>1 DEF next
    <3>2. CASE Current \notin project.running
      <4>1. IsOriginal(Current)
        BY <1>1, Running DEF StopPhase, Stopping, Core
      <4>. QED
        BY <3>2, <4>1 DEF IsOriginal
    <3>. QED
      BY <3>1, <3>2
  <2>. QED
    BY <1>1, <1>3, <1>5, <2>1, <2>2, <2>3, <2>4, <2>5 DEF StopPhase
<1>6. worker'.i # 0
  BY <1>1, <1>2, <1>4
<1>. QED
  BY <1>2, <1>3, <1>4, <1>5, <1>6, StoppingPlaces DEF Stopping

(* An Engine call on a touched original, with its effect or without.       *)
LEMMA OriginalCall ==
    ASSUME Runs, UNCHANGED <<row, replacement, disturbed>>,
           NEW c \in row.touched, NEW x \in OriginalType, x.there = original[c].there,
           replacement[c].there => x.name = "backup" /\ (c \notin disturbed => ~x.up),
           original' \in {original, [original EXCEPT ![c] = x]}
    PROVE  /\ Keeps /\ SameJournal
           /\ original' = [original EXCEPT ![c] = x] =>
                  \A e \in E : original'[e] = IF e = c THEN x ELSE original[e]
<1>1. SameJournal
  BY Running DEF SameJournal
<1>. QED
  BY <1>1, QuietKeeps, OriginalKeeps

(* Positions in a loop over the containers.                                *)
LEMMA Counting ==
    ASSUME NEW n \in Nat, NEW i \in 1..n
    PROVE  /\ i \in 0..n /\ i # 0 /\ 1 \in 0..n /\ 1 \in 1..n /\ n \in 0..n
           /\ i > 1 => i - 1 \in 1..n /\ i - 1 \in 0..n /\ (i - 1) + 1 = i
           /\ ~(i > 1) => i = 1
           /\ i < n => i + 1 \in 1..n /\ i + 1 \in 0..n
           /\ ~(i < n) => i = n
  OBVIOUS

(* The parts of the preview, seen from the next state.                     *)
LEMMA NextPlace ==
    ASSUME Runs, NEW i, worker'.i = i
    PROVE  /\ E' = E /\ Current' = order[i]
           /\ Before(worker.i)' = Before(i) /\ After(worker.i)' = After(i)
  BY SameTypes DEF Runs, After, Before, Current

(* The worker stays at its position.                                       *)
LEMMA SamePlace ==
    ASSUME Runs, worker'.i = worker.i
    PROVE  /\ E' = E /\ Current' = Current
           /\ Before(worker.i)' = Before(worker.i) /\ After(worker.i)' = After(worker.i)
  BY SameTypes DEF Runs, After, Before, Current

(* The containers before, at and after the current one.                    *)
LEMMA Around ==
    ASSUME Runs, worker.i \in 1..Len(order)
    PROVE  /\ Current \in E /\ Before(worker.i) \subseteq E \ {Current}
           /\ After(worker.i) \subseteq E \ {Current}
           /\ \A e \in E : e \in Before(worker.i) \/ e = Current \/ e \in After(worker.i)
           /\ \A e \in Before(worker.i) : e \notin After(worker.i)
<1>1. order \in Seq(E) /\ IsInjective(order) /\ Range(order) = E
  BY Running
<1>. DEFINE i == worker.i
<1>2. i \in 1..Len(order)
  OBVIOUS
<1>. HIDE DEF i
<1>3. /\ order[i] \in E /\ Before(i) \subseteq E /\ After(i) \subseteq E
      /\ E = Before(i) \cup {order[i]} \cup After(i)
      /\ order[i] \notin Before(i) /\ order[i] \notin After(i)
      /\ Before(i) \cap After(i) = {}
  BY <1>1, <1>2, Positions
<1>4. Current = order[i]
  BY DEF Current, i
<1>. QED
  BY <1>3, <1>4 DEF i

(* In the first loop, with another state of the current original.          *)
LEMMA StoppingGoesOn ==
    ASSUME Runs, Keeps, UNCHANGED <<row, replacement, disturbed>>, StopPhase,
           worker.at \in {"stop", "retain", "detach"},
           \A e \in E \ {Current} : original'[e] = original[e],
           NEW step \in {"retain", "detach"}, Moves(step, worker.i, worker.verdict),
           Current \notin disturbed => ~original'[Current].up,
           step = "detach" => original'[Current].name = "backup"
    PROVE  ReplacementInv'
<1>1. /\ worker.i \in 1..Len(order) /\ Current \in E /\ row.mutated /\ Synced
  BY Running DEF Mutating, Stopping, Place
<1>2. /\ E' = E /\ Current' = Current /\ worker'.i = worker.i /\ worker'.at = step
      /\ Before(worker.i)' = Before(worker.i) /\ After(worker.i)' = After(worker.i)
  BY SamePlace DEF Moves
<1>3. \A e \in After(worker.i) : Retained(e)'
  <2>1. After(worker.i) \subseteq E \ {Current}
    BY <1>1, Around
  <2>. QED
    BY <2>1 DEF StopPhase, Stopping, Retained
<1>4. StopPhase'
  BY <1>2, <1>3 DEF StopPhase, Stopping
<1>5. worker' \in WorkerType /\ Synced' /\ row'.mutated
  BY <1>1 DEF Moves, Synced
<1>. QED
  BY <1>1, <1>2, <1>4, <1>5, StoppingPlaces DEF Stopping

(* StopOriginal.                                                           *)
LEMMA StopOriginalKeeps ==
    ASSUME Runs, StopOriginal
    PROVE  ReplacementInv'
<1>. DEFINE x == [original[Current] EXCEPT !.up = FALSE]
<1>1. /\ worker.at = "stop" /\ Current \in E /\ StopPhase
      /\ Current \in row.touched /\ ~replacement[Current].there
      /\ UNCHANGED <<row, replacement, disturbed>>
  BY Running DEF StopOriginal, Mutating, Stopping, Place, StopPhase, OriginalBecomes
<1>2. x \in OriginalType /\ x.there = original[Current].there /\ ~x.up
  BY <1>1, Running DEF OriginalType, EngineTyped
<1>3. \/ original' = [original EXCEPT ![Current] = x] /\ Goto("retain")
      \/ original' \in {original, [original EXCEPT ![Current] = x]} /\ Fail
  BY DEF StopOriginal, OriginalBecomes
<1>. HIDE DEF x
<1>4. /\ Keeps /\ SameJournal
      /\ original' = [original EXCEPT ![Current] = x] =>
             \A e \in E : original'[e] = IF e = Current THEN x ELSE original[e]
  BY <1>1, <1>2, <1>3, OriginalCall
<1>5. CASE original' = [original EXCEPT ![Current] = x] /\ Goto("retain")
  <2>1. Moves("retain", worker.i, worker.verdict)
    BY <1>5, Running, GotoMoves DEF Steps
  <2>. QED
    BY <1>1, <1>2, <1>4, <1>5, <2>1, StoppingGoesOn
<1>. QED
  BY <1>3, <1>4, <1>5, FailKeeps

(* RetainOriginal: a new name.                                             *)
LEMMA RetainOriginalKeeps ==
    ASSUME Runs, RetainOriginal
    PROVE  ReplacementInv'
<1>. DEFINE x == [original[Current] EXCEPT !.name = "backup"]
<1>1. /\ worker.at = "retain" /\ Current \in E /\ StopPhase
      /\ Current \in row.touched /\ ~replacement[Current].there
      /\ Current \notin disturbed => ~original[Current].up
      /\ UNCHANGED <<row, replacement, disturbed>>
  BY Running DEF RetainOriginal, Mutating, Stopping, Place, StopPhase, OriginalBecomes
<1>2. /\ x \in OriginalType /\ x.there = original[Current].there
      /\ x.up = original[Current].up /\ x.name = "backup"
  BY <1>1, Running DEF OriginalType, EngineTyped
<1>3. \/ original' = [original EXCEPT ![Current] = x] /\ Goto("detach")
      \/ original' \in {original, [original EXCEPT ![Current] = x]} /\ Fail
  BY DEF RetainOriginal, OriginalBecomes
<1>. HIDE DEF x
<1>4. /\ Keeps /\ SameJournal
      /\ original' = [original EXCEPT ![Current] = x] =>
             \A e \in E : original'[e] = IF e = Current THEN x ELSE original[e]
  BY <1>1, <1>2, <1>3, OriginalCall
<1>5. CASE original' = [original EXCEPT ![Current] = x] /\ Goto("detach")
  <2>1. Moves("detach", worker.i, worker.verdict)
    BY <1>5, Running, GotoMoves DEF Steps
  <2>. QED
    BY <1>1, <1>2, <1>4, <1>5, <2>1, StoppingGoesOn
<1>. QED
  BY <1>3, <1>4, <1>5, FailKeeps

(* In the second loop.                                                     *)
LEMMA CreatingPlaces ==
    ASSUME Runs, Keeps, worker' \in WorkerType, Synced', row'.mutated,
           worker'.at \in Creating, worker'.i # 0, CreatePhase'
    PROVE  ReplacementInv'
<1>1. StopPhase' /\ RestorePhase'
  BY DEF StopPhase, RestorePhase, Stopping, Creating, Restoring
<1>2. Place'
  BY <1>1 DEF Place, Early, Creating, Keeps
<1>. QED
  BY <1>2, Arrives DEF Creating

(* DetachOriginal: to the original before it, or to the first replacement. *)
LEMMA DetachOriginalKeeps ==
    ASSUME Runs, DetachOriginal
    PROVE  ReplacementInv'
<1>. DEFINE x == [original[Current] EXCEPT !.attached = FALSE]
<1>1. /\ worker.at = "detach" /\ Current \in E /\ worker.i \in 1..Len(order) /\ StopPhase
      /\ Current \in row.touched /\ row.mutated
      /\ \A e \in E : ~replacement[e].there
      /\ \A e \in After(worker.i) : Retained(e)
      /\ Current \notin disturbed => ~original[Current].up
      /\ original[Current].name = "backup"
      /\ UNCHANGED <<row, replacement, disturbed>>
  BY Running DEF DetachOriginal, Mutating, Stopping, Place, StopPhase, OriginalBecomes
<1>2. /\ x \in OriginalType /\ x.there = original[Current].there
      /\ x.up = original[Current].up /\ x.name = "backup" /\ ~x.attached
  BY <1>1, Running DEF OriginalType, EngineTyped
<1>3. \/ original' = [original EXCEPT ![Current] = x] /\
           IF worker.i > 1 THEN GotoAt("touch", worker.i - 1) ELSE GotoAt("create", 1)
      \/ original' \in {original, [original EXCEPT ![Current] = x]} /\ Fail
  BY DEF DetachOriginal, OriginalBecomes
<1>. HIDE DEF x
<1>4. /\ Keeps /\ SameJournal
      /\ original' = [original EXCEPT ![Current] = x] =>
             \A e \in E : original'[e] = IF e = Current THEN x ELSE original[e]
  BY <1>1, <1>2, <1>3, OriginalCall
<1>5. ASSUME original' = [original EXCEPT ![Current] = x]
      PROVE  \A e \in After(worker.i) \cup {Current} : Retained(e)'
  <2>1. \A e \in After(worker.i) : e \in E /\ e # Current
    BY <1>1, Around
  <2>2. \A e \in After(worker.i) : Retained(e)'
    BY <1>1, <1>4, <1>5, <2>1 DEF Retained
  <2>3. original[Current].there
    BY Running, <1>1 DEF Core, Holds
  <2>4. \A e \in {Current} : Retained(e)'
    BY <1>1, <1>2, <1>4, <1>5, <2>3 DEF Retained
  <2>. QED
    BY <2>2, <2>4
<1>6. CASE original' = [original EXCEPT ![Current] = x]
             /\ worker.i > 1 /\ GotoAt("touch", worker.i - 1)
  <2>1. worker.i - 1 \in 1..Len(order) /\ (worker.i - 1) + 1 = worker.i
        /\ worker.i - 1 \in 0..Len(order) /\ worker.i - 1 # 0
    BY <1>1, <1>6, Running, Counting
  <2>2. Moves("touch", worker.i - 1, worker.verdict)
    BY <1>6, <2>1, Running, GotoAtMoves DEF Steps
  <2>3. worker' \in WorkerType /\ Synced' /\ row'.mutated /\ worker'.at = "touch"
        /\ worker'.i = worker.i - 1
    BY <1>1, <1>4, <2>2, Running DEF Moves, Synced, SameJournal
  <2>4. /\ After(worker.i)' = After(worker.i) \cup {Current}
        /\ Before(worker.i) = Before(worker.i)' \cup {Current'} /\ E' = E
    <3>. DEFINE i == worker.i - 1
    <3>1. i \in 1..Len(order) /\ i + 1 \in 1..Len(order) /\ i + 1 = worker.i
      BY <2>1, <1>1
    <3>2. /\ E' = E /\ Current' = order[i]
          /\ Before(worker.i)' = Before(i) /\ After(worker.i)' = After(i)
      BY <2>3, NextPlace
    <3>. HIDE DEF i
    <3>3. /\ Before(i + 1) = Before(i) \cup {order[i]}
          /\ After(i) = After(i + 1) \cup {order[i + 1]}
      BY <3>1, Running, NextPosition
    <3>. QED
      BY <3>1, <3>2, <3>3 DEF Current
  <2>5. StopPhase'
    <3>1. \A e \in E' : ~replacement'[e].there
      BY <1>1, <2>4
    <3>2. Before(worker.i)' \cap row'.touched = {} /\ Current' \notin row'.touched
      BY <1>1, <2>4 DEF StopPhase, Stopping
    <3>3. \A e \in After(worker.i)' : Retained(e)'
      BY <1>5, <1>6, <2>4
    <3>. QED
      BY <2>3, <3>1, <3>2, <3>3 DEF StopPhase
  <2>. QED
    BY <1>1, <1>4, <2>1, <2>3, <2>5, StoppingPlaces DEF Stopping
<1>7. CASE original' = [original EXCEPT ![Current] = x]
             /\ ~(worker.i > 1) /\ GotoAt("create", 1)
  <2>1. worker.i = 1 /\ 1 \in 0..Len(order)
    BY <1>1, <1>7, Running, Counting
  <2>2. Moves("create", 1, worker.verdict)
    BY <1>7, <2>1, Running, GotoAtMoves DEF Steps
  <2>3. worker' \in WorkerType /\ Synced' /\ row'.mutated /\ worker'.at = "create"
        /\ worker'.i = worker.i
    BY <1>1, <1>4, <2>1, <2>2, Running DEF Moves, Synced, SameJournal
  <2>4. Before(worker.i) = {}
    BY <2>1, Running, Ends
  <2>5. /\ Before(worker.i)' = {} /\ After(worker.i)' \subseteq E /\ E' = E
        /\ Current' = Current
    BY <1>1, <2>3, <2>4, SamePlace, Around
  <2>6. \A e \in E' : Retained(e)'
    BY <1>1, <1>5, <1>7, <2>4, <2>5, Around
  <2>7. CreatePhase'
    BY <1>1, <2>3, <2>5, <2>6 DEF CreatePhase
  <2>. QED
    BY <1>1, <1>4, <2>3, <2>7, CreatingPlaces DEF Creating
<1>. QED
  BY <1>3, <1>4, <1>6, <1>7, FailKeeps

----------------------------------------------------------------------------
(* The second loop: replacements are created.                              *)

(* While replacements are created every original is retained and touched.  *)
LEMMA CreatingFacts ==
    ASSUME Runs, worker.at \in Creating
    PROVE  /\ worker.i \in 1..Len(order) /\ Current \in E /\ row.mutated /\ CreatePhase
           /\ row.touched = E
           /\ \A e \in E : Retained(e) /\ original[e].name = "backup"
<1>1. worker.i \in 1..Len(order) /\ Current \in E /\ row.mutated /\ CreatePhase
  BY Running DEF Mutating, Creating, Place
<1>2. \A e \in E : Retained(e) /\ original[e].name = "backup"
  BY <1>1 DEF CreatePhase, Retained
<1>3. row.touched = E
  <2>1. row.touched \subseteq E
    BY Running DEF RowType
  <2>2. \A e \in E \ row.touched : IsOriginal(e)
    BY Running DEF Core
  <2>. QED
    BY <1>2, <2>1, <2>2 DEF IsOriginal
<1>. QED
  BY <1>1, <1>2, <1>3

(* An Engine call on the current replacement, with its effect or without.  *)
LEMMA ReplacementCall ==
    ASSUME Runs, UNCHANGED <<row, original, disturbed>>,
           NEW c \in E, NEW x \in ReplacementType, x.up => x.there,
           x.there => /\ c \in row.touched
                      /\ original[c].name = "backup" /\ (c \notin disturbed => ~original[c].up)
                      /\ \/ replacement[c].there \/ c \in row.made
                         \/ \A e \in E : replacement[e].there => e \in row.made,
           replacement' \in {replacement, [replacement EXCEPT ![c] = x]}
    PROVE  /\ Keeps /\ SameJournal
           /\ replacement' = [replacement EXCEPT ![c] = x] =>
                  \A e \in E : replacement'[e] = IF e = c THEN x ELSE replacement[e]
<1>1. SameJournal
  BY Running DEF SameJournal
<1>. QED
  BY <1>1, QuietKeeps, ReplacementKeeps

(* In the second loop, with another state of the current replacement.      *)
LEMMA CreatingGoesOn ==
    ASSUME Runs, Keeps, UNCHANGED <<row, original, disturbed>>,
           worker.at \in Creating,
           \A e \in E \ {Current} : replacement'[e] = replacement[e],
           NEW step \in Creating \ {"create"}, Moves(step, worker.i, worker.verdict),
           replacement'[Current].there,
           step # "record" => Current \in row.made
    PROVE  ReplacementInv'
<1>1. /\ worker.i \in 1..Len(order) /\ Current \in E /\ row.mutated /\ CreatePhase /\ Synced
      /\ \A e \in E : Retained(e)
  BY CreatingFacts, Running
<1>2. /\ E' = E /\ Current' = Current /\ worker'.i = worker.i /\ worker'.at = step
      /\ Before(worker.i)' = Before(worker.i) /\ After(worker.i)' = After(worker.i)
  BY SamePlace DEF Moves
<1>3. worker' \in WorkerType /\ Synced' /\ row'.mutated
  BY <1>1 DEF Moves, Synced
<1>4. \A e \in E' : Retained(e)'
  BY <1>1, <1>2 DEF Retained
<1>5. /\ Before(worker.i) \subseteq E \ {Current} /\ After(worker.i) \subseteq E \ {Current}
  BY <1>1, Around
<1>6. /\ \A e \in After(worker.i) : ~replacement'[e].there
      /\ \A e \in Before(worker.i) \ disturbed : e \in project.running => replacement'[e].up
      /\ Before(worker.i) \subseteq row.made
  BY <1>1, <1>5 DEF CreatePhase
<1>7. CreatePhase'
  BY <1>2, <1>4, <1>6 DEF CreatePhase, Creating, Runs
<1>. QED
  BY <1>1, <1>2, <1>3, <1>7, CreatingPlaces DEF Creating

(* CreateReplacement: the only one the row does not know.                  *)
LEMMA CreateReplacementKeeps ==
    ASSUME Runs, CreateReplacement
    PROVE  ReplacementInv'
<1>1. /\ worker.at = "create" /\ worker.i \in 1..Len(order) /\ Current \in E /\ CreatePhase
      /\ row.touched = E /\ ~replacement[Current].there /\ Retained(Current)
      /\ original[Current].name = "backup"
      /\ UNCHANGED <<row, disturbed>>
  BY CreatingFacts DEF CreateReplacement, CreatePhase, Creating
<1>2. NameFree(Current)
  BY <1>1 DEF NameFree
<1>3. \A e \in E : replacement[e].there => e \in row.made
  BY <1>1, Around DEF CreatePhase, Creating
<1>4. PICK x \in Created(Current) : ReplacementBecomes(Current, x, Goto("record"), Fail)
  BY <1>2 DEF CreateReplacement
<1>5. x \in ReplacementType /\ x.there /\ ~x.up
  <2>1. PICK same \in BOOLEAN : x = [there |-> TRUE, up |-> FALSE, same |-> same]
    BY DEF Created
  <2>. QED
    BY <2>1 DEF ReplacementType
<1>6. /\ UNCHANGED original
      /\ \/ replacement' = [replacement EXCEPT ![Current] = x] /\ Goto("record")
         \/ replacement' \in {replacement, [replacement EXCEPT ![Current] = x]} /\ Fail
  BY <1>4 DEF ReplacementBecomes
<1>7. /\ Keeps /\ SameJournal
      /\ replacement' = [replacement EXCEPT ![Current] = x] =>
             \A e \in E : replacement'[e] = IF e = Current THEN x ELSE replacement[e]
  BY <1>1, <1>3, <1>5, <1>6, ReplacementCall DEF Retained
<1>8. CASE replacement' = [replacement EXCEPT ![Current] = x] /\ Goto("record")
  <2>1. Moves("record", worker.i, worker.verdict)
    BY <1>8, Running, GotoMoves DEF Steps
  <2>. QED
    BY <1>1, <1>5, <1>6, <1>7, <1>8, <2>1, CreatingGoesOn DEF Creating
<1>. QED
  BY <1>6, <1>7, <1>8, FailKeeps

(* RecordReplacement: now the row knows it.                                *)
LEMMA RecordReplacementKeeps ==
    ASSUME Runs, RecordReplacement
    PROVE  ReplacementInv'
<1>. DEFINE w == [worker EXCEPT !.made = @ \cup {Current}]
<1>1. /\ UNCHANGED <<original, replacement, disturbed>> /\ worker.at = "record"
      /\ worker.i \in 1..Len(order) /\ Current \in E /\ row.mutated /\ CreatePhase
      /\ \A e \in E : Retained(e)
  BY CreatingFacts DEF RecordReplacement, engine, Creating
<1>2. /\ w \in WorkerType /\ w.mutated /\ w.made = row.made \cup {Current}
      /\ w.touched = row.touched /\ w.i = worker.i
  BY <1>1, Running DEF WorkerType, Synced
<1>3. Save("replacing", w, "retarget")
  BY DEF RecordReplacement
<1>. HIDE DEF w
<1>4. /\ Keeps /\ worker' \in WorkerType /\ worker'.i = w.i
      /\ \/ worker'.at = "gone" /\ ReplacementInv'
         \/ worker'.at = "retarget" /\ Synced' /\ row'.mutated /\ row'.made = w.made
  <2>1. "replacing" \in Stages /\ "retarget" \in Steps
    BY DEF Stages, Steps
  <2>2. row.touched \subseteq w.touched /\ row.made \subseteq w.made
    BY <1>2
  <2>. QED
    BY <1>1, <1>2, <1>3, <2>1, <2>2, SaveKeeps
<1>5. ASSUME worker'.at = "retarget", row'.made = row.made \cup {Current} PROVE CreatePhase'
  <2>1. /\ E' = E /\ Current' = Current /\ worker'.i = worker.i
        /\ Before(worker.i)' = Before(worker.i) /\ After(worker.i)' = After(worker.i)
    BY <1>2, <1>4, SamePlace
  <2>2. \A e \in E' : Retained(e)'
    BY <1>1, <2>1 DEF Retained
  <2>3. /\ \A e \in After(worker.i) : ~replacement[e].there
        /\ \A e \in Before(worker.i) \ disturbed : e \in project.running => replacement[e].up
        /\ Before(worker.i) \subseteq row.made /\ replacement[Current].there
    BY <1>1 DEF CreatePhase, Creating
  <2>. QED
    BY <1>1, <1>5, <2>1, <2>2, <2>3 DEF CreatePhase, Runs
<1>6. worker'.i # 0
  BY <1>1, <1>2, <1>4
<1>. QED
  BY <1>2, <1>4, <1>5, <1>6, CreatingPlaces DEF Creating

(* ReserveReplacement.                                                     *)
LEMMA ReserveReplacementKeeps ==
    ASSUME Runs, ReserveReplacement
    PROVE  ReplacementInv'
<1>. DEFINE next == IF Current \in project.running \cup OneShot(project)
                    THEN "start" ELSE "ready"
<1>1. /\ UNCHANGED <<row, original, replacement, disturbed>> /\ worker.at = "retarget"
      /\ CreatePhase /\ replacement[Current].there /\ Current \in row.made
  BY CreatingFacts DEF ReserveReplacement, engine, Creating, CreatePhase
<1>2. SameJournal /\ Keeps
  BY <1>1, Running, QuietKeeps DEF SameJournal
<1>3. (Goto(next) \/ Fail) /\ next \in {"start", "ready"}
  BY DEF ReserveReplacement
<1>. HIDE DEF next
<1>4. CASE Goto(next)
  <2>1. Moves(next, worker.i, worker.verdict)
    BY <1>3, <1>4, Running, GotoMoves DEF Steps
  <2>. QED
    BY <1>1, <1>2, <1>3, <2>1, CreatingGoesOn DEF Creating
<1>. QED
  BY <1>2, <1>3, <1>4, FailKeeps

(* StartReplacement.                                                       *)
LEMMA StartReplacementKeeps ==
    ASSUME Runs, StartReplacement
    PROVE  ReplacementInv'
<1>. DEFINE x == [replacement[Current] EXCEPT !.up = TRUE]
<1>1. /\ worker.at = "start" /\ Current \in E /\ row.touched = E
      /\ replacement[Current].there /\ Current \in row.made
      /\ original[Current].name = "backup" /\ Retained(Current)
      /\ UNCHANGED <<row, original, disturbed>>
  BY CreatingFacts DEF StartReplacement, Creating, CreatePhase, ReplacementBecomes
<1>2. x \in ReplacementType /\ x.there
  BY <1>1, Running DEF ReplacementType, EngineTyped
<1>3. \/ replacement' = [replacement EXCEPT ![Current] = x] /\ Goto("ready")
      \/ replacement' \in {replacement, [replacement EXCEPT ![Current] = x]} /\ Fail
  BY DEF StartReplacement, ReplacementBecomes
<1>. HIDE DEF x
<1>4. /\ Keeps /\ SameJournal
      /\ replacement' = [replacement EXCEPT ![Current] = x] =>
             \A e \in E : replacement'[e] = IF e = Current THEN x ELSE replacement[e]
  BY <1>1, <1>2, <1>3, ReplacementCall DEF Retained
<1>5. CASE replacement' = [replacement EXCEPT ![Current] = x] /\ Goto("ready")
  <2>1. Moves("ready", worker.i, worker.verdict)
    BY <1>5, Running, GotoMoves DEF Steps
  <2>. QED
    BY <1>1, <1>2, <1>4, <1>5, <2>1, CreatingGoesOn DEF Creating
<1>. QED
  BY <1>3, <1>4, <1>5, FailKeeps

(* AwaitReplacement: what ran runs again before the next is created.       *)
LEMMA AwaitReplacementKeeps ==
    ASSUME Runs, AwaitReplacement
    PROVE  ReplacementInv'
<1>. DEFINE x == [replacement[Current] EXCEPT !.up = FALSE]
            done == IF Current \in OneShot(project)
                    THEN [replacement EXCEPT ![Current] = x] ELSE replacement
<1>1. /\ worker.at = "ready" /\ Current \in E /\ worker.i \in 1..Len(order)
      /\ row.touched = E /\ row.mutated /\ CreatePhase
      /\ replacement[Current].there /\ Current \in row.made
      /\ original[Current].name = "backup" /\ Retained(Current)
      /\ \A e \in E : Retained(e)
      /\ UNCHANGED <<row, original, disturbed>>
  BY CreatingFacts DEF AwaitReplacement, Creating, CreatePhase
<1>2. /\ x \in ReplacementType /\ x.there = replacement[Current].there /\ ~x.up
  BY <1>1, Running DEF ReplacementType, EngineTyped
<1>3. \/ /\ Ready(Current, replacement[Current]) /\ replacement' = done
         /\ IF worker.i < Len(order) THEN GotoAt("create", worker.i + 1) ELSE Goto("verifying")
      \/ replacement' \in {replacement, done} /\ Fail
  <2>1. done = IF Current \in OneShot(project)
               THEN [replacement EXCEPT ![Current].up = FALSE] ELSE replacement
    OBVIOUS
  <2>. HIDE DEF x, done
  <2>. QED
    BY <2>1 DEF AwaitReplacement
<1>4. \/ replacement' = replacement
      \/ replacement' = [replacement EXCEPT ![Current] = x] /\ Current \in OneShot(project)
  BY <1>3
<1>. HIDE DEF x
<1>6. /\ Keeps /\ SameJournal
      /\ replacement' = [replacement EXCEPT ![Current] = x] =>
             \A e \in E : replacement'[e] = IF e = Current THEN x ELSE replacement[e]
  BY <1>1, <1>2, <1>4, ReplacementCall DEF Retained
<1>7. ASSUME worker.i < Len(order), GotoAt("create", worker.i + 1),
             Ready(Current, replacement[Current])
      PROVE  ReplacementInv'
  <2>1. worker.i + 1 \in 1..Len(order) /\ worker.i + 1 \in 0..Len(order) /\ worker.i + 1 # 0
    BY <1>1, <1>7, Running, Counting
  <2>2. Moves("create", worker.i + 1, worker.verdict)
    BY <1>7, <2>1, Running, GotoAtMoves DEF Steps
  <2>3. worker' \in WorkerType /\ Synced' /\ row'.mutated /\ worker'.at = "create"
        /\ worker'.i = worker.i + 1
    BY <1>1, <1>6, <2>2, Running DEF Moves, Synced, SameJournal
  <2>4. /\ Before(worker.i)' = Before(worker.i) \cup {Current}
        /\ After(worker.i) = After(worker.i)' \cup {Current'} /\ E' = E
    <3>. DEFINE i == worker.i
                j == worker.i + 1
    <3>1. i \in 1..Len(order) /\ i + 1 \in 1..Len(order) /\ j = i + 1
      BY <2>1, <1>1
    <3>2. /\ E' = E /\ Current' = order[j]
          /\ Before(worker.i)' = Before(j) /\ After(worker.i)' = After(j)
      BY <2>3, NextPlace
    <3>3. Current = order[i]
      BY DEF Current
    <3>. HIDE DEF i, j
    <3>4. /\ Before(i + 1) = Before(i) \cup {order[i]}
          /\ After(i) = After(i + 1) \cup {order[i + 1]}
      BY <3>1, Running, NextPosition
    <3>. QED
      BY <3>1, <3>2, <3>3, <3>4 DEF i
  <2>5. CreatePhase'
    <3>1. \A e \in E' : Retained(e)'
      BY <1>1, <2>4 DEF Retained
    <3>2. \A e \in After(worker.i) : ~replacement'[e].there
      BY <1>1, <1>4, <1>6, Around DEF CreatePhase, Creating
    <3>3. \A e \in Before(worker.i) \ disturbed : e \in project.running => replacement'[e].up
      BY <1>1, <1>4, <1>6, Around DEF CreatePhase, Creating
    <3>4. Current \in project.running => replacement'[Current].up
      <4>1. Current \in project.running => Current \notin OneShot(project)
        BY Running
      <4>. QED
        BY <4>1, <1>4, <1>7 DEF Ready
    <3>5. Before(worker.i) \subseteq row.made
      BY <1>1 DEF CreatePhase, Creating
    <3>6. \A e \in Before(worker.i)' \ disturbed' : e \in project'.running => replacement'[e].up
      BY <1>1, <2>4, <3>3, <3>4 DEF Runs
    <3>7. /\ \A e \in After(worker.i)' : ~replacement'[e].there
          /\ ~replacement'[Current'].there
      BY <2>4, <3>2
    <3>. QED
      BY <1>1, <2>3, <2>4, <3>1, <3>5, <3>6, <3>7 DEF CreatePhase
  <2>. QED
    BY <1>6, <2>1, <2>3, <2>5, CreatingPlaces DEF Creating
<1>8. CASE Goto("verifying")
  <2>1. Moves("verifying", worker.i, worker.verdict)
    BY <1>8, Running, GotoMoves DEF Steps
  <2>2. worker' \in WorkerType /\ Synced' /\ row'.mutated /\ worker'.at = "verifying"
    BY <1>1, <1>6, <2>1, Running DEF Moves, Synced, SameJournal
  <2>. QED
    BY <1>6, <2>2, PlainPlaces
<1>. QED
  BY <1>3, <1>6, <1>7, <1>8, FailKeeps

----------------------------------------------------------------------------
(* The rollback: originals are restored.                                   *)

(* BeginRollback: from the last replacement.                               *)
LEMMA BeginRollbackKeeps ==
    ASSUME Runs, BeginRollback
    PROVE  ReplacementInv'
<1>. DEFINE J == [row EXCEPT !.mutated = worker.mutated, !.touched = worker.touched,
                             !.made = worker.made]
<1>1. row.mutated /\ UNCHANGED <<original, replacement, disturbed>>
  BY Running DEF BeginRollback, Mutating, Place, engine
<1>2. J = row
  BY Running DEF RowType, Synced
<1>3. row' \in {row, J, [J EXCEPT !.stage = "rolling_back"]}
  BY DEF BeginRollback, Journal
<1>. HIDE DEF J
<1>4. SameJournal /\ Keeps
  <2>1. SameJournal
    BY <1>2, <1>3, Running, StageOnly DEF SameJournal, Stages
  <2>. QED
    BY <1>1, <2>1, QuietKeeps
<1>5. Len(order) \in 0..Len(order) /\ Len(order) # 0
  BY Running, Counting
<1>6. Moves("remove", Len(order), worker.verdict)
  BY <1>5, Running, GotoAtMoves DEF BeginRollback, Steps
<1>7. worker' \in WorkerType /\ Synced' /\ row'.mutated /\ worker'.at = "remove" /\ worker'.i # 0
  BY <1>1, <1>4, <1>5, <1>6, Running DEF Moves, Synced, SameJournal
<1>. QED
  BY <1>4, <1>7, PlainPlaces

(* In the last loop.                                                       *)
LEMMA RestoringPlaces ==
    ASSUME Runs, Keeps, worker' \in WorkerType, Synced', row'.mutated,
           worker'.at \in Restoring, worker'.i # 0, RestorePhase'
    PROVE  ReplacementInv'
<1>1. StopPhase' /\ CreatePhase'
  BY DEF StopPhase, CreatePhase, Stopping, Creating, Restoring
<1>2. Place'
  BY <1>1 DEF Place, Early, Restoring, Keeps
<1>. QED
  BY <1>2, Arrives DEF Restoring

(* It begins with the first container.                                     *)
LEMMA RestoringBegins ==
    ASSUME Runs, Keeps, SameJournal, row.mutated, GotoAt("restore", 1)
    PROVE  ReplacementInv'
<1>1. 1 \in 0..Len(order)
  BY Running, Counting
<1>2. Moves("restore", 1, worker.verdict)
  BY <1>1, Running, GotoAtMoves DEF Steps
<1>3. worker' \in WorkerType /\ Synced' /\ row'.mutated /\ worker'.at = "restore" /\ worker'.i = 1
  BY <1>2, Running DEF Moves, Synced, SameJournal
<1>4. Before(worker.i)' = {}
  <2>1. Before(1) = {}
    BY Running, Ends
  <2>. QED
    BY <1>3, <2>1, NextPlace
<1>5. RestorePhase'
  BY <1>3, <1>4 DEF RestorePhase
<1>. QED
  BY <1>3, <1>5, RestoringPlaces DEF Restoring

(* RemoveReplacement: to the one before it, or to the first original.      *)
LEMMA RemoveReplacementKeeps ==
    ASSUME Runs, RemoveReplacement
    PROVE  ReplacementInv'
<1>1. /\ worker.at = "remove" /\ Current \in E /\ worker.i \in 1..Len(order)
      /\ row.mutated /\ UNCHANGED <<row, disturbed>>
  BY Running DEF RemoveReplacement, Mutating, Place
<1>2. /\ UNCHANGED original
      /\ \/ NotRestored
         \/ IF worker.i > 1 THEN GotoAt("remove", worker.i - 1) ELSE GotoAt("restore", 1)
      /\ replacement' \in {replacement, [replacement EXCEPT ![Current] = Absent]}
  BY DEF RemoveReplacement, ReplacementBecomes, engine
<1>3. Absent \in ReplacementType /\ ~Absent.there /\ ~Absent.up
  BY DEF Absent, ReplacementType
<1>4. Keeps /\ SameJournal
  BY <1>1, <1>2, <1>3, ReplacementCall
<1>5. CASE worker.i > 1 /\ GotoAt("remove", worker.i - 1)
  <2>1. worker.i - 1 \in 0..Len(order) /\ worker.i - 1 # 0
    BY <1>1, <1>5, Running, Counting
  <2>2. Moves("remove", worker.i - 1, worker.verdict)
    BY <1>5, <2>1, Running, GotoAtMoves DEF Steps
  <2>3. worker' \in WorkerType /\ Synced' /\ row'.mutated /\ worker'.at = "remove"
        /\ worker'.i # 0
    BY <1>1, <1>4, <2>1, <2>2, Running DEF Moves, Synced, SameJournal
  <2>. QED
    BY <1>4, <2>3, PlainPlaces
<1>. QED
  BY <1>1, <1>2, <1>4, <1>5, NotRestoredKeeps, RestoringBegins

(* It goes on when what it has come to is back.                            *)
LEMMA NextOriginalKeeps ==
    ASSUME Runs, Keeps, SameJournal, row.mutated, worker.i \in 1..Len(order),
           \A e \in Before(worker.i) : IsOriginal(e)',
           \A e \in {Current} : IsOriginal(e)',
           NextOriginal
    PROVE  ReplacementInv'
<1>1. CASE worker.i < Len(order) /\ GotoAt("restore", worker.i + 1)
  <2>1. worker.i + 1 \in 1..Len(order) /\ worker.i + 1 \in 0..Len(order) /\ worker.i + 1 # 0
    <3>1. Len(order) \in Nat
      BY Running
    <3>. QED
      BY <1>1, <3>1, Counting
  <2>2. Moves("restore", worker.i + 1, worker.verdict)
    BY <1>1, <2>1, Running, GotoAtMoves DEF Steps
  <2>3. worker' \in WorkerType /\ Synced' /\ row'.mutated /\ worker'.at = "restore"
        /\ worker'.i = worker.i + 1
    BY <2>2, Running DEF Moves, Synced, SameJournal
  <2>4. Before(worker.i)' = Before(worker.i) \cup {Current}
    <3>. DEFINE i == worker.i
                j == worker.i + 1
    <3>1. i \in 1..Len(order) /\ i + 1 \in 1..Len(order) /\ j = i + 1
      BY <2>1
    <3>2. Before(worker.i)' = Before(j)
      BY <2>3, NextPlace
    <3>3. Current = order[i]
      BY DEF Current
    <3>. HIDE DEF i, j
    <3>4. Before(i + 1) = Before(i) \cup {order[i]}
      BY <3>1, Running, NextPosition
    <3>. QED
      BY <3>1, <3>2, <3>3, <3>4 DEF i
  <2>5. RestorePhase'
    BY <2>3, <2>4 DEF RestorePhase
  <2>. QED
    BY <2>1, <2>3, <2>5, RestoringPlaces DEF Restoring
<1>2. CASE worker.i = Len(order) /\ Goto("disown")
  <2>1. Moves("disown", worker.i, worker.verdict)
    BY <1>2, Running, GotoMoves DEF Steps
  <2>2. worker' \in WorkerType /\ Synced' /\ worker'.at = "disown"
    BY <2>1, Running DEF Moves, Synced, SameJournal
  <2>3. After(worker.i) = {}
    BY <1>2, Running, Ends
  <2>4. \A e \in E : IsOriginal(e)'
    BY <2>3, Around
  <2>. QED
    BY <2>2, <2>4, PlainPlaces
<1>. QED
  BY <1>1, <1>2, Running, Counting DEF NextOriginal

(* In the last loop, with another state of the current original.           *)
LEMMA RestoringGoesOn ==
    ASSUME Runs, Keeps, UNCHANGED <<row, replacement, disturbed>>,
           worker.at \in Restoring,
           \A e \in E \ {Current} : original'[e] = original[e],
           NEW step \in Restoring \ {"restore"}, Moves(step, worker.i, worker.verdict),
           original'[Current].name = "own", ~replacement[Current].there,
           Current \in row.touched,
           step \in {"restart", "settle"} => original'[Current].attached,
           step = "settle" => \A e \in {Current} : IsOriginal(e)'
    PROVE  ReplacementInv'
<1>1. /\ worker.i \in 1..Len(order) /\ Current \in E /\ row.mutated /\ Synced
      /\ \A e \in Before(worker.i) : IsOriginal(e)
  BY Running DEF Mutating, Restoring, Place, RestorePhase
<1>2. /\ E' = E /\ Current' = Current /\ worker'.i = worker.i /\ worker'.at = step
      /\ Before(worker.i)' = Before(worker.i)
  BY SamePlace DEF Moves
<1>3. worker' \in WorkerType /\ Synced' /\ row'.mutated
  BY <1>1 DEF Moves, Synced
<1>4. \A e \in Before(worker.i) : IsOriginal(e)'
  <2>1. Before(worker.i) \subseteq E \ {Current}
    BY <1>1, Around
  <2>. QED
    BY <1>1, <2>1 DEF IsOriginal, Runs
<1>5. RestorePhase'
  BY <1>2, <1>4 DEF RestorePhase, Restoring
<1>. QED
  BY <1>1, <1>2, <1>3, <1>5, RestoringPlaces DEF Restoring

(* RestoreName: an untouched original is as inspected.                     *)
LEMMA RestoreNameKeeps ==
    ASSUME Runs, RestoreName
    PROVE  ReplacementInv'
<1>. DEFINE x == [original[Current] EXCEPT !.name = "own"]
<1>1. /\ worker.at = "restore" /\ Current \in E /\ worker.i \in 1..Len(order)
      /\ row.mutated /\ row.touched = worker.touched
      /\ UNCHANGED <<row, replacement, disturbed>>
      /\ \A e \in Before(worker.i) : IsOriginal(e)
  BY Running DEF RestoreName, Mutating, Restoring, Place, RestorePhase, OriginalBecomes,
                 engine, Synced
<1>2. CASE Current \notin worker.touched /\ NextOriginal /\ UNCHANGED engine
  <2>1. SameJournal /\ Keeps
    BY <1>1, <1>2, Running, QuietKeeps DEF SameJournal, engine
  <2>2. IsOriginal(Current)
    BY <1>1, <1>2, Running DEF Core
  <2>3. \A e \in Before(worker.i) \cup {Current} : IsOriginal(e)'
    BY <1>1, <1>2, <2>2 DEF IsOriginal, Runs, engine
  <2>. QED
    BY <1>1, <1>2, <2>1, <2>3, NextOriginalKeeps
<1>3. CASE NotRestored /\ UNCHANGED engine
  <2>1. SameJournal /\ Keeps
    BY <1>1, <1>3, Running, QuietKeeps DEF SameJournal, engine
  <2>. QED
    BY <1>3, <2>1, NotRestoredKeeps
<1>4. ASSUME Current \in worker.touched,
             ~(replacement[Current].there /\ original[Current].name = "backup"),
             OriginalBecomes(Current, x, Goto("reattach"), NotRestored)
      PROVE  ReplacementInv'
  <2>1. x \in OriginalType /\ x.there = original[Current].there /\ x.name = "own"
    <3>1. original[Current] \in OriginalType
      BY <1>1, Running DEF EngineTyped
    <3>. QED
      BY <3>1 DEF OriginalType
  <2>2. ~replacement[Current].there
    BY <1>1, <1>4, Running DEF Core, Exclusive
  <2>3. \/ original' = [original EXCEPT ![Current] = x] /\ Goto("reattach")
        \/ original' \in {original, [original EXCEPT ![Current] = x]} /\ NotRestored
    BY <1>4 DEF OriginalBecomes
  <2>. HIDE DEF x
  <2>4. /\ Keeps /\ SameJournal
        /\ original' = [original EXCEPT ![Current] = x] =>
               \A e \in E : original'[e] = IF e = Current THEN x ELSE original[e]
    BY <1>1, <1>4, <2>1, <2>2, <2>3, OriginalCall
  <2>5. CASE original' = [original EXCEPT ![Current] = x] /\ Goto("reattach")
    <3>1. Moves("reattach", worker.i, worker.verdict)
      BY <2>5, Running, GotoMoves DEF Steps
    <3>. QED
      BY <1>1, <1>4, <2>1, <2>2, <2>4, <2>5, <3>1, RestoringGoesOn DEF Restoring
  <2>. QED
    BY <2>3, <2>4, <2>5, NotRestoredKeeps
<1>. QED
  BY <1>2, <1>3, <1>4 DEF RestoreName

(* After its name is back.                                                 *)
LEMMA RestoringFacts ==
    ASSUME Runs, worker.at \in Restoring \ {"restore"}
    PROVE  /\ Current \in E /\ worker.i \in 1..Len(order) /\ row.mutated
           /\ \A e \in Before(worker.i) : IsOriginal(e)
           /\ original[Current].name = "own" /\ ~replacement[Current].there
           /\ Current \in row.touched
           /\ worker.at \in {"restart", "settle"} => original[Current].attached
           /\ worker.at = "settle" => IsOriginal(Current)
           /\ original[Current].there
<1>1. Current \in E /\ worker.i \in 1..Len(order) /\ row.mutated /\ RestorePhase
  BY Running DEF Mutating, Restoring, Place
<1>2. original[Current].there
  BY <1>1, Running DEF Core, Holds
<1>. QED
  BY <1>1, <1>2 DEF RestorePhase, Restoring

(* RestoreNetworks.                                                        *)
LEMMA RestoreNetworksKeeps ==
    ASSUME Runs, RestoreNetworks
    PROVE  ReplacementInv'
<1>. DEFINE x == [original[Current] EXCEPT !.attached = TRUE]
<1>1. /\ worker.at = "reattach" /\ Current \in E
      /\ original[Current].name = "own" /\ ~replacement[Current].there /\ Current \in row.touched
      /\ UNCHANGED <<row, replacement, disturbed>>
  BY RestoringFacts DEF RestoreNetworks, Restoring, OriginalBecomes
<1>2. /\ x \in OriginalType /\ x.there = original[Current].there /\ x.name = "own"
      /\ x.attached
  BY <1>1, Running DEF OriginalType, EngineTyped
<1>3. \/ original' = [original EXCEPT ![Current] = x] /\ Goto("restart")
      \/ original' \in {original, [original EXCEPT ![Current] = x]} /\ NotRestored
  BY DEF RestoreNetworks, OriginalBecomes
<1>. HIDE DEF x
<1>4. /\ Keeps /\ SameJournal
      /\ original' = [original EXCEPT ![Current] = x] =>
             \A e \in E : original'[e] = IF e = Current THEN x ELSE original[e]
  BY <1>1, <1>2, <1>3, OriginalCall
<1>5. CASE original' = [original EXCEPT ![Current] = x] /\ Goto("restart")
  <2>1. Moves("restart", worker.i, worker.verdict)
    BY <1>5, Running, GotoMoves DEF Steps
  <2>. QED
    BY <1>1, <1>2, <1>4, <1>5, <2>1, RestoringGoesOn DEF Restoring
<1>. QED
  BY <1>3, <1>4, <1>5, NotRestoredKeeps

(* RestoreRunning: with this the original is as inspected.                 *)
LEMMA RestoreRunningKeeps ==
    ASSUME Runs, RestoreRunning
    PROVE  ReplacementInv'
<1>. DEFINE x == [original[Current] EXCEPT !.up = TRUE]
<1>1. /\ worker.at = "restart" /\ Current \in E
      /\ original[Current].name = "own" /\ ~replacement[Current].there /\ Current \in row.touched
      /\ original[Current].attached /\ original[Current].there
      /\ UNCHANGED <<row, replacement, disturbed>>
  BY RestoringFacts DEF RestoreRunning, Restoring, OriginalBecomes, engine
<1>2. CASE Current \in project.running
  <2>1. /\ x \in OriginalType /\ x.there = original[Current].there /\ x.name = "own"
        /\ x.attached /\ x.up
    BY <1>1, Running DEF OriginalType, EngineTyped
  <2>2. \/ original' = [original EXCEPT ![Current] = x] /\ Goto("settle")
        \/ original' \in {original, [original EXCEPT ![Current] = x]} /\ NotRestored
    BY <1>2 DEF RestoreRunning, OriginalBecomes
  <2>. HIDE DEF x
  <2>3. /\ Keeps /\ SameJournal
        /\ original' = [original EXCEPT ![Current] = x] =>
               \A e \in E : original'[e] = IF e = Current THEN x ELSE original[e]
    BY <1>1, <2>1, <2>2, OriginalCall
  <2>4. CASE original' = [original EXCEPT ![Current] = x] /\ Goto("settle")
    <3>1. Moves("settle", worker.i, worker.verdict)
      BY <2>4, Running, GotoMoves DEF Steps
    <3>2. \A e \in {Current} : IsOriginal(e)'
      BY <1>1, <1>2, <2>1, <2>3, <2>4 DEF IsOriginal, Runs
    <3>. QED
      BY <1>1, <2>1, <2>3, <2>4, <3>1, <3>2, RestoringGoesOn DEF Restoring
  <2>. QED
    BY <2>2, <2>3, <2>4, NotRestoredKeeps
<1>3. CASE Current \notin project.running
  <2>1. /\ UNCHANGED <<original, replacement>>
        /\ IF original[Current].up THEN NotRestored ELSE Goto("settle")
    BY <1>3 DEF RestoreRunning, engine
  <2>2. SameJournal /\ Keeps
    BY <1>1, <2>1, Running, QuietKeeps DEF SameJournal
  <2>3. CASE ~original[Current].up /\ Goto("settle")
    <3>1. Moves("settle", worker.i, worker.verdict)
      BY <2>3, Running, GotoMoves DEF Steps
    <3>2. \A e \in {Current} : IsOriginal(e)'
      <4>1. original[Current].up = FALSE
        BY <1>1, <2>3, Running DEF EngineTyped, OriginalType
      <4>2. original[Current].up = (Current \in project.running)
        <5>. HIDE DEF x
        <5>1. (Current \in project.running) = FALSE
          BY <1>3
        <5>. QED
          BY <4>1, <5>1
      <4>. QED
        BY <1>1, <2>1, <4>2 DEF IsOriginal, Runs
    <3>. QED
      BY <1>1, <2>1, <2>2, <3>1, <3>2, RestoringGoesOn DEF Restoring
  <2>. QED
    BY <2>1, <2>2, <2>3, NotRestoredKeeps
<1>. QED
  BY <1>2, <1>3

(* AwaitOriginal: on to the next.                                          *)
LEMMA AwaitOriginalKeeps ==
    ASSUME Runs, AwaitOriginal
    PROVE  ReplacementInv'
<1>1. /\ UNCHANGED <<row, original, replacement, disturbed>> /\ row.mutated
      /\ worker.i \in 1..Len(order) /\ IsOriginal(Current)
      /\ \A e \in Before(worker.i) : IsOriginal(e)
  BY RestoringFacts DEF AwaitOriginal, Restoring, engine
<1>2. SameJournal /\ Keeps
  BY <1>1, Running, QuietKeeps DEF SameJournal
<1>3. \A e \in Before(worker.i) \cup {Current} : IsOriginal(e)'
  BY <1>1 DEF IsOriginal, Runs
<1>. QED
  BY <1>1, <1>2, <1>3, NextOriginalKeeps, NotRestoredKeeps DEF AwaitOriginal

(* ReserveOriginal: every original is back.                                *)
LEMMA ReserveOriginalKeeps ==
    ASSUME Runs, ReserveOriginal
    PROVE  ReplacementInv'
<1>1. UNCHANGED <<row, original, replacement, disturbed>> /\ \A e \in E : IsOriginal(e)
  BY Running DEF ReserveOriginal, engine, Place, RestorePhase
<1>2. SameJournal /\ Keeps
  BY <1>1, Running, QuietKeeps DEF SameJournal
<1>3. CASE Settle("rolled_back", "recording")
  <2>1. Moves("recording", worker.i, "rolled_back")
    BY <1>3, Running, SettleMoves DEF Steps, Outcomes
  <2>2. Holds("rolled_back")'
    BY <1>1, <1>2, Verdicts DEF IsOriginal, Runs
  <2>. QED
    BY <1>1, <1>2, <2>1, <2>2, Running, PlainPlaces DEF Moves, Synced
<1>. QED
  BY <1>2, <1>3, NotRestoredKeeps DEF ReserveOriginal

----------------------------------------------------------------------------
(* The host, the observer, and the invariant.                              *)

(* The phases of a worker say nothing once it is gone, or before it runs.  *)
LEMMA NoPhase ==
    ASSUME worker' = worker, worker.at \in {"none", "gone"}
    PROVE  /\ StopPhase' /\ CreatePhase' /\ RestorePhase'
           /\ worker'.at \notin Mutating \cup {"own", "recording", "close"}
  BY DEF StopPhase, CreatePhase, RestorePhase, Stopping, Creating, Restoring, Mutating

(* The preview.                                                            *)
LEMMA InitHolds ==
    ASSUME Init
    PROVE  ReplacementInv
<1>1. order \in Seq(E)
  BY ProjectsAssumption, ScopedOrderIsRight DEF Init, E
<1>2. row \in RowType
  BY DEF Init, RowType, Stages, Outcomes
<1>3. worker \in WorkerType
  <2>1. 0 \in 0..Len(order)
    BY <1>1
  <2>. QED
    BY <2>1 DEF Init, WorkerType, Steps, Operations, Outcomes
<1>4. Admitted
  BY <1>1 DEF Init, Admitted, Mutating, Stopping, Creating, Restoring
<1>5. \A e \in E : /\ original[e] = [name |-> "own", attached |-> TRUE,
                                     up |-> e \in project.running, there |-> TRUE]
                   /\ replacement[e] = [there |-> FALSE, up |-> FALSE, same |-> FALSE]
  BY DEF Init, Inspected, NoReplacement, Absent, E
<1>6. EngineTyped
  <2>1. \A e \in E : original[e] \in OriginalType /\ replacement[e] \in ReplacementType
    <3>. SUFFICES ASSUME NEW e \in E
                  PROVE  original[e] \in OriginalType /\ replacement[e] \in ReplacementType
      OBVIOUS
    <3>. DEFINE b == e \in project.running
    <3>1. b \in BOOLEAN
      OBVIOUS
    <3>2. /\ original[e] = [name |-> "own", attached |-> TRUE, up |-> b, there |-> TRUE]
          /\ replacement[e] = [there |-> FALSE, up |-> FALSE, same |-> FALSE]
      BY <1>5
    <3>. HIDE DEF b
    <3>. QED
      BY <3>1, <3>2 DEF OriginalType, ReplacementType
  <2>2. original = [e \in E |-> original[e]] /\ replacement = [e \in E |-> replacement[e]]
    BY DEF Init, Inspected, NoReplacement, E
  <2>. QED
    BY <2>1, <2>2 DEF EngineTyped, Init
<1>7. \A e \in E : /\ IsOriginal(e) /\ original[e].there
                   /\ ~replacement[e].there /\ ~replacement[e].up
  <2>. SUFFICES ASSUME NEW e \in E
                PROVE  /\ IsOriginal(e) /\ original[e].there
                       /\ ~replacement[e].there /\ ~replacement[e].up
    OBVIOUS
  <2>. DEFINE b == e \in project.running
  <2>1. /\ original[e] = [name |-> "own", attached |-> TRUE, up |-> b, there |-> TRUE]
        /\ replacement[e] = [there |-> FALSE, up |-> FALSE, same |-> FALSE]
    BY <1>5
  <2>2. original[e].up = b /\ original[e].name = "own" /\ original[e].attached
        /\ original[e].there /\ ~replacement[e].there /\ ~replacement[e].up
    <3>. HIDE DEF b
    <3>. QED
      BY <2>1
  <2>. QED
    BY <2>2 DEF IsOriginal
<1>8. Core
  <2>1. Exclusive /\ \A e \in E : ~replacement[e].there
    BY <1>7 DEF Exclusive
  <2>2. Holds(row.outcome)
    BY <1>7 DEF Holds, Init
  <2>. QED
    BY <1>7, <2>1, <2>2 DEF Core, Init
<1>9. Place
  BY DEF Place, Synced, Init, StopPhase, CreatePhase, RestorePhase, Stopping, Creating,
         Restoring, Mutating
<1>. QED
  BY <1>2, <1>3, <1>4, <1>6, <1>8, <1>9, Parts

(* Submit: what is confirmed has an order of all its containers.           *)
LEMMA SubmitKeeps ==
    ASSUME ReplacementInv, NEW op \in Operations, NEW scheduled \in BOOLEAN,
           Submit(op, scheduled)
    PROVE  ReplacementInv'
<1>1. row \in RowType /\ worker \in WorkerType /\ EngineTyped /\ Admitted /\ Core /\ Place
  BY Parts
<1>2. UNCHANGED <<project, order, original, replacement, disturbed>>
      /\ row.status = "none" /\ project \in Confirmed /\ Assessed(project)
  BY DEF Submit, engine
<1>3. worker.at = "none" /\ order = ScopedOrder(project) /\ order \in Seq(E)
  BY <1>1, <1>2 DEF Admitted
<1>4. E' = E /\ RowType' = RowType /\ WorkerType' = WorkerType /\ EngineTyped'
  BY <1>1, <1>2, SameTypes DEF EngineTyped
<1>5. /\ row' \in RowType /\ row'.status = "running" /\ row'.outcome = row.outcome
      /\ row'.mutated = row.mutated /\ row'.touched = row.touched /\ row'.made = row.made
  BY <1>1 DEF Submit, RowType
<1>6. /\ worker' \in WorkerType /\ worker'.at = "preparing" /\ worker'.mutated = worker.mutated
      /\ worker'.touched = worker.touched /\ worker'.made = worker.made
  BY <1>1 DEF Submit, WorkerType, Steps
<1>7. E # {} /\ IsInjective(order) /\ Range(order) = E
  BY <1>2, <1>3, ProjectsAssumption, ScopedOrderIsRight DEF E, Assessed
<1>8. OneShot(project) \cap project.running = {}
  BY <1>2 DEF OneShot, Assessed
<1>9. Admitted'
  BY <1>2, <1>3, <1>4, <1>5, <1>6, <1>7, <1>8
     DEF Admitted, Mutating, Stopping, Creating, Restoring
<1>10. Core'
  <2>1. \A e : (IsOriginal(e)' <=> IsOriginal(e)) /\ (IsReplaced(e)' <=> IsReplaced(e))
    BY <1>2 DEF IsOriginal, IsReplaced
  <2>2. row.outcome = "" /\ Holds(row.outcome)
    BY <1>1, <1>2 DEF Core
  <2>3. Holds(row.outcome)'
    BY <1>2, <1>4, <1>5, <2>2 DEF Holds
  <2>4. Exclusive'
    BY <1>1, <1>2, <1>4 DEF Core, Exclusive
  <2>. QED
    BY <1>1, <1>2, <1>4, <1>5, <2>1, <2>2, <2>3, <2>4 DEF Core
<1>11. Place'
  <2>1. ~row.mutated /\ Synced
    BY <1>1, <1>3 DEF Place, Early
  <2>. QED
    BY <1>5, <1>6, <2>1 DEF Place, Synced, StopPhase, CreatePhase, RestorePhase, Stopping,
                            Creating, Restoring, Mutating
<1>. QED
  BY <1>4, <1>5, <1>6, <1>9, <1>10, <1>11, Parts

(* AcknowledgeRecovery: a review claims nothing of the Engine.             *)
LEMMA AcknowledgeKeeps ==
    ASSUME ReplacementInv, AcknowledgeRecovery
    PROVE  ReplacementInv'
<1>1. row \in RowType /\ worker \in WorkerType /\ EngineTyped /\ Admitted /\ Core /\ Place
  BY Parts
<1>2. UNCHANGED <<project, order, worker, original, replacement, disturbed>>
      /\ worker.at = "gone" /\ row.outcome = "recovery_required"
  BY DEF AcknowledgeRecovery, engine
<1>3. E' = E /\ RowType' = RowType /\ WorkerType' = WorkerType /\ EngineTyped'
  BY <1>1, <1>2, SameTypes DEF EngineTyped
<1>4. /\ row' \in RowType /\ row'.status = row.status /\ row'.outcome = "recovery_acknowledged"
      /\ row'.mutated = row.mutated /\ row'.touched = row.touched /\ row'.made = row.made
  BY <1>1 DEF AcknowledgeRecovery, RowType, Outcomes
<1>5. Admitted'
  BY <1>1, <1>2, <1>3, <1>4 DEF Admitted
<1>6. Core'
  <2>1. \A e : (IsOriginal(e)' <=> IsOriginal(e))
    BY <1>2 DEF IsOriginal
  <2>2. Holds(row.outcome)'
    BY <1>1, <1>2, <1>3, <1>4 DEF Holds, Core
  <2>3. Exclusive'
    BY <1>1, <1>2, <1>3 DEF Core, Exclusive
  <2>. QED
    BY <1>1, <1>2, <1>3, <1>4, <2>1, <2>2, <2>3 DEF Core
<1>7. Place'
  BY <1>2, NoPhase DEF Place, Early
<1>. QED
  BY <1>1, <1>2, <1>3, <1>4, <1>5, <1>6, <1>7, Parts

(* RemoveOriginal: a retained original is not needed where it is replaced. *)
LEMMA RemoveOriginalKeeps ==
    ASSUME ReplacementInv, NEW c \in E, RemoveOriginal(c)
    PROVE  ReplacementInv'
<1>. DEFINE x == [original[c] EXCEPT !.there = FALSE]
<1>1. row \in RowType /\ worker \in WorkerType /\ EngineTyped /\ Admitted /\ Core /\ Place
  BY Parts
<1>2. UNCHANGED <<project, order, row, worker, replacement, disturbed>>
      /\ worker.at = "gone" /\ row.outcome \in {"verified", "reconciled"}
      /\ original[c].name = "backup"
      /\ original' = [original EXCEPT ![c] = x]
  BY DEF RemoveOriginal
<1>3. /\ E' = E /\ RowType' = RowType /\ WorkerType' = WorkerType
      /\ OriginalType' = OriginalType /\ ReplacementType' = ReplacementType
  BY <1>2, SameTypes
<1>4. x \in OriginalType /\ ~x.there /\ x.name = original[c].name /\ x.up = original[c].up
  BY <1>1 DEF EngineTyped, OriginalType
<1>. HIDE DEF x
<1>5. \A e \in E : original'[e] = IF e = c THEN x ELSE original[e]
  BY <1>1, <1>2 DEF EngineTyped
<1>6. EngineTyped'
  BY <1>1, <1>2, <1>3, <1>4 DEF EngineTyped
<1>7. Admitted'
  BY <1>1, <1>2, <1>3 DEF Admitted
<1>8. Core'
  <2>1. \A e \in E \ row.touched : IsOriginal(e) /\ e # c
    BY <1>1, <1>2 DEF Core, IsOriginal
  <2>2. \A e \in E \ row.touched : IsOriginal(e)'
    BY <1>2, <1>5, <2>1 DEF IsOriginal
  <2>3. \A e \in E : IsReplaced(e)
    BY <1>1, <1>2 DEF Core, Holds
  <2>4. \A e \in E : IsReplaced(e)'
    BY <1>2, <1>4, <1>5, <2>3 DEF IsReplaced
  <2>5. Holds(row.outcome)'
    BY <1>2, <1>3, <2>4 DEF Holds
  <2>6. Exclusive'
    <3>1. Exclusive
      BY <1>1 DEF Core
    <3>. QED
      BY <1>2, <1>3, <1>4, <1>5, <3>1 DEF Exclusive
  <2>. QED
    BY <1>1, <1>2, <1>3, <2>2, <2>5, <2>6 DEF Core
<1>9. Place'
  BY <1>2, NoPhase DEF Place, Early
<1>. QED
  BY <1>1, <1>2, <1>3, <1>6, <1>7, <1>8, <1>9, Parts

(* The host starts or stops a container behind the worker's back.          *)
LEMMA HostActsKeeps ==
    ASSUME ReplacementInv, NEW c \in E, HostActs(c)
    PROVE  ReplacementInv'
<1>1. row \in RowType /\ worker \in WorkerType /\ EngineTyped /\ Admitted /\ Core /\ Place
  BY Parts
<1>2. UNCHANGED <<project, order, row, worker>> /\ disturbed' = disturbed \cup {c}
  BY DEF HostActs
<1>3. /\ E' = E /\ RowType' = RowType /\ WorkerType' = WorkerType
      /\ OriginalType' = OriginalType /\ ReplacementType' = ReplacementType
  BY <1>2, SameTypes
\* All but the running state of the container stays.
<1>4. /\ original' \in [E -> OriginalType] /\ replacement' \in [E -> ReplacementType]
      /\ \A e \in E : /\ original'[e].there = original[e].there
                      /\ original'[e].name = original[e].name
                      /\ original'[e].attached = original[e].attached
                      /\ replacement'[e].there = replacement[e].there
                      /\ replacement'[e].same = replacement[e].same
                      /\ e # c => original'[e].up = original[e].up
                                  /\ replacement'[e].up = replacement[e].up
      /\ replacement'[c].up => replacement'[c].there
  <2>1. CASE original' = [original EXCEPT ![c].up = ~@] /\ UNCHANGED replacement
    <3>. DEFINE x == [original[c] EXCEPT !.up = ~@]
    <3>1. /\ x \in OriginalType /\ x.there = original[c].there /\ x.name = original[c].name
          /\ x.attached = original[c].attached
      BY <1>1 DEF EngineTyped, OriginalType
    <3>2. original' = [original EXCEPT ![c] = x]
      BY <2>1
    <3>. HIDE DEF x
    <3>3. original \in [E -> OriginalType] /\ replacement \in [E -> ReplacementType]
          /\ (replacement[c].up => replacement[c].there)
      BY <1>1 DEF EngineTyped, Core, Exclusive
    <3>. QED
      BY <2>1, <3>1, <3>2, <3>3
  <2>2. CASE /\ replacement[c].there
             /\ replacement' = [replacement EXCEPT ![c].up = ~@] /\ UNCHANGED original
    <3>. DEFINE x == [replacement[c] EXCEPT !.up = ~@]
    <3>1. /\ x \in ReplacementType /\ x.there = replacement[c].there
          /\ x.same = replacement[c].same
      BY <1>1 DEF EngineTyped, ReplacementType
    <3>2. replacement' = [replacement EXCEPT ![c] = x]
      BY <2>2
    <3>. HIDE DEF x
    <3>3. original \in [E -> OriginalType] /\ replacement \in [E -> ReplacementType]
      BY <1>1 DEF EngineTyped
    <3>. QED
      BY <2>2, <3>1, <3>2, <3>3
  <2>. QED
    BY <2>1, <2>2 DEF HostActs
<1>5. EngineTyped'
  BY <1>1, <1>2, <1>3, <1>4 DEF EngineTyped
<1>6. Admitted'
  BY <1>1, <1>2, <1>3 DEF Admitted
<1>7. \A e \in E : /\ IsOriginal(e) => IsOriginal(e)'
                   /\ IsReplaced(e) => IsReplaced(e)'
                   /\ Retained(e) => Retained(e)'
  BY <1>2, <1>4 DEF IsOriginal, IsReplaced, Retained
<1>8. Core'
  <2>1. Exclusive'
    <3>1. Exclusive
      BY <1>1 DEF Core
    <3>. QED
      BY <1>2, <1>3, <1>4, <3>1 DEF Exclusive
  <2>2. Holds(row.outcome)'
    BY <1>1, <1>2, <1>3, <1>4, <1>7 DEF Core, Holds
  <2>3. \A a, b \in {e \in E' : replacement'[e].there} \ row'.made : a = b
    <3>1. \A a, b \in {e \in E : replacement[e].there} \ row.made : a = b
      BY <1>1 DEF Core
    <3>. QED
      BY <1>2, <1>3, <1>4, <3>1
  <2>4. \A e \in E \ row.touched : IsOriginal(e)'
    BY <1>1, <1>7 DEF Core
  <2>. QED
    BY <1>1, <1>2, <1>3, <2>1, <2>2, <2>3, <2>4 DEF Core
<1>9. /\ Current' = Current
      /\ Before(worker.i)' = Before(worker.i) /\ After(worker.i)' = After(worker.i)
  BY <1>2 DEF Current, Before, After
<1>10. worker.at \in Stopping \cup Creating \cup Restoring =>
           /\ Current \in E /\ Before(worker.i) \subseteq E /\ After(worker.i) \subseteq E
  <2>. SUFFICES ASSUME worker.at \in Stopping \cup Creating \cup Restoring
                PROVE  /\ Current \in E /\ Before(worker.i) \subseteq E
                       /\ After(worker.i) \subseteq E
    OBVIOUS
  <2>1. worker.at \in Mutating \ {"verifying", "verify", "rolling"}
        /\ worker.at \notin {"none", "gone"}
    BY DEF Mutating, Stopping, Creating, Restoring
  <2>2. Runs
    BY <1>2, <2>1 DEF Runs
  <2>. QED
    BY <2>1, <2>2, Running, Around
<1>11. StopPhase'
  <2>. SUFFICES ASSUME worker.at \in Stopping PROVE StopPhase'
    BY <1>2 DEF StopPhase
  <2>1. StopPhase /\ Current \in E /\ After(worker.i) \subseteq E
    BY <1>1, <1>10 DEF Place
  <2>2. \A e \in After(worker.i) : Retained(e)'
    BY <1>7, <2>1 DEF StopPhase
  <2>3. \A e \in E' : ~replacement'[e].there
    BY <1>3, <1>4, <2>1 DEF StopPhase
  <2>. QED
    BY <1>2, <1>4, <1>9, <2>1, <2>2, <2>3 DEF StopPhase
<1>12. CreatePhase'
  <2>. SUFFICES ASSUME worker.at \in Creating PROVE CreatePhase'
    BY <1>2 DEF CreatePhase
  <2>1. /\ CreatePhase /\ Current \in E /\ Before(worker.i) \subseteq E
        /\ After(worker.i) \subseteq E
    BY <1>1, <1>10 DEF Place
  <2>2. \A e \in E' : Retained(e)'
    BY <1>3, <1>7, <2>1 DEF CreatePhase
  <2>3. \A e \in Before(worker.i) \ disturbed' : e \in project'.running => replacement'[e].up
    BY <1>2, <1>4, <2>1 DEF CreatePhase
  <2>4. \A e \in After(worker.i) : ~replacement'[e].there
    BY <1>4, <2>1 DEF CreatePhase
  <2>. QED
    BY <1>2, <1>4, <1>9, <2>1, <2>2, <2>3, <2>4 DEF CreatePhase
<1>13. RestorePhase'
  <2>1. RestorePhase
    BY <1>1 DEF Place
  <2>2. worker.at = "disown" => \A e \in E' : IsOriginal(e)'
    BY <1>3, <1>7, <2>1 DEF RestorePhase
  <2>3. worker.at \in Restoring => \A e \in Before(worker.i) : IsOriginal(e)'
    BY <1>7, <1>10, <2>1 DEF RestorePhase
  <2>4. worker.at = "settle" => \A e \in {Current} : IsOriginal(e)'
    BY <1>7, <1>10, <2>1 DEF RestorePhase, Restoring
  <2>. QED
    BY <1>2, <1>4, <1>9, <1>10, <2>1, <2>2, <2>3, <2>4 DEF RestorePhase
<1>14. Place'
  <2>1. worker.at \in {"recording", "close"} => Holds(worker.verdict)'
    BY <1>1, <1>2, <1>3, <1>4, <1>7 DEF Place, Holds
  <2>. QED
    BY <1>1, <1>2, <1>3, <1>7, <1>11, <1>12, <1>13, <2>1 DEF Place, Synced
<1>. QED
  BY <1>1, <1>2, <1>3, <1>5, <1>6, <1>8, <1>14, Parts

(* The invariant.                                                          *)
LEMMA ForwardKeeps ==
    ASSUME ReplacementInv, Forward
    PROVE  ReplacementInv'
<1>1. Runs
  BY DEF Runs, Forward, Prepare, Pull, Candidate, BeginReplacing, Touch, StopOriginal,
         RetainOriginal, DetachOriginal, CreateReplacement, RecordReplacement,
         ReserveReplacement, StartReplacement, AwaitReplacement, BeginVerifying, Verify,
         Own, Record, Close
<1>. QED
  BY <1>1, PrepareKeeps, PullKeeps, CandidateKeeps, BeginReplacingKeeps, TouchKeeps,
     StopOriginalKeeps, RetainOriginalKeeps, DetachOriginalKeeps, CreateReplacementKeeps,
     RecordReplacementKeeps, ReserveReplacementKeeps, StartReplacementKeeps,
     AwaitReplacementKeeps, BeginVerifyingKeeps, VerifyKeeps, OwnKeeps, RecordKeeps, CloseKeeps
     DEF Forward

(* Every step of the rollback.                                             *)
LEMMA BackwardKeeps ==
    ASSUME ReplacementInv, Backward
    PROVE  ReplacementInv'
<1>1. Runs
  BY DEF Runs, Backward, BeginRollback, RemoveReplacement, RestoreName, RestoreNetworks,
         RestoreRunning, AwaitOriginal, ReserveOriginal
<1>. QED
  BY <1>1, BeginRollbackKeeps, RemoveReplacementKeeps, RestoreNameKeeps, RestoreNetworksKeeps,
     RestoreRunningKeeps, AwaitOriginalKeeps, ReserveOriginalKeeps DEF Backward

(* Nothing happens.                                                        *)
LEMMA StutterKeeps ==
    ASSUME ReplacementInv, UNCHANGED vars
    PROVE  ReplacementInv'
<1>1. UNCHANGED <<project, order, row, worker, original, replacement, disturbed>>
  BY DEF vars
<1>2. /\ E' = E /\ \A e : (IsOriginal(e)' <=> IsOriginal(e)) /\ (IsReplaced(e)' <=> IsReplaced(e))
                          /\ (Retained(e)' <=> Retained(e))
      /\ \A v : Holds(v)' <=> Holds(v)
  BY <1>1 DEF IsOriginal, IsReplaced, Retained, Holds, E
<1>3. TypeOK' /\ Admitted' /\ Exclusive'
  BY <1>1, <1>2 DEF ReplacementInv, TypeOK, Admitted, Exclusive
<1>4. Journalled' /\ ResultPhase'
  BY <1>1, <1>2 DEF ReplacementInv, Journalled, ResultPhase
<1>5. StopPhase' /\ CreatePhase' /\ RestorePhase'
  <2>1. Current' = Current /\ Before(worker.i)' = Before(worker.i)
        /\ After(worker.i)' = After(worker.i)
    BY <1>1 DEF Current, Before, After
  <2>. QED
    BY <1>1, <1>2, <2>1 DEF ReplacementInv, StopPhase, CreatePhase, RestorePhase
<1>. QED
  BY <1>3, <1>4, <1>5 DEF ReplacementInv

(* ReplacementInv is inductive: by its program counter the worker of       *)
(* internal/recreate has retained, created or put back what it should have,*)
(* the job row tells it from the Engine, and every verdict is true when it *)
(* is passed and stays so.                                                 *)
THEOREM Invariance == Spec => []ReplacementInv
<1>1. Init => ReplacementInv
  BY InitHolds
<1>2. ReplacementInv /\ [Next]_vars => ReplacementInv'
  <2>. SUFFICES ASSUME ReplacementInv, [Next]_vars
                PROVE  ReplacementInv'
    OBVIOUS
  <2>1. ASSUME NEW op \in Operations, NEW scheduled \in BOOLEAN, Submit(op, scheduled)
        PROVE  ReplacementInv'
    BY <2>1, SubmitKeeps
  <2>2. CASE WorkerDies
    BY <2>2, WorkerDiesKeeps DEF Runs, WorkerDies
  <2>3. ASSUME NEW e \in E, RemoveOriginal(e) \/ HostActs(e)
        PROVE  ReplacementInv'
    BY <2>3, RemoveOriginalKeeps, HostActsKeeps
  <2>. QED
    BY <2>1, <2>2, <2>3, ForwardKeeps, BackwardKeeps, ObserveKeeps, AcknowledgeKeeps,
       StutterKeeps DEF Next
<1>. QED
  BY <1>1, <1>2, PTL DEF Spec

----------------------------------------------------------------------------
(* Types, what runs, and what the journal tells.                           *)

(* Types hold.                                                             *)
THEOREM TypeCorrect == Spec => []TypeOK
  BY Invariance, PTL DEF ReplacementInv

(* An original and its replacement never run at once, whatever fails or    *)
(* dies, unless the host started one of them (Worker.replace and rollback).*)
THEOREM OneOfTwoRuns == Spec => []NeverBothRunning
<1>1. ReplacementInv => NeverBothRunning
  BY DEF ReplacementInv, Exclusive, NeverBothRunning
<1>. QED
  BY <1>1, Invariance, PTL

(* At most one element.                                                    *)
LEMMA AtMostOne ==
    ASSUME NEW S, \A a, b \in S : a = b
    PROVE  Cardinality(S) <= 1
<1>1. CASE S = {}
  BY <1>1, FS_EmptySet
<1>2. CASE S # {}
  <2>1. PICK x : S = {x}
    BY <1>2
  <2>. QED
    BY <2>1, FS_Singleton
<1>. QED
  BY <1>1, <1>2

(* The row of a job is enough to find out what was done: what is not as    *)
(* inspected is journalled as touched, and at most one replacement is not  *)
(* known by its ID (the journal of internal/recreate, saved before each    *)
(* change and after each creation).                                        *)
THEOREM JournalTellsAll == Spec => []JournalIsAhead
<1>1. ReplacementInv => JournalIsAhead
  <2>. SUFFICES ASSUME ReplacementInv PROVE JournalIsAhead
    OBVIOUS
  <2>1. Core /\ EngineTyped
    BY Parts
  <2>2. ASSUME NEW e \in E \ disturbed, original[e] # Inspected(project)[e]
        PROVE  row.mutated /\ e \in row.touched
    <3>. DEFINE x == original[e]
                b == e \in project.running
    <3>1. x \in OriginalType
      BY <2>1 DEF EngineTyped
    <3>2. Inspected(project)[e] = [name |-> "own", attached |-> TRUE, up |-> b, there |-> TRUE]
      BY DEF Inspected, E
    <3>3. IsOriginal(e) => x.name = "own" /\ x.attached /\ x.there /\ x.up = b
      BY DEF IsOriginal
    <3>. HIDE DEF b
    <3>4. IsOriginal(e) => x = [name |-> "own", attached |-> TRUE, up |-> b, there |-> TRUE]
      <4>. HIDE DEF x
      <4>. QED
        BY <3>1, <3>3 DEF OriginalType
    <3>5. e \in row.touched
      BY <2>1, <2>2, <3>2, <3>4 DEF Core
    <3>. QED
      BY <2>1, <3>5 DEF Core
  <2>3. Cardinality({e \in E : replacement[e].there} \ row.made) <= 1
    BY <2>1, AtMostOne DEF Core
  <2>. QED
    BY <2>2, <2>3 DEF JournalIsAhead
<1>. QED
  BY <1>1, Invariance, PTL

----------------------------------------------------------------------------
(* The promise, step by step.                                              *)
Mapped == [Promise!Next]_(Promise!vars)

Back == \A e \in E : IsOriginal(e)
Complete == \A e \in E : IsReplaced(e)
Kept == \A e \in E : original[e].there

\* What the mapping makes of a state.
Mapping ==
    /\ ResultOf \in {"none", "replaced", "kept_original", "review", "reviewed"}
    /\ ResultOf = "none" <=> row.status \in {"none", "running"}
    /\ ResultOf = "replaced" <=> row.outcome \in {"verified", "reconciled"}
    /\ row.outcome = "recovery_required" => ResultOf = "review"
    /\ row.outcome = "recovery_acknowledged" <=> ResultOf = "reviewed"
    /\ ResultOf = "replaced" => Complete /\ ~Back
    /\ ResultOf = "kept_original" => Back
    /\ ResultOf # "replaced" => Kept

(* The mapping of a state of the invariant.                                *)
LEMMA StateMaps ==
    ASSUME ReplacementInv
    PROVE  Mapping
<1>1. row \in RowType /\ Admitted /\ Core /\ Place
  BY Parts
<1>2. row.status \in {"none", "running"} <=> row.outcome = ""
  BY <1>1 DEF Core
<1>3. row.outcome \in Outcomes
  BY <1>1 DEF RowType
<1>4. /\ row.outcome = "" => ResultOf = "none"
      /\ row.outcome \in {"verified", "reconciled"} => ResultOf = "replaced"
      /\ row.outcome \in {"unchanged", "skipped", "failed", "rolled_back"} =>
             ResultOf = "kept_original"
      /\ row.outcome = "recovery_required" => ResultOf = "review"
      /\ row.outcome = "recovery_acknowledged" => ResultOf = "reviewed"
  BY <1>2 DEF ResultOf
<1>5. ResultOf = "replaced" => Complete /\ ~Back
  <2>. SUFFICES ASSUME ResultOf = "replaced" PROVE Complete /\ ~Back
    OBVIOUS
  <2>1. row.outcome \in {"verified", "reconciled"}
    BY <1>3, <1>4 DEF Outcomes
  <2>2. Complete
    BY <1>1, <2>1 DEF Core, Holds, Complete
  <2>3. E # {}
    BY <1>1, <1>2, <2>1 DEF Admitted
  <2>. QED
    BY <2>2, <2>3 DEF Complete, Back, IsReplaced, IsOriginal
<1>6. ResultOf = "kept_original" => Back
  BY <1>1, <1>3, <1>4 DEF Core, Holds, Back, Outcomes
<1>7. ResultOf # "replaced" => Kept
  BY <1>1, <1>3, <1>4 DEF Core, Holds, Kept
<1>. QED
  BY <1>2, <1>3, <1>4, <1>5, <1>6, <1>7 DEF Outcomes, Mapping

(* The same of the next state.                                             *)
LEMMA NextStateMaps == ReplacementInv' => Mapping'
<1>1. ReplacementInv => Mapping
  BY StateMaps
<1>. QED
  BY <1>1, PTL

(* A step that leaves the result alone maps to Change, Release or a stutter.*)
LEMMA ResultKept ==
    ASSUME ReplacementInv, ReplacementInv', ResultOf' = ResultOf,
           ResultOf = "replaced" /\ Kept' => Kept
    PROVE  Mapped
<1>1. CASE ResultOf = "replaced"
  <2>1. Complete /\ Complete' /\ ~Back /\ ~Back'
    BY <1>1, StateMaps, NextStateMaps DEF Mapping
  <2>. QED
    BY <1>1, <2>1 DEF Mapped, Promise!Next, Promise!Release, Promise!vars, Kept, Back, Complete
<1>2. CASE ResultOf = "kept_original"
  <2>1. Back /\ Back' /\ Kept /\ Kept'
    BY <1>2, StateMaps, NextStateMaps DEF Mapping
  <2>. QED
    BY <1>2, <2>1 DEF Mapped, Promise!vars, Kept, Back, Complete
<1>3. CASE ResultOf \in {"none", "review", "reviewed"}
  <2>1. Kept /\ Kept'
    BY <1>3, StateMaps, NextStateMaps DEF Mapping
  <2>. QED
    BY <1>3, <2>1 DEF Mapped, Promise!Next, Promise!Change, Promise!Targets, Promise!vars,
                      Kept, Back, Complete
<1>. QED
  BY <1>1, <1>2, <1>3, StateMaps DEF Mapping

(* A row that ends with the Engine left alone maps to Record or AskReview.  *)
LEMMA ResultRecorded ==
    ASSUME ReplacementInv, ReplacementInv', row.status = "running",
           UNCHANGED <<project, original, replacement, disturbed>>,
           row'.status \in {"succeeded", "failed"}, row'.outcome # "recovery_acknowledged"
    PROVE  Mapped
<1>1. /\ Back' <=> Back
      /\ Complete' <=> Complete
      /\ Kept' <=> Kept
  BY DEF Back, Complete, Kept, IsOriginal, IsReplaced, E
<1>2. ResultOf = "none" /\ ResultOf' \in {"replaced", "kept_original", "review"}
  BY StateMaps, NextStateMaps DEF Mapping
<1>3. CASE ResultOf' = "replaced"
  <2>1. Complete' /\ ~Back'
    BY <1>3, StateMaps, NextStateMaps DEF Mapping
  <2>. QED
    BY <1>1, <1>2, <1>3, <2>1 DEF Mapped, Promise!Next, Promise!Record, Promise!vars,
                                  Kept, Back, Complete
<1>4. CASE ResultOf' = "kept_original"
  <2>1. Back'
    BY <1>4, StateMaps, NextStateMaps DEF Mapping
  <2>. QED
    BY <1>1, <1>2, <1>4, <2>1 DEF Mapped, Promise!Next, Promise!Record, Promise!vars,
                                  Kept, Back, Complete
<1>5. CASE ResultOf' = "review"
  BY <1>1, <1>2, <1>5 DEF Mapped, Promise!Next, Promise!AskReview, Promise!vars,
                          Kept, Back, Complete
<1>. QED
  BY <1>2, <1>3, <1>4, <1>5

(* A review maps to Acknowledge.                                           *)
LEMMA ResultReviewed ==
    ASSUME ReplacementInv, ReplacementInv', AcknowledgeRecovery
    PROVE  Mapped
<1>1. /\ Back' <=> Back
      /\ Complete' <=> Complete
      /\ Kept' <=> Kept
  BY DEF Back, Complete, Kept, IsOriginal, IsReplaced, E, AcknowledgeRecovery, engine
<1>2. row'.outcome = "recovery_acknowledged" /\ row'.status = row.status
  BY Parts DEF AcknowledgeRecovery, RowType
<1>3. row.status \notin {"none", "running"}
  BY Parts DEF AcknowledgeRecovery, Core
<1>4. ResultOf = "review" /\ ResultOf' = "reviewed"
  <2>1. Mapping /\ Mapping'
    BY StateMaps, NextStateMaps
  <2>. QED
    BY <1>2, <2>1 DEF AcknowledgeRecovery, Mapping
<1>. QED
  BY <1>1, <1>4 DEF Mapped, Promise!Next, Promise!Acknowledge, Promise!vars,
                    Kept, Back, Complete

(* A step of the worker keeps the row's state, unless it closes the job.   *)
LEMMA WorkersRow ==
    ASSUME ReplacementInv, Forward \/ Backward \/ WorkerDies
    PROVE  /\ row.status = "running"
           /\ \/ row'.status = row.status
              \/ /\ UNCHANGED <<project, original, replacement, disturbed>>
                 /\ row'.status \in {"succeeded", "failed"}
                 /\ row'.outcome # "recovery_acknowledged"
<1>1. Runs
  BY DEF Runs, Forward, Prepare, Pull, Candidate, BeginReplacing, Touch, StopOriginal,
         RetainOriginal, DetachOriginal, CreateReplacement, RecordReplacement,
         ReserveReplacement, StartReplacement, AwaitReplacement, BeginVerifying, Verify,
         Own, Record, Close, Backward, BeginRollback, RemoveReplacement, RestoreName,
         RestoreNetworks, RestoreRunning, AwaitOriginal, ReserveOriginal, WorkerDies
<1>2. row \in RowType /\ worker \in WorkerType /\ row.status = "running"
  BY <1>1, Running
<1>3. CASE Close
  <2>1. worker.verdict # "recovery_acknowledged" /\ worker.verdict \in Outcomes
    BY <1>1, <1>3, Running DEF Place, Close, WorkerType
  <2>2. CASE Finish(worker.verdict)
    BY <1>2, <1>3, <2>1, <2>2, FinishRow DEF Close, engine
  <2>3. CASE UNCHANGED row
    BY <1>2, <2>3
  <2>. QED
    BY <1>2, <1>3, <2>2, <2>3 DEF Close
<1>4. CASE (Forward /\ ~Close) \/ Backward \/ WorkerDies
  <2>1. ASSUME NEW w, NEW stage, NEW next, Save(stage, w, next)
        PROVE  row'.status = row.status
    <3>1. /\ Journal(w).status = row.status
          /\ [Journal(w) EXCEPT !.stage = stage].status = row.status
      BY <1>2 DEF Journal, RowType
    <3>. QED
      BY <2>1, <3>1 DEF Save
  <2>2. CASE Prepare \/ Pull
    BY <1>2, <2>1, <2>2 DEF Prepare, Pull, RowType
  <2>3. CASE BeginReplacing \/ Touch \/ RecordReplacement \/ BeginVerifying \/ Record
    BY <1>2, <2>1, <2>3 DEF BeginReplacing, Touch, RecordReplacement, BeginVerifying, Record
  <2>4. CASE BeginRollback
    BY <1>2, <2>4 DEF BeginRollback, Journal, RowType
  <2>5. CASE Candidate \/ StopOriginal \/ RetainOriginal \/ DetachOriginal \/ CreateReplacement
             \/ ReserveReplacement \/ StartReplacement \/ AwaitReplacement \/ Verify \/ Own
             \/ RemoveReplacement \/ RestoreName \/ RestoreNetworks \/ RestoreRunning
             \/ AwaitOriginal \/ ReserveOriginal \/ WorkerDies
    BY <1>2, <2>5 DEF Candidate, StopOriginal, RetainOriginal, DetachOriginal, CreateReplacement,
                ReserveReplacement, StartReplacement, AwaitReplacement, Verify, Own,
                RemoveReplacement, RestoreName, RestoreNetworks, RestoreRunning,
                AwaitOriginal, ReserveOriginal, WorkerDies
  <2>. QED
    BY <1>2, <1>4, <2>2, <2>3, <2>4, <2>5 DEF Forward, Backward
<1>. QED
  BY <1>2, <1>3, <1>4

(* Every step maps to a step of Replacement or to a stutter.               *)
LEMMA PromiseStep ==
    ASSUME ReplacementInv, ReplacementInv', [Next]_vars
    PROVE  Mapped
<1>1. ASSUME NEW op, NEW scheduled, Submit(op, scheduled)
      PROVE  Mapped
  <2>1. row.status = "none" /\ row'.status = "running"
    BY <1>1, Parts DEF Submit, RowType
  <2>2. ResultOf = "none" /\ ResultOf' = "none"
    BY <2>1, StateMaps, NextStateMaps DEF Mapping
  <2>. QED
    BY <2>2, ResultKept
<1>2. CASE Forward \/ Backward \/ WorkerDies
  <2>1. row.status = "running"
    BY <1>2, WorkersRow
  <2>2. CASE row'.status = row.status
    <3>1. ResultOf = "none" /\ ResultOf' = "none"
      BY <2>1, <2>2, StateMaps, NextStateMaps DEF Mapping
    <3>. QED
      BY <3>1, ResultKept
  <2>. QED
    BY <1>2, <2>2, WorkersRow, ResultRecorded
<1>3. CASE Observe
  <2>1. row' \in RowType /\ row'.status \in {"succeeded", "failed"}
        /\ row'.outcome \in {"reconciled", "recovery_required"}
    BY <1>3, FinishRow, Parts DEF Observe, Outcomes
  <2>. QED
    BY <1>3, <2>1, ResultRecorded DEF Observe, engine
<1>4. ASSUME NEW c \in E, RemoveOriginal(c)
      PROVE  Mapped
  <2>1. UNCHANGED <<row, project>> /\ ~(original'[c].there)
    BY <1>4, Parts DEF RemoveOriginal, EngineTyped, OriginalType
  <2>2. ResultOf' = ResultOf /\ ~Kept'
    BY <2>1 DEF ResultOf, Kept, E
  <2>. QED
    BY <2>2, ResultKept
<1>5. ASSUME NEW c \in E, HostActs(c)
      PROVE  Mapped
  <2>1. UNCHANGED <<row, project>> /\ \A e \in E : original'[e].there = original[e].there
    BY <1>5, Parts DEF HostActs, EngineTyped, OriginalType
  <2>2. ResultOf' = ResultOf /\ (Kept' => Kept)
    BY <2>1 DEF ResultOf, Kept, E
  <2>. QED
    BY <2>2, ResultKept
<1>6. CASE AcknowledgeRecovery
  BY <1>6, ResultReviewed
<1>7. CASE UNCHANGED vars
  <2>1. ResultOf' = ResultOf /\ (Kept' => Kept)
    BY <1>7 DEF vars, ResultOf, Kept, E
  <2>. QED
    BY <2>1, ResultKept
<1>. QED
  BY <1>1, <1>2, <1>3, <1>4, <1>5, <1>6, <1>7 DEF Next

(* Replacement by Engine calls keeps the promise of every replacement:     *)
(* success is recorded only for a complete one, failure without review only*)
(* when every original is back, originals are removed only after success.  *)
THEOREM PromiseIsKept == Spec => PromiseKept
<1>1. ASSUME Init PROVE Promise!Init
  <2>1. ReplacementInv /\ row.status = "none"
    BY <1>1, InitHolds DEF Init
  <2>2. ResultOf = "none" /\ Kept /\ row.touched = {}
    BY <1>1, <2>1, StateMaps DEF Mapping, Init
  <2>3. Back
    BY <2>1, <2>2, Parts DEF Core, Back
  <2>. QED
    BY <2>2, <2>3 DEF Promise!Init, Kept, Back
<1>2. ReplacementInv /\ ReplacementInv' /\ [Next]_vars => [Promise!Next]_(Promise!vars)
  BY PromiseStep DEF Mapped
<1>. QED
  BY <1>1, <1>2, Invariance, PTL DEF Spec, PromiseKept, Promise!Spec

----------------------------------------------------------------------------
(* Dependencies first.                                                     *)

\* What composeorder computes for a confirmed replacement: no container comes
\* before one it depends on.
DependenciesComeFirst ==
    \A p \in Confirmed : Assessed(p) =>
        \A a, b \in 1..Len(ScopedOrder(p)) :
            ScopedOrder(p)[a] \in Dependencies(p, ScopedOrder(p)[b]) => a < b

(* The order of a confirmed replacement is one.                            *)
LEMMA OrderOfConfirmed == DependenciesComeFirst
BY ProjectsAssumption, ScopedOrderIsRight DEF DependenciesComeFirst, Assessed

\* A worker works on a confirmed preview, in the order it was shown.
Previewed ==
    worker.at # "none" => /\ project \in Confirmed /\ Assessed(project)
                          /\ order = ScopedOrder(project)

(* Nothing changes the preview once it is confirmed.                       *)
LEMMA PreviewStands == Spec => []Previewed
<1>1. Init => Previewed
  <2>1. ASSUME Init PROVE worker.at = "none"
    BY <2>1 DEF Init
  <2>. QED
    BY <2>1 DEF Previewed
<1>2. ReplacementInv /\ Previewed /\ [Next]_vars => Previewed'
  <2>. SUFFICES ASSUME ReplacementInv, Previewed, [Next]_vars
                PROVE  Previewed'
    OBVIOUS
  <2>1. ASSUME NEW op, NEW scheduled, Submit(op, scheduled)
        PROVE  Previewed'
    <3>1. UNCHANGED <<project, order>> /\ project \in Confirmed /\ Assessed(project)
          /\ row.status = "none"
      BY <2>1 DEF Submit
    <3>2. worker.at = "none"
      BY <3>1, Parts DEF Admitted, Submit
    <3>3. order = ScopedOrder(project)
      BY <3>2, Parts DEF Admitted
    <3>. QED
      BY <3>1, <3>3 DEF Previewed
  <2>2. CASE Forward \/ Backward \/ WorkerDies
    <3>1. UNCHANGED <<project, order>> /\ worker.at # "none"
      BY <2>2 DEF Forward, Prepare, Pull, Candidate, BeginReplacing, Touch, StopOriginal,
         RetainOriginal, DetachOriginal, CreateReplacement, RecordReplacement,
         ReserveReplacement, StartReplacement, AwaitReplacement, BeginVerifying, Verify,
         Own, Record, Close, Backward, BeginRollback, RemoveReplacement, RestoreName,
         RestoreNetworks, RestoreRunning, AwaitOriginal, ReserveOriginal, WorkerDies
    <3>. QED
      BY <3>1 DEF Previewed
  <2>3. CASE Observe \/ AcknowledgeRecovery \/ (\E e \in E : RemoveOriginal(e) \/ HostActs(e))
             \/ UNCHANGED vars
    <3>1. UNCHANGED <<project, order, worker>>
      BY <2>3 DEF Observe, AcknowledgeRecovery, RemoveOriginal, HostActs, vars
    <3>. QED
      BY <3>1 DEF Previewed
  <2>. QED
    BY <2>1, <2>2, <2>3 DEF Next
<1>. QED
  BY <1>1, <1>2, Invariance, PTL DEF Spec

(* In the order, what a container depends on is before it.                 *)
LEMMA DependenciesBefore ==
    ASSUME DependenciesComeFirst, Runs, Previewed, worker.i \in 1..Len(order), NEW d \in E
    PROVE  /\ d \in Dependencies(project, Current) => d \in Before(worker.i)
           /\ Current \in Dependencies(project, d) => d \in After(worker.i)
<1>. DEFINE i == worker.i
<1>1. order \in Seq(E) /\ Range(order) = E /\ Len(order) \in Nat
  BY Running
<1>2. PICK k \in 1..Len(order) : d = order[k]
  BY <1>1 DEF Range
<1>3. \A a, b \in 1..Len(order) : order[a] \in Dependencies(project, order[b]) => a < b
  <2>1. project \in Confirmed /\ Assessed(project) /\ order = ScopedOrder(project)
    BY DEF Previewed, Runs
  <2>. QED
    BY <2>1 DEF DependenciesComeFirst
<1>4. i \in 1..Len(order) /\ Current = order[i]
  BY DEF Current
<1>. HIDE DEF i
<1>5. ASSUME d \in Dependencies(project, Current)
      PROVE  d \in Before(i)
  <2>1. k < i
    BY <1>2, <1>3, <1>4, <1>5
  <2>2. k \in 1..(i - 1)
    BY <1>1, <1>2, <1>4, <2>1
  <2>. QED
    BY <1>2, <2>2 DEF Before
<1>6. ASSUME Current \in Dependencies(project, d)
      PROVE  d \in After(i)
  <2>1. i < k
    BY <1>2, <1>3, <1>4, <1>6
  <2>2. k \in (i + 1)..Len(order)
    BY <1>1, <1>2, <1>4, <2>1
  <2>. QED
    BY <1>2, <2>2 DEF After
<1>. QED
  BY <1>5, <1>6 DEF i

\* What is started or stopped in a step.
StartedReplacement(e) == Starts(replacement[e], replacement'[e])
StartedOriginal(e) == Starts(original[e], original'[e])
StoppedOriginal(e) == Starts(original'[e], original[e])

(* A call on one container leaves the others as they run.                  *)
LEMMA OneOriginal ==
    ASSUME EngineTyped, NEW c, NEW x \in OriginalType,
           original' \in {original, [original EXCEPT ![c] = x]}, NEW e \in E
    PROVE  original'[e].up = original[e].up \/ (e = c /\ original'[e].up = x.up)
  BY DEF EngineTyped

(* The same of a replacement.                                              *)
LEMMA OneReplacement ==
    ASSUME EngineTyped, NEW c, NEW x \in ReplacementType,
           replacement' \in {replacement, [replacement EXCEPT ![c] = x]}, NEW e \in E
    PROVE  replacement'[e].up = replacement[e].up \/ (e = c /\ replacement'[e].up = x.up)
  BY DEF EngineTyped

\* A step that starts and stops nothing.
AllRunAsBefore ==
    \A e \in E : original'[e].up = original[e].up /\ replacement'[e].up = replacement[e].up

(* Calls that do not touch what runs.                                      *)
LEMMA OriginalsRun ==
    ASSUME ReplacementInv,
           Current \in E, RetainOriginal \/ DetachOriginal \/ RestoreName \/ RestoreNetworks
    PROVE  AllRunAsBefore
<1>1. EngineTyped
  BY Parts
<1>2. ASSUME NEW x \in OriginalType, x.up = original[Current].up, UNCHANGED replacement,
             original' \in {original, [original EXCEPT ![Current] = x]}
      PROVE  AllRunAsBefore
  BY <1>1, <1>2 DEF AllRunAsBefore, EngineTyped
<1>3. /\ [original[Current] EXCEPT !.name = "backup"] \in OriginalType
      /\ [original[Current] EXCEPT !.name = "own"] \in OriginalType
      /\ [original[Current] EXCEPT !.attached = TRUE] \in OriginalType
      /\ [original[Current] EXCEPT !.attached = FALSE] \in OriginalType
      /\ [original[Current] EXCEPT !.name = "backup"].up = original[Current].up
      /\ [original[Current] EXCEPT !.name = "own"].up = original[Current].up
      /\ [original[Current] EXCEPT !.attached = TRUE].up = original[Current].up
      /\ [original[Current] EXCEPT !.attached = FALSE].up = original[Current].up
  BY <1>1 DEF EngineTyped, OriginalType
<1>4. CASE UNCHANGED engine
  BY <1>4 DEF AllRunAsBefore, engine
<1>. QED
  BY <1>2, <1>3, <1>4 DEF RetainOriginal, DetachOriginal, RestoreName, RestoreNetworks,
                          OriginalBecomes

\* Only these start or stop a container; the host's own doing is disturbed.
Doer(e) ==
    /\ StartedReplacement(e) => Runs /\ StartReplacement /\ e = Current
    /\ StartedOriginal(e) => Runs /\ RestoreRunning /\ e = Current
    /\ StoppedOriginal(e) => Runs /\ StopOriginal /\ e = Current

(* Where nothing starts or stops there is nothing to show.                 *)
LEMMA NobodyStarts ==
    ASSUME AllRunAsBefore, NEW e \in E
    PROVE  Doer(e)
  BY DEF AllRunAsBefore, Doer, StartedReplacement, StartedOriginal, StoppedOriginal, Starts

(* In the loops the worker is at a container.                              *)
LEMMA AtContainer ==
    ASSUME ReplacementInv, UNCHANGED <<project, order>>,
           worker.at \in Mutating \ {"verifying", "verify", "rolling"}
    PROVE  Runs /\ Current \in E /\ EngineTyped /\ worker.i \in 1..Len(order)
<1>1. Runs
  BY DEF Runs, Mutating, Stopping, Creating, Restoring
<1>. QED
  BY <1>1, Running

(* Who starts a container is at it.                                        *)
LEMMA WhoStarts ==
    ASSUME ReplacementInv, [Next]_vars, NEW e \in E \ disturbed'
    PROVE  Doer(e)
<1>1. CASE UNCHANGED engine
  BY <1>1, NobodyStarts DEF AllRunAsBefore, engine
<1>2. CASE RetainOriginal \/ DetachOriginal \/ RestoreName \/ RestoreNetworks
  <2>1. Current \in E
    BY <1>2, AtContainer DEF RetainOriginal, DetachOriginal, RestoreName, RestoreNetworks,
                             Mutating, Stopping, Restoring
  <2>. QED
    BY <1>2, <2>1, OriginalsRun, NobodyStarts
<1>3. CASE StopOriginal
  <2>1. Runs /\ Current \in E /\ EngineTyped
    BY <1>3, AtContainer DEF StopOriginal, Mutating, Stopping
  <2>. DEFINE x == [original[Current] EXCEPT !.up = FALSE]
  <2>2. x \in OriginalType /\ ~x.up
    BY <2>1 DEF EngineTyped, OriginalType
  <2>3. UNCHANGED replacement /\ original' \in {original, [original EXCEPT ![Current] = x]}
    BY <1>3 DEF StopOriginal, OriginalBecomes
  <2>. HIDE DEF x
  <2>4. original'[e].up = original[e].up \/ (e = Current /\ ~original'[e].up)
    BY <2>1, <2>2, <2>3, OneOriginal
  <2>. QED
    BY <1>3, <2>1, <2>3, <2>4 DEF Doer, StartedReplacement, StartedOriginal, StoppedOriginal, Starts
<1>4. CASE RestoreRunning
  <2>1. Runs /\ Current \in E /\ EngineTyped
    BY <1>4, AtContainer DEF RestoreRunning, Mutating, Restoring
  <2>. DEFINE x == [original[Current] EXCEPT !.up = TRUE]
  <2>2. x \in OriginalType /\ x.up
    BY <2>1 DEF EngineTyped, OriginalType
  <2>3. UNCHANGED replacement /\ original' \in {original, [original EXCEPT ![Current] = x]}
    BY <1>4 DEF RestoreRunning, OriginalBecomes, engine
  <2>. HIDE DEF x
  <2>4. original'[e].up = original[e].up \/ (e = Current /\ original'[e].up)
    BY <2>1, <2>2, <2>3, OneOriginal
  <2>. QED
    BY <1>4, <2>1, <2>3, <2>4 DEF Doer, StartedReplacement, StartedOriginal, StoppedOriginal, Starts
<1>5. CASE StartReplacement
  <2>1. Runs /\ Current \in E /\ EngineTyped
    BY <1>5, AtContainer DEF StartReplacement, Mutating, Creating
  <2>. DEFINE x == [replacement[Current] EXCEPT !.up = TRUE]
  <2>2. x \in ReplacementType
    BY <2>1 DEF EngineTyped, ReplacementType
  <2>3. UNCHANGED original /\ replacement' \in {replacement, [replacement EXCEPT ![Current] = x]}
    BY <1>5 DEF StartReplacement, ReplacementBecomes
  <2>. HIDE DEF x
  <2>4. replacement'[e].up = replacement[e].up \/ e = Current
    BY <2>1, <2>2, <2>3, OneReplacement
  <2>. QED
    BY <1>5, <2>1, <2>3, <2>4 DEF Doer, StartedReplacement, StartedOriginal, StoppedOriginal, Starts
<1>6. CASE CreateReplacement \/ RemoveReplacement \/ AwaitReplacement
  <2>1. Current \in E /\ EngineTyped
    BY <1>6, AtContainer DEF CreateReplacement, RemoveReplacement, AwaitReplacement,
                             Mutating, Creating
  <2>2. /\ \A c \in Created(Current) : c \in ReplacementType /\ ~c.up
        /\ Absent \in ReplacementType /\ ~Absent.up
        /\ [replacement[Current] EXCEPT !.up = FALSE] \in ReplacementType
        /\ ~[replacement[Current] EXCEPT !.up = FALSE].up
    <3>1. \A same \in BOOLEAN : LET c == [there |-> TRUE, up |-> FALSE, same |-> same]
                                IN  c \in ReplacementType /\ ~c.up
      BY DEF ReplacementType
    <3>2. \A c \in Created(Current) :
              \E same \in BOOLEAN : c = [there |-> TRUE, up |-> FALSE, same |-> same]
      BY DEF Created
    <3>3. Absent \in ReplacementType /\ ~Absent.up
      BY DEF Absent, ReplacementType
    <3>4. \A c \in Created(Current) : c \in ReplacementType /\ ~c.up
      BY <3>1, <3>2
    <3>5. /\ [replacement[Current] EXCEPT !.up = FALSE] \in ReplacementType
          /\ ~[replacement[Current] EXCEPT !.up = FALSE].up
      BY <2>1 DEF EngineTyped, ReplacementType
    <3>. QED
      BY <3>3, <3>4, <3>5
  <2>3. /\ UNCHANGED original
        /\ \E x \in ReplacementType :
               ~x.up /\ replacement' \in {replacement, [replacement EXCEPT ![Current] = x]}
    <3>1. CASE CreateReplacement
      BY <2>2, <3>1 DEF CreateReplacement, ReplacementBecomes, engine
    <3>2. CASE RemoveReplacement
      BY <2>2, <3>2 DEF RemoveReplacement, ReplacementBecomes, engine
    <3>3. CASE AwaitReplacement
      BY <2>2, <3>3 DEF AwaitReplacement
    <3>. QED
      BY <1>6, <3>1, <3>2, <3>3
  <2>4. replacement'[e].up = replacement[e].up \/ ~replacement'[e].up
    BY <2>1, <2>3, OneReplacement
  <2>. QED
    BY <2>3, <2>4 DEF Doer, StartedReplacement, StartedOriginal, StoppedOriginal, Starts
<1>7. ASSUME NEW c \in E, RemoveOriginal(c)
      PROVE  Doer(e)
  BY <1>7, Parts, NobodyStarts DEF AllRunAsBefore, RemoveOriginal, EngineTyped, OriginalType
<1>8. ASSUME NEW c \in E, HostActs(c)
      PROVE  Doer(e)
  BY <1>8, Parts DEF HostActs, EngineTyped, OriginalType, ReplacementType, Doer,
                     StartedReplacement, StartedOriginal, StoppedOriginal, Starts
<1>9. CASE Next /\ ~UNCHANGED engine
  BY <1>2, <1>3, <1>4, <1>5, <1>6, <1>7, <1>8, <1>9
     DEF Next, Forward, Backward, Submit, Prepare, Pull, Candidate, BeginReplacing, Touch,
         RecordReplacement, ReserveReplacement, BeginVerifying, Verify, Own, Record, Close,
         BeginRollback, AwaitOriginal, ReserveOriginal, WorkerDies, Observe, AcknowledgeRecovery
<1>. QED
  BY <1>1, <1>9 DEF vars, engine

(* For every project, not only those TLC is given, the labels are an error  *)
(* exactly when they cannot be ordered, and the order the journal works     *)
(* through is otherwise a start order (composeorder.Labels).                *)
THEOREM OrderIsRight == Spec => []OrderRespectsDependencies
<1>1. ReplacementInv => OrderRespectsDependencies
  <2>. SUFFICES ASSUME ReplacementInv, row.status = "none" PROVE OrderRespectsDependencies
    BY DEF OrderRespectsDependencies
  <2>1. project \in Projects /\ order = ScopedOrder(project)
    BY Parts DEF Admitted
  <2>2. Numbered(project) /\ project.selected \subseteq Items(project)
    BY <2>1, ProjectsAssumption
  <2>. QED
    BY <2>1, <2>2, LabelsAreRight, ScopedOrderIsRight DEF OrderRespectsDependencies
<1>. QED
  BY <1>1, Invariance, PTL

(* A container is started only when what it depends on runs, and an        *)
(* original stopped only when no dependant runs, going forward or back.    *)
THEOREM StartsInOrder == Spec => DependenciesFirst
<1>0. DependenciesComeFirst
  BY OrderOfConfirmed
<1>. DEFINE Step == \A e \in E \ disturbed', d \in E \ disturbed' :
           /\ d \in Dependencies(project, e) /\ d \in project.running =>
                  /\ Starts(replacement[e], replacement'[e]) => replacement[d].up
                  /\ Starts(original[e], original'[e]) => original[d].up
           /\ e \in Dependencies(project, d) /\ Starts(original'[e], original[e]) =>
                  ~original[d].up
<1>1. ReplacementInv /\ Previewed /\ [Next]_vars => [Step]_vars
  <2>. SUFFICES ASSUME ReplacementInv, Previewed, [Next]_vars,
                       NEW e \in E \ disturbed', NEW d \in E \ disturbed'
                PROVE
           /\ d \in Dependencies(project, e) /\ d \in project.running =>
                  /\ Starts(replacement[e], replacement'[e]) => replacement[d].up
                  /\ Starts(original[e], original'[e]) => original[d].up
           /\ e \in Dependencies(project, d) /\ Starts(original'[e], original[e]) =>
                  ~original[d].up
    OBVIOUS
  <2>1. Doer(e) /\ Place
    BY WhoStarts, Parts
  <2>2. ASSUME d \in Dependencies(project, e), d \in project.running, StartedReplacement(e)
        PROVE  replacement[d].up
    <3>1. Runs /\ worker.at = "start" /\ e = Current /\ disturbed' = disturbed
      BY <2>1, <2>2 DEF Doer, StartReplacement
    <3>2. worker.i \in 1..Len(order) /\ CreatePhase
      BY <2>1, <3>1, Running DEF Place, Mutating, Creating
    <3>3. d \in Before(worker.i)
      BY <2>2, <3>1, <3>2, <1>0, DependenciesBefore
    <3>. QED
      BY <2>2, <3>1, <3>2, <3>3 DEF CreatePhase, Creating
  <2>3. ASSUME d \in Dependencies(project, e), d \in project.running, StartedOriginal(e)
        PROVE  original[d].up
    <3>1. Runs /\ worker.at = "restart" /\ e = Current /\ disturbed' = disturbed
      BY <2>1, <2>3 DEF Doer, RestoreRunning
    <3>2. worker.i \in 1..Len(order) /\ RestorePhase
      BY <2>1, <3>1, Running DEF Place, Mutating, Restoring
    <3>3. d \in Before(worker.i)
      BY <2>3, <3>1, <3>2, <1>0, DependenciesBefore
    <3>4. IsOriginal(d)
      BY <3>1, <3>2, <3>3 DEF RestorePhase, Restoring
    <3>. QED
      BY <2>3, <3>1, <3>4 DEF IsOriginal
  <2>4. ASSUME e \in Dependencies(project, d), StoppedOriginal(e)
        PROVE  ~original[d].up
    <3>1. Runs /\ worker.at = "stop" /\ e = Current /\ disturbed' = disturbed
      BY <2>1, <2>4 DEF Doer, StopOriginal
    <3>2. worker.i \in 1..Len(order) /\ StopPhase
      BY <2>1, <3>1, Running DEF Place, Mutating, Stopping
    <3>3. d \in After(worker.i)
      BY <2>4, <3>1, <3>2, <1>0, DependenciesBefore
    <3>. QED
      BY <3>1, <3>2, <3>3 DEF StopPhase, Stopping, Retained
  <2>. QED
    BY <2>2, <2>3, <2>4 DEF StartedReplacement, StartedOriginal, StoppedOriginal
<1>. QED
  BY <1>1, Invariance, PreviewStands, PTL DEF Spec, DependenciesFirst
============================================================================
