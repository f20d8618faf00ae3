------------------------ MODULE ProjectLifecycleProofs ------------------------
(***************************************************************************)
(* Proofs about ProjectLifecycle.  LifecycleInv is inductive: a step that   *)
(* leaves the host alone (Calm) is reduced to the place it enters, a step   *)
(* of somebody else than the worker to what it may do to the host (Evolves).*)
(***************************************************************************)
EXTENDS ProjectLifecycle, ComposeOrderProofs

-----------------------------------------------------------------------------
(* Finite sets and sequences.                                              *)

(* A nonempty finite set of numbers has a greatest element.                 *)
LEMMA MaxIs ==
    ASSUME NEW S \in SUBSET Nat, IsFiniteSet(S), S # {}
    PROVE  Max(S) \in S
<1>1. Cardinality(S) \in Nat /\ Cardinality(S) # 0
  BY FS_CardinalityType, FS_EmptySet
<1>2. PICK x \in S : Rank(S)[x] = Cardinality(S)
  BY <1>1, Ranked
<1>3. ASSUME NEW y \in S PROVE x >= y
  <2>1. Rank(S)[y] \in 1..Cardinality(S)
    BY Ranked
  <2>2. ~(x < y)
    BY <2>1, <1>1, <1>2, Ranked
  <2>. QED
    BY <2>2
<1>. QED
  BY <1>3 DEF Max

(* A set is turned into a sequence of its elements.                         *)
LEMMA SetToSeqIs ==
    ASSUME NEW S, IsFiniteSet(S)
    PROVE  SetToSeq(S) \in Seq(S) /\ Range(SetToSeq(S)) = S
<1>. DEFINE n == Cardinality(S)  s == SetToSeq(S)
<1>1. n \in Nat /\ ExistsBijection(1..n, S)
  BY FS_CardinalityType
<1>2. PICK f : f \in Bijection(1..n, S)
  BY <1>1 DEF ExistsBijection
<1>3. f \in [1..n -> S] /\ IsInjective(f)
  BY <1>2 DEF Bijection, Injection
<1>4. s \in [1..n -> S] /\ IsInjective(s)
  BY <1>3 DEF SetToSeq
<1>. HIDE DEF s
<1>5. IsFiniteSet(1..n) /\ Cardinality(1..n) = n
  BY <1>1, FS_Interval
<1>6. s \in Surjection(1..n, S)
  BY <1>4, <1>5, FS_Injection DEF Injection, n
<1>7. \A x \in S : \E i \in 1..n : s[i] = x
  BY <1>6 DEF Surjection
<1>8. s \in Seq(S)
  BY <1>1, <1>4
<1>. QED
  BY <1>4, <1>7, <1>8 DEF Range, s

(* The first element and the others are the whole sequence.                 *)
LEMMA HeadAndTail ==
    ASSUME NEW X, NEW s \in Seq(X), s # <<>>
    PROVE  /\ Head(s) \in X /\ Tail(s) \in Seq(X)
           /\ Range(s) = {Head(s)} \cup Range(Tail(s))
<1>1. Len(s) \in Nat \ {0} /\ s \in [1..Len(s) -> X] /\ Head(s) = s[1]
  OBVIOUS
<1>2. Tail(s) \in Seq(X) /\ Tail(s) = [i \in 1..(Len(s) - 1) |-> s[i + 1]]
  <2>1. Tail(s) \in Seq(X) /\ Len(Tail(s)) = Len(s) - 1
    OBVIOUS
  <2>2. \A i \in 1..(Len(s) - 1) : Tail(s)[i] = s[i + 1]
    OBVIOUS
  <2>3. Tail(s) \in [1..(Len(s) - 1) -> X]
    <3>1. ASSUME NEW t \in Seq(X) PROVE t \in [1..Len(t) -> X]
      OBVIOUS
    <3>. QED
      BY <2>1, <3>1
  <2>. QED
    BY <2>1, <2>2, <2>3
<1>3. ASSUME NEW i \in 1..Len(s) PROVE s[i] = Head(s) \/ \E j \in DOMAIN Tail(s) : s[i] = Tail(s)[j]
  <2>1. CASE i = 1
    BY <2>1, <1>1
  <2>2. CASE i # 1
    <3>1. i - 1 \in 1..(Len(s) - 1) /\ Tail(s)[i - 1] = s[i]
      BY <2>2, <1>1, <1>2
    <3>. QED
      BY <3>1, <1>2
  <2>. QED
    BY <2>1, <2>2
<1>4. ASSUME NEW j \in DOMAIN Tail(s) PROVE \E i \in 1..Len(s) : s[i] = Tail(s)[j]
  BY <1>1, <1>2
<1>5. 1 \in DOMAIN s /\ s[1] = Head(s) /\ DOMAIN s = 1..Len(s)
  BY <1>1
<1>6. Range(s) \subseteq {Head(s)} \cup Range(Tail(s))
  BY <1>3, <1>5 DEF Range
<1>7. {Head(s)} \cup Range(Tail(s)) \subseteq Range(s)
  BY <1>4, <1>5 DEF Range
<1>. QED
  BY <1>1, <1>2, <1>5, <1>6, <1>7

(* Reversed, a sequence has the same elements.                              *)
LEMMA ReverseIs ==
    ASSUME NEW X, NEW s \in Seq(X)
    PROVE  Reverse(s) \in Seq(X) /\ Range(Reverse(s)) = Range(s)
<1>. DEFINE n == Len(s)  r == Reverse(s)
<1>1. n \in Nat /\ s \in [1..n -> X]
  OBVIOUS
<1>2. r = [i \in 1..n |-> s[(n - i) + 1]]
  BY DEF Reverse
<1>. HIDE DEF r, n
<1>3. \A i \in 1..n : (n - i) + 1 \in 1..n /\ (n - ((n - i) + 1)) + 1 = i
  BY <1>1
<1>4. r \in [1..n -> X]
  BY <1>1, <1>2, <1>3
<1>5. r \in Seq(X)
  BY <1>1, <1>4
<1>6. \A i \in 1..n : r[(n - i) + 1] = s[i]
  BY <1>2, <1>3
<1>7. Range(r) = {r[i] : i \in 1..n} /\ Range(s) = {s[i] : i \in 1..n}
  BY <1>1, <1>4 DEF Range
<1>8. \A i \in 1..n : r[i] \in Range(s) /\ s[i] \in Range(r)
  BY <1>2, <1>3, <1>6, <1>7
<1>9. Range(r) = Range(s)
  BY <1>7, <1>8
<1>. QED
  BY <1>5, <1>9 DEF r

-----------------------------------------------------------------------------
(* The parts of the invariant.                                              *)

HostType == [state : [Containers -> States], there : SUBSET Resources,
             source : {"unavailable", "plain", "declares"}]
RowType == [status : {"none", "running", "succeeded", "failed"},
            stage : {"queued", "executing", "verifying", "committing"},
            outcome : {"", "verified", "reconciled", "failed", "recovery_required"},
            cleanup : BOOLEAN, handed : BOOLEAN]
WorkerType == [at : Steps, left : Seq(Containers \cup Resources),
               found : SUBSET Containers, failed : SUBSET (Containers \cup Resources),
               late : BOOLEAN]
PreviewTyped ==
    /\ preview.source \in {"none", "unavailable", "plain", "declares"}
    /\ DOMAIN preview.items \subseteq Containers \cup Resources
    /\ Range(preview.items) \subseteq Kept \cup {<<"remove">>}

SavedTells ==
    asked.route = "managed" => ~saved = (asked.operation = "remove" /\ row.status = "succeeded")
GroupDone ==
    asked.operation # "remove" /\ row.status = "succeeded" =>
        \A c \in worker.found \cap asked.active : InPlace(c)

Works == LifecycleInv /\ worker.at \notin {"none", "gone"}

\* A step that leaves the host and the plan alone.
Calm == UNCHANGED <<asked, host, preview, disturbed>>

\* What a step may do to the host without making a result untrue.
Evolves ==
    /\ host' \in HostType
    /\ disturbed' \in [who : SUBSET Containers, times : 0..MaxDisturbed]
    /\ host'.there \subseteq host.there /\ disturbed.who \subseteq disturbed'.who
    /\ \A c \in Containers \ disturbed'.who : ~Exists(c) => host'.state[c] = "none"
    /\ \A c \in Containers \ (disturbed'.who \cup OneShots) :
           /\ c \in asked.yard => host'.state[c] = host.state[c]
           /\ asked.operation # "remove" /\ Wanted(c) => Wanted(c)'

(* What the request is.                                                     *)
LEMMA RequestIs ==
    ASSUME asked \in Requests
    PROVE  /\ asked.operation \in {"start", "stop", "restart", "remove"}
           /\ asked.route \in {"direct", "managed"} /\ asked.host \in HostType
           /\ asked.scope \subseteq Containers /\ asked.uses \in [Containers -> SUBSET Resources]
           /\ asked.yard \subseteq {c \in Containers : asked.host.state[c] = "up"}
BY RequestsAreTyped DEF RequestsAssumption, HostType

(* The types of the variables, one by one.                                  *)
LEMMA Types ==
    ASSUME LifecycleInv
    PROVE  /\ host \in HostType /\ row \in RowType /\ worker \in WorkerType
           /\ PreviewTyped /\ saved \in BOOLEAN /\ helper \subseteq Containers
           /\ disturbed \in [who : SUBSET Containers, times : 0..MaxDisturbed]
           /\ asked \in Requests
BY DEF LifecycleInv, TypeOK, HostType, RowType, WorkerType, PreviewTyped, Admitted

(* Containers and resources are different things.                           *)
LEMMA Apart == Containers \cap Resources = {}
BY NumbersAssumption

(* What succeeded is true: three parts.                                     *)
LEMMA TruthIs ==
    ASSUME asked \in Requests, host \in HostType
    PROVE  /\ VerifiedIsTrue => SavedTells /\ GroupDone
           /\ ReportPhase /\ SavedTells /\ GroupDone => VerifiedIsTrue
<1>1. asked.operation # "remove" <=> Operating
  BY RequestIs DEF Operating
<1>2. VerifiedIsTrue => SavedTells /\ GroupDone
  <2>1. VerifiedIsTrue => SavedTells
    BY DEF VerifiedIsTrue, SavedTells
  <2>2. VerifiedIsTrue => GroupDone
    BY <1>1 DEF VerifiedIsTrue, GroupDone, InPlace
  <2>. QED
    BY <2>1, <2>2
<1>3. ASSUME ReportPhase, SavedTells, GroupDone PROVE VerifiedIsTrue
  <2>1. ASSUME asked.operation = "remove", row.status = "succeeded"
        PROVE  /\ Removable(preview) \cap Containers \subseteq
                      {c \in Containers : ~Exists(c)} \cup disturbed.who
               /\ row.cleanup \/ Removable(preview) \cap host.there = {}
    <3>1. Cleared
      BY <1>3, <2>1 DEF ReportPhase, Reported
    <3>2. ASSUME NEW c \in Removable(preview) \cap Containers
          PROVE  ~Exists(c) \/ c \in disturbed.who
      BY <3>1, <3>2, Apart DEF Cleared, Gone
    <3>3. ASSUME ~row.cleanup, NEW r \in Removable(preview) \cap host.there
          PROVE  FALSE
      BY <3>1, <3>3 DEF Cleared, Gone, HostType
    <3>. QED
      BY <3>2, <3>3
  <2>. QED
    BY <1>1, <1>3, <2>1 DEF VerifiedIsTrue, SavedTells, GroupDone, InPlace
<1>. QED
  BY <1>2, <1>3

-----------------------------------------------------------------------------
(* What holds of the next state, part by part.                              *)

Parts ==
    /\ host \in HostType /\ row \in RowType /\ worker \in WorkerType
    /\ PreviewTyped /\ saved \in BOOLEAN /\ helper \subseteq Containers
    /\ disturbed \in [who : SUBSET Containers, times : 0..MaxDisturbed]
    /\ Admitted /\ YardRuns /\ DeletePhase /\ ReportPhase /\ OperatePhase
    /\ SavedTells /\ GroupDone

(* The parts are the invariant.                                             *)
LEMMA PartsAre == Parts <=> LifecycleInv
<1>1. ASSUME Parts PROVE LifecycleInv
  <2>1. asked \in Requests
    BY <1>1 DEF Parts, Admitted
  <2>2. VerifiedIsTrue
    BY <1>1, <2>1, TruthIs DEF Parts
  <2>3. TypeOK
    BY <1>1 DEF Parts, TypeOK, HostType, RowType, WorkerType, PreviewTyped
  <2>. QED
    BY <1>1, <2>2, <2>3 DEF Parts, LifecycleInv
<1>2. ASSUME LifecycleInv PROVE Parts
  BY <1>2, Types, TruthIs DEF Parts, LifecycleInv
<1>. QED
  BY <1>1, <1>2

(* The same of the next state.                                              *)
LEMMA NextPartsAre == Parts' => LifecycleInv'
<1>1. Parts => LifecycleInv
  BY PartsAre
<1>. QED
  BY <1>1, PTL

(* What stays as it is when host and plan do.                               *)
LEMMA CalmSame ==
    ASSUME Calm
    PROVE  /\ OneShots' = OneShots /\ Removable(preview)' = Removable(preview)
           /\ \A x : Gone(x)' <=> Gone(x)
           /\ \A c : Up(c)' <=> Up(c)
           /\ \A c : InPlace(c)' <=> InPlace(c)
           /\ (helper' \subseteq helper /\ YardRuns) => YardRuns'
<1>1. OneShots' = OneShots /\ Removable(preview)' = Removable(preview)
  BY DEF Calm, OneShots, Removable
<1>2. \A c : (Up(c)' <=> Up(c)) /\ (Exists(c)' <=> Exists(c)) /\ (Wanted(c)' <=> Wanted(c))
  BY DEF Calm, Up, Exists, Wanted
<1>3. \A x : Gone(x)' <=> Gone(x)
  BY <1>2 DEF Calm, Gone
<1>4. \A c : InPlace(c)' <=> InPlace(c)
  BY <1>1, <1>2 DEF Calm, InPlace
<1>5. ASSUME helper' \subseteq helper, YardRuns PROVE YardRuns'
  BY <1>1, <1>2, <1>5 DEF Calm, YardRuns
<1>. QED
  BY <1>1, <1>2, <1>3, <1>4, <1>5

(* A calm step, reduced to the place it enters.                             *)
LEMMA CalmKeeps ==
    ASSUME LifecycleInv, Calm, row' \in RowType, worker' \in WorkerType, saved' \in BOOLEAN,
           helper' \subseteq helper, Admitted',
           DeletePhase', ReportPhase', OperatePhase', SavedTells', GroupDone'
    PROVE  LifecycleInv'
<1>1. host' \in HostType /\ PreviewTyped' /\ helper' \subseteq Containers
      /\ disturbed' \in [who : SUBSET Containers, times : 0..MaxDisturbed]
  BY Types DEF Calm, PreviewTyped
<1>2. YardRuns'
  BY CalmSame DEF LifecycleInv
<1>3. Parts'
  BY <1>1, <1>2 DEF Parts
<1>. QED
  BY <1>3, NextPartsAre

(* The worker leaves without success.                                       *)
LEMMA Leaves ==
    ASSUME Works, Calm, UNCHANGED saved, helper' \subseteq helper, Goto("gone"),
           row' \in RowType, row'.status \in {"running", "failed"}, row'.stage = row.stage,
           row'.cleanup = row.cleanup
    PROVE  LifecycleInv'
<1>. LifecycleInv /\ worker.at \notin {"none", "gone"}
  BY DEF Works
<1>1. row.status = "running" /\ worker \in WorkerType /\ saved \in BOOLEAN
  BY Types DEF LifecycleInv, Admitted
<1>2. worker' \in WorkerType /\ worker'.at = "gone"
  BY <1>1 DEF Goto, WorkerType, Steps
<1>3. Admitted'
  BY <1>1, <1>2 DEF LifecycleInv, Admitted, Calm, Deleting, Closing
<1>4. DeletePhase' /\ OperatePhase'
  BY <1>2 DEF DeletePhase, OperatePhase, Deleting
<1>5. ReportPhase'
  <2>1. ASSUME Reported' PROVE Cleared
    BY <1>2, <2>1 DEF Reported, LifecycleInv, ReportPhase, Closing
  <2>2. Cleared => Cleared'
    BY CalmSame DEF Cleared
  <2>. QED
    BY <2>1, <2>2 DEF ReportPhase
<1>6. SavedTells
  BY PartsAre DEF Parts
<1>7. SavedTells' /\ GroupDone'
  BY <1>1, <1>6 DEF SavedTells, GroupDone, Calm
<1>. QED
  BY <1>1, <1>2, <1>3, <1>4, <1>5, <1>7, CalmKeeps

(* The worker records success.                                              *)
LEMMA Succeeds ==
    ASSUME Works, Calm, UNCHANGED helper, Goto("gone"), FinishJob("verified"),
           asked.operation = "remove" => Cleared,
           asked.operation # "remove" =>
               \A c \in worker.found \cap asked.active : InPlace(c),
           saved' \in BOOLEAN,
           asked.route = "managed" =>
               saved' = IF asked.operation = "remove" THEN FALSE ELSE saved
    PROVE  LifecycleInv'
<1>. LifecycleInv /\ worker.at \notin {"none", "gone"}
  BY DEF Works
<1>1. row \in RowType /\ worker \in WorkerType /\ saved \in BOOLEAN /\ row.status = "running"
  BY Types DEF LifecycleInv, Admitted
<1>2. /\ worker' \in WorkerType /\ worker'.at = "gone" /\ worker'.found = worker.found
  BY <1>1 DEF Goto, WorkerType, Steps
<1>3. /\ row' \in RowType /\ row'.status = "succeeded" /\ row'.stage = row.stage
      /\ row'.cleanup = row.cleanup
  BY <1>1 DEF FinishJob, RowType
<1>4. Admitted'
  BY <1>1, <1>2, <1>3 DEF LifecycleInv, Admitted, Calm, Deleting, Closing
<1>5. DeletePhase' /\ OperatePhase'
  BY <1>2 DEF DeletePhase, OperatePhase, Deleting
<1>6. ReportPhase'
  <2>1. ASSUME Reported' PROVE Cleared
    BY <1>2, <1>3, <2>1 DEF Reported, LifecycleInv, ReportPhase, Closing, Calm
  <2>2. Cleared => Cleared'
    BY <1>3, CalmSame DEF Cleared
  <2>. QED
    BY <2>1, <2>2 DEF ReportPhase
<1>7. SavedTells
  BY PartsAre DEF Parts
<1>8. SavedTells'
  BY <1>1, <1>3, <1>7 DEF SavedTells, Calm
<1>9. GroupDone'
  BY <1>2, CalmSame DEF GroupDone, Calm
<1>. QED
  BY <1>1, <1>2, <1>3, <1>4, <1>5, <1>6, <1>8, <1>9, CalmKeeps

(* What was gone or in place is so after a step that evolves the host.      *)
LEMMA EvolvesSame ==
    ASSUME LifecycleInv, Evolves, UNCHANGED asked
    PROVE  /\ \A x : Gone(x) => Gone(x)'
           /\ asked.operation # "remove" => \A c \in Containers : InPlace(c) => InPlace(c)'
           /\ helper' \subseteq helper => YardRuns'
<1>1. OneShots' = OneShots
  BY DEF OneShots
<1>2. ASSUME NEW x, Gone(x) PROVE Gone(x)'
  BY <1>2 DEF Gone, Evolves, Exists
<1>3. ASSUME asked.operation # "remove", NEW c \in Containers, InPlace(c) PROVE InPlace(c)'
  BY <1>1, <1>3 DEF Evolves, InPlace
<1>4. ASSUME helper' \subseteq helper PROVE YardRuns'
  <2>1. asked.yard \subseteq Containers
    BY Types, RequestIs
  <2>2. ASSUME NEW c \in asked.yard \ (disturbed'.who \cup OneShots) PROVE Up(c)'
    <3>1. Up(c)
      BY <2>2 DEF LifecycleInv, YardRuns, Evolves
    <3>2. host'.state[c] = host.state[c]
      BY <2>1, <2>2 DEF Evolves
    <3>. QED
      BY <3>1, <3>2 DEF Up
  <2>. QED
    BY <1>1, <1>4, <2>2 DEF LifecycleInv, YardRuns
<1>. QED
  BY <1>2, <1>3, <1>4

(* A step of a helper, of a container or of the host.                       *)
LEMMA OthersKeep ==
    ASSUME LifecycleInv, Evolves, UNCHANGED <<asked, preview, row, saved, worker>>,
           helper' \subseteq helper
    PROVE  LifecycleInv'
<1>1. /\ row \in RowType /\ worker \in WorkerType /\ PreviewTyped /\ saved \in BOOLEAN
      /\ helper \subseteq Containers
  BY Types
<1>2. \A x : Gone(x) => Gone(x)'
  BY EvolvesSame
<1>3. Admitted'
  BY DEF LifecycleInv, Admitted
<1>4. YardRuns'
  BY EvolvesSame
<1>5. Removable(preview)' = Removable(preview) /\ Item' = Item
  BY DEF Removable, Item
<1>6. DeletePhase'
  BY <1>2, <1>5 DEF LifecycleInv, DeletePhase
<1>7. ReportPhase'
  BY <1>2, <1>5 DEF LifecycleInv, ReportPhase, Reported, Cleared
<1>8. OperatePhase'
  <2>1. ASSUME worker.at = "operate" PROVE asked.operation # "remove"
    BY <2>1 DEF LifecycleInv, Admitted
  <2>2. worker.found \subseteq Containers
    BY <1>1 DEF WorkerType
  <2>. QED
    BY <2>1, <2>2, EvolvesSame DEF LifecycleInv, OperatePhase
<1>9. SavedTells' /\ GroupDone'
  <2>1. SavedTells /\ GroupDone
    BY PartsAre DEF Parts
  <2>2. SavedTells'
    BY <2>1 DEF SavedTells
  <2>3. GroupDone'
    BY <1>1, <2>1, EvolvesSame DEF GroupDone, WorkerType
  <2>. QED
    BY <2>2, <2>3
<1>10. Parts'
  BY <1>1, <1>3, <1>4, <1>6, <1>7, <1>8, <1>9 DEF Parts, Evolves, PreviewTyped
<1>. QED
  BY <1>10, NextPartsAre

(* A step of the worker that goes on deleting.                              *)
LEMMA DeletesKeep ==
    ASSUME LifecycleInv, worker.at \in Deleting, Evolves,
           UNCHANGED <<asked, preview, row, saved, helper>>,
           worker' \in WorkerType, worker'.at \in Deleting, DeletePhase'
    PROVE  LifecycleInv'
<1>1. /\ row \in RowType /\ PreviewTyped /\ saved \in BOOLEAN /\ helper \subseteq Containers
      /\ row.status = "running" /\ asked.operation = "remove"
  BY Types DEF LifecycleInv, Admitted, Deleting
<1>2. \A x : Gone(x) => Gone(x)'
  BY EvolvesSame
<1>3. Admitted'
  BY <1>1 DEF LifecycleInv, Admitted, Deleting
<1>4. YardRuns'
  BY EvolvesSame
<1>5. Removable(preview)' = Removable(preview)
  BY DEF Removable
<1>6. ReportPhase'
  <2>1. Reported' => Reported
    BY DEF Reported, Deleting, Closing
  <2>2. Cleared => Cleared'
    BY <1>2, <1>5 DEF Cleared
  <2>. QED
    BY <2>1, <2>2 DEF LifecycleInv, ReportPhase
<1>7. OperatePhase'
  BY DEF OperatePhase, Deleting
<1>8. SavedTells' /\ GroupDone'
  <2>1. SavedTells
    BY PartsAre DEF Parts
  <2>. QED
    BY <1>1, <2>1 DEF SavedTells, GroupDone
<1>9. Parts'
  BY <1>1, <1>3, <1>4, <1>6, <1>7, <1>8 DEF Parts, Evolves, PreviewTyped
<1>. QED
  BY <1>9, NextPartsAre

-----------------------------------------------------------------------------
(* Deleting.                                                                *)

(* A host that stays as it is evolves.                                      *)
LEMMA StillEvolves ==
    ASSUME LifecycleInv, UNCHANGED <<asked, host, disturbed>>
    PROVE  Evolves
BY Types DEF Evolves, Exists, Wanted, Up

(* The item a removal is at was confirmed and is not Yard's own container.  *)
LEMMA ItemIs ==
    ASSUME LifecycleInv, worker.at \in Deleting, worker.left # <<>>
    PROVE  /\ Item \in Removable(preview) /\ Item \in Containers \cup Resources
           /\ Item \notin asked.yard /\ asked.operation = "remove"
           /\ worker.left \in Seq(Containers \cup Resources)
           /\ Tail(worker.left) \in Seq(Containers \cup Resources)
           /\ Range(worker.left) = {Item} \cup Range(Tail(worker.left))
<1>1. worker.left \in Seq(Containers \cup Resources)
  BY Types DEF WorkerType
<1>2. /\ Item \in Containers \cup Resources /\ Tail(worker.left) \in Seq(Containers \cup Resources)
      /\ Range(worker.left) = {Item} \cup Range(Tail(worker.left))
  BY <1>1, HeadAndTail DEF Item
<1>3. /\ Range(worker.left) \subseteq Removable(preview) /\ Removable(preview) \cap asked.yard = {}
  BY DEF LifecycleInv, DeletePhase
<1>4. asked.operation = "remove"
  BY DEF LifecycleInv, Admitted
<1>. QED
  BY <1>1, <1>2, <1>3, <1>4

(* A removal changes the state of its item: it stops or deletes it.         *)
LEMMA StateEvolves ==
    ASSUME LifecycleInv, worker.at \in Deleting, worker.left # <<>>, Item \in Containers,
           NEW state \in States, ~Exists(Item) => state = "none",
           host' = [host EXCEPT !.state[Item] = state], UNCHANGED <<asked, disturbed>>
    PROVE  Evolves
<1>1. host \in HostType /\ disturbed \in [who : SUBSET Containers, times : 0..MaxDisturbed]
  BY Types
<1>2. /\ host' \in HostType /\ host'.there = host.there /\ host'.state[Item] = state
      /\ \A c \in Containers \ {Item} : host'.state[c] = host.state[c]
  BY <1>1 DEF HostType
<1>3. asked.operation = "remove" /\ Item \notin asked.yard
  BY ItemIs
<1>. QED
  BY <1>1, <1>2, <1>3 DEF Evolves, Exists

(* A removal deletes a resource.                                            *)
LEMMA DropEvolves ==
    ASSUME LifecycleInv, worker.at \in Deleting, NEW r,
           host' = [host EXCEPT !.there = @ \ {r}], UNCHANGED <<asked, disturbed>>
    PROVE  Evolves
<1>1. host \in HostType /\ disturbed \in [who : SUBSET Containers, times : 0..MaxDisturbed]
  BY Types
<1>2. host' \in HostType /\ host'.there = host.there \ {r} /\ host'.state = host.state
  BY <1>1 DEF HostType
<1>3. asked.operation = "remove"
  BY DEF LifecycleInv, Admitted
<1>. QED
  BY <1>1, <1>2, <1>3 DEF Evolves, Exists

(* The removal goes on to its next item.                                    *)
LEMMA NextItemKeeps ==
    ASSUME LifecycleInv, worker.at \in Deleting, worker.left # <<>>, Evolves,
           UNCHANGED <<asked, preview, row, saved, helper>>,
           NEW failed \in BOOLEAN, NextItem(failed),
           \A x : x = Item => failed \/ Gone(x)'
    PROVE  LifecycleInv'
<1>. DEFINE i == Item
<1>1. worker \in WorkerType
  BY Types
<1>2. /\ i \in Containers \cup Resources /\ Tail(worker.left) \in Seq(Containers \cup Resources)
      /\ Range(worker.left) = {i} \cup Range(Tail(worker.left))
  BY ItemIs
<1>3. failed \/ \A x : x = i => Gone(x)'
  OBVIOUS
<1>4. worker' = [worker EXCEPT !.at = "item", !.left = Tail(@),
                               !.failed = IF failed THEN @ \cup {i} ELSE @]
  BY DEF NextItem
<1>. HIDE DEF i
<1>5. /\ worker' \in WorkerType /\ worker'.at = "item" /\ worker'.left = Tail(worker.left)
      /\ worker.failed \subseteq worker'.failed /\ (failed => i \in worker'.failed)
  BY <1>1, <1>2, <1>4 DEF WorkerType, Steps
<1>6. Removable(preview)' = Removable(preview)
  BY DEF Removable
<1>7. \A x \in Removable(preview) \ Range(worker'.left) : x \in worker'.failed \/ Gone(x)'
  <2>1. \A x \in Removable(preview) \ Range(worker.left) : x \in worker.failed \/ Gone(x)
    BY DEF LifecycleInv, DeletePhase
  <2>2. \A x : Gone(x) => Gone(x)'
    BY EvolvesSame
  <2>3. \A x : x = i => x \in worker'.failed \/ Gone(x)'
    BY <1>3, <1>5
  <2>. QED
    BY <1>2, <1>5, <2>1, <2>2, <2>3
<1>8. DeletePhase'
  <2>1. Range(worker'.left) \subseteq Removable(preview)
    BY <1>2, <1>5 DEF LifecycleInv, DeletePhase
  <2>2. Removable(preview) \cap asked.yard = {}
    BY DEF LifecycleInv, DeletePhase
  <2>. QED
    BY <1>5, <1>6, <1>7, <2>1, <2>2 DEF DeletePhase, Range
<1>. QED
  BY <1>5, <1>8, DeletesKeep DEF Deleting

(* The removal makes another attempt at its container.                      *)
LEMMA AttemptKeeps ==
    ASSUME LifecycleInv, worker.at \in Deleting, worker.left # <<>>, Evolves,
           UNCHANGED <<asked, preview, row, saved, helper>>,
           Item \in Containers, NEW step \in {"delete", "force"}, Goto(step)
    PROVE  LifecycleInv'
<1>1. worker \in WorkerType
  BY Types
<1>2. /\ worker' \in WorkerType /\ worker'.at = step /\ worker'.left = worker.left
      /\ worker'.failed = worker.failed /\ Item' = Item
  BY <1>1 DEF Goto, WorkerType, Steps, Item
<1>3. Removable(preview)' = Removable(preview)
  BY DEF Removable
<1>4. DeletePhase'
  <2>1. /\ Range(worker.left) \subseteq Removable(preview)
        /\ Removable(preview) \cap asked.yard = {}
        /\ \A x \in Removable(preview) \ Range(worker.left) : x \in worker.failed \/ Gone(x)
    BY DEF LifecycleInv, DeletePhase
  <2>2. \A x : Gone(x) => Gone(x)'
    BY EvolvesSame
  <2>. QED
    BY <1>2, <1>3, <2>1, <2>2 DEF DeletePhase
<1>. QED
  BY <1>2, <1>4, DeletesKeep DEF Deleting

(* Stop.                                                                    *)
LEMMA StopTargetKeeps == ASSUME LifecycleInv, StopTarget PROVE LifecycleInv'
<1>1. /\ worker.at \in Deleting /\ worker.left # <<>> /\ Item \in Containers
      /\ UNCHANGED <<asked, preview, row, saved, helper, disturbed>>
  BY DEF StopTarget, Deleting
<1>2. ASSUME host' = [host EXCEPT !.state[Item] = IF @ = "up" THEN "done" ELSE @], Goto("delete")
      PROVE  LifecycleInv'
  <2>. DEFINE state == IF host.state[Item] = "up" THEN "done" ELSE host.state[Item]
  <2>1. host \in HostType
    BY Types
  <2>2. state \in States /\ (~Exists(Item) => state = "none")
    BY <1>1, <2>1 DEF HostType, States, Exists
  <2>3. host' = [host EXCEPT !.state[Item] = state]
    BY <1>2
  <2>. HIDE DEF state
  <2>4. Evolves
    BY <1>1, <2>2, <2>3, StateEvolves
  <2>. QED
    BY <1>1, <1>2, <2>4, AttemptKeeps
<1>3. ASSUME UNCHANGED host, Goto("force") PROVE LifecycleInv'
  BY <1>1, <1>3, StillEvolves, AttemptKeeps
<1>. QED
  BY <1>2, <1>3 DEF StopTarget

(* An ordinary removal.                                                     *)
LEMMA DeleteTargetKeeps == ASSUME LifecycleInv, DeleteTarget PROVE LifecycleInv'
<1>1. /\ worker.at \in Deleting /\ worker.left # <<>> /\ Item \in Containers
      /\ UNCHANGED <<asked, preview, row, saved, helper, disturbed>>
  BY DEF DeleteTarget, Deleting, LifecycleInv, DeletePhase
<1>2. ASSUME host' = [host EXCEPT !.state[Item] = "none"]
      PROVE  /\ Evolves
             /\ \A x : x = Item => Gone(x)'
  <2>1. Evolves
    BY <1>1, <1>2, StateEvolves DEF States
  <2>2. host'.state[Item] = "none"
    BY <1>1, <1>2, Types DEF HostType
  <2>. QED
    BY <1>1, <2>1, <2>2, Apart DEF Gone, Exists
<1>3. ASSUME host' = [host EXCEPT !.state[Item] = "none"], NextItem(FALSE) PROVE LifecycleInv'
  BY <1>1, <1>2, <1>3, NextItemKeeps
<1>4. ASSUME host' = [host EXCEPT !.state[Item] = "none"], Goto("force") PROVE LifecycleInv'
  BY <1>1, <1>2, <1>4, AttemptKeeps
<1>5. ASSUME UNCHANGED host, Goto("force") PROVE LifecycleInv'
  BY <1>1, <1>5, StillEvolves, AttemptKeeps
<1>. QED
  BY <1>3, <1>4, <1>5 DEF DeleteTarget

(* A forced removal.                                                        *)
LEMMA ForceTargetKeeps == ASSUME LifecycleInv, ForceTarget PROVE LifecycleInv'
<1>1. /\ worker.at \in Deleting /\ worker.left # <<>> /\ Item \in Containers
      /\ UNCHANGED <<asked, preview, row, saved, helper, disturbed>>
  BY DEF ForceTarget, Deleting, LifecycleInv, DeletePhase
<1>2. ASSUME host' = [host EXCEPT !.state[Item] = "none"], NextItem(FALSE) PROVE LifecycleInv'
  <2>1. Evolves
    BY <1>1, <1>2, StateEvolves DEF States
  <2>2. host'.state[Item] = "none"
    BY <1>1, <1>2, Types DEF HostType
  <2>3. \A x : x = Item => Gone(x)'
    BY <1>1, <2>2, Apart DEF Gone, Exists
  <2>. QED
    BY <1>1, <1>2, <2>1, <2>3, NextItemKeeps
<1>3. ASSUME UNCHANGED host, NextItem(TRUE) PROVE LifecycleInv'
  BY <1>1, <1>3, StillEvolves, NextItemKeeps
<1>. QED
  BY <1>2, <1>3 DEF ForceTarget

(* A look at the users of a resource.                                       *)
LEMMA CheckUnusedKeeps == ASSUME LifecycleInv, CheckUnused PROVE LifecycleInv'
<1>1. /\ worker.at \in Deleting /\ worker.left # <<>> /\ Item \in Resources
      /\ UNCHANGED <<asked, host, preview, row, saved, helper, disturbed>>
  BY DEF CheckUnused, Deleting
<1>2. ASSUME Users(Item) = {}, worker' = [worker EXCEPT !.at = "drop", !.found = Present]
      PROVE  LifecycleInv'
  <2>1. worker \in WorkerType
    BY Types
  <2>2. /\ worker' \in WorkerType /\ worker'.at = "drop" /\ worker'.left = worker.left
        /\ worker'.failed = worker.failed /\ worker'.found = Present /\ Item' = Item
    BY <1>2, <2>1 DEF WorkerType, Steps, Present, Item
  <2>3. \A c \in Present : Item \notin asked.uses[c]
    BY <1>2 DEF Users
  <2>4. Removable(preview)' = Removable(preview)
    BY <1>1 DEF Removable
  <2>5. Evolves
    BY <1>1, StillEvolves
  <2>6. DeletePhase'
    <3>1. /\ Range(worker.left) \subseteq Removable(preview)
          /\ Removable(preview) \cap asked.yard = {}
          /\ \A x \in Removable(preview) \ Range(worker.left) : x \in worker.failed \/ Gone(x)
      BY <1>1 DEF LifecycleInv, DeletePhase
    <3>2. \A x : Gone(x) => Gone(x)'
      BY <1>1, <2>5, EvolvesSame
    <3>. QED
      BY <1>1, <2>2, <2>3, <2>4, <3>1, <3>2 DEF DeletePhase
  <2>. QED
    BY <1>1, <2>2, <2>5, <2>6, DeletesKeep DEF Deleting
<1>3. ASSUME NextItem(TRUE) PROVE LifecycleInv'
  BY <1>1, <1>3, StillEvolves, NextItemKeeps
<1>. QED
  BY <1>2, <1>3 DEF CheckUnused

(* The resource is dropped.                                                 *)
LEMMA DropResourceKeeps == ASSUME LifecycleInv, DropResource PROVE LifecycleInv'
<1>1. /\ worker.at \in Deleting /\ worker.left # <<>> /\ Item \in Resources
      /\ UNCHANGED <<asked, preview, row, saved, helper, disturbed>>
  BY DEF DropResource, Deleting, LifecycleInv, DeletePhase
<1>2. ASSUME host' = [host EXCEPT !.there = @ \ {Item}], NEW failed \in BOOLEAN, NextItem(failed)
      PROVE  LifecycleInv'
  <2>1. Evolves
    BY <1>1, <1>2, DropEvolves
  <2>2. Item \notin host'.there
    BY <1>2, Types DEF HostType
  <2>3. \A x : x = Item => Gone(x)'
    BY <1>1, <2>2, Apart DEF Gone
  <2>. QED
    BY <1>1, <1>2, <2>1, <2>3, NextItemKeeps
<1>3. ASSUME UNCHANGED host, NextItem(TRUE) PROVE LifecycleInv'
  BY <1>1, <1>3, StillEvolves, NextItemKeeps
<1>. QED
  BY <1>2, <1>3 DEF DropResource

(* After the deadline the other items are not tried.                        *)
LEMMA SkipLateKeeps == ASSUME LifecycleInv, SkipLate PROVE LifecycleInv'
<1>1. /\ worker.at \in Deleting /\ worker.left # <<>> /\ NextItem(TRUE)
      /\ UNCHANGED <<asked, host, preview, row, saved, helper, disturbed>>
  BY DEF SkipLate, Deleting
<1>. QED
  BY <1>1, StillEvolves, NextItemKeeps

-----------------------------------------------------------------------------
(* From the preview to the plan.                                            *)

(* A plan is typed, and it deletes no container of Yard's own.              *)
LEMMA PlanIs ==
    ASSUME host \in HostType, asked \in Requests
    PROVE  /\ Plan.source \in {"unavailable", "plain", "declares"}
           /\ DOMAIN Plan.items \subseteq Containers \cup Resources
           /\ Range(Plan.items) \subseteq Kept \cup {<<"remove">>}
           /\ Removable(Plan) \subseteq Containers \cup Resources
           /\ Plannable => Removable(Plan) \cap asked.yard = {}
<1>1. Targets \subseteq Containers /\ Present \subseteq Containers /\ Reached \subseteq Resources
  BY DEF Targets, Present, Reached, HostType
<1>2. ASSUME NEW r PROVE Verdict(r) \in Kept \cup {<<"remove">>}
  <2>1. ASSUME Users(r) \ Targets # {} PROVE Max(Users(r) \ Targets) \in Containers
    <3>. DEFINE others == Users(r) \ Targets
    <3>1. others \subseteq Containers /\ Containers \subseteq Nat
      BY <1>1, NumbersAssumption DEF Users
    <3>2. IsFiniteSet(others)
      BY <3>1, SizesAssumption, FS_Subset
    <3>3. Max(others) \in others
      BY <2>1, <3>1, <3>2, MaxIs
    <3>. QED
      BY <3>1, <3>3
  <2>. QED
    BY <2>1 DEF Verdict, Kept
<1>3. /\ Plan.source = host.source
      /\ Plan.items = [x \in Targets \cup Reached |->
                          IF x \in Containers THEN <<"remove">> ELSE Verdict(x)]
  BY DEF Plan
<1>4. DOMAIN Plan.items = Targets \cup Reached
  BY <1>3
<1>5. ASSUME NEW x \in Targets \cup Reached PROVE Plan.items[x] \in Kept \cup {<<"remove">>}
  BY <1>2, <1>3
<1>6. Removable(Plan) \subseteq Targets \cup Reached
  BY <1>4 DEF Removable
<1>7. Plannable => Removable(Plan) \cap asked.yard = {}
  <2>1. asked.yard \subseteq Containers
    BY RequestIs
  <2>2. Plannable => Targets \cap asked.yard = {}
    BY DEF Plannable
  <2>. QED
    BY <1>1, <1>6, <2>1, <2>2, Apart
<1>8. Range(Plan.items) \subseteq Kept \cup {<<"remove">>}
  BY <1>4, <1>5 DEF Range
<1>. QED
  BY <1>1, <1>3, <1>4, <1>6, <1>7, <1>8 DEF HostType

(* Before a job exists only the preview changes.                            *)
LEMMA IdleKeeps ==
    ASSUME LifecycleInv, row.status = "none", PreviewTyped',
           UNCHANGED <<asked, host, row, saved, worker, helper, disturbed>>
    PROVE  LifecycleInv'
<1>1. worker.at = "none" /\ row.stage = "queued"
  BY DEF LifecycleInv, Admitted
<1>2. /\ host \in HostType /\ row \in RowType /\ worker \in WorkerType
      /\ saved \in BOOLEAN /\ helper \subseteq Containers
      /\ disturbed \in [who : SUBSET Containers, times : 0..MaxDisturbed]
      /\ SavedTells
  BY PartsAre DEF Parts
<1>3. Admitted'
  BY DEF LifecycleInv, Admitted
<1>4. YardRuns'
  BY DEF LifecycleInv, YardRuns, OneShots, Up
<1>5. DeletePhase' /\ OperatePhase' /\ ReportPhase'
  BY <1>1 DEF DeletePhase, OperatePhase, ReportPhase, Reported, Deleting, Closing
<1>6. SavedTells' /\ GroupDone'
  BY <1>2 DEF SavedTells, GroupDone
<1>7. Parts'
  BY <1>2, <1>3, <1>4, <1>5, <1>6 DEF Parts
<1>. QED
  BY <1>7, NextPartsAre

(* The preview of a removal.                                                *)
LEMMA PreviewRemovalKeeps == ASSUME LifecycleInv, PreviewRemoval PROVE LifecycleInv'
<1>1. PreviewTyped'
  BY Types, PlanIs DEF PreviewRemoval, PreviewTyped
<1>. QED
  BY <1>1, IdleKeeps DEF PreviewRemoval

(* The request.                                                             *)
LEMMA SubmitKeeps == ASSUME LifecycleInv, Submit PROVE LifecycleInv'
<1>1. ASSUME preview' = NoPlan, UNCHANGED <<row, worker>> PROVE LifecycleInv'
  <2>1. PreviewTyped'
    BY <1>1 DEF PreviewTyped, NoPlan, Range
  <2>. QED
    BY <1>1, <2>1, IdleKeeps DEF Submit
<1>2. ASSUME row' = [row EXCEPT !.status = "running",
                                !.stage = IF asked.operation = "remove" THEN "executing" ELSE @],
             Goto(IF asked.operation = "remove" THEN "assess" ELSE "begin"),
             UNCHANGED preview
      PROVE  LifecycleInv'
  <2>1. /\ row \in RowType /\ worker \in WorkerType /\ saved \in BOOLEAN
        /\ row.status = "none" /\ row.stage = "queued" /\ Calm /\ UNCHANGED <<saved, helper>>
    BY <1>2, Types DEF LifecycleInv, Admitted, Submit, Calm
  <2>2. /\ row' \in RowType /\ row'.status = "running" /\ row'.stage \in {"queued", "executing"}
        /\ worker' \in WorkerType
        /\ worker'.at = IF asked.operation = "remove" THEN "assess" ELSE "begin"
    BY <1>2, <2>1 DEF RowType, WorkerType, Goto, Steps
  <2>3. Admitted'
    BY <2>1, <2>2 DEF LifecycleInv, Admitted, Calm, Deleting, Closing
  <2>4. DeletePhase' /\ OperatePhase' /\ ReportPhase'
    BY <2>2 DEF DeletePhase, OperatePhase, ReportPhase, Reported, Deleting, Closing
  <2>5. SavedTells
    BY PartsAre DEF Parts
  <2>6. SavedTells' /\ GroupDone'
    BY <2>1, <2>2, <2>5 DEF SavedTells, GroupDone, Calm
  <2>. QED
    BY <2>1, <2>2, <2>3, <2>4, <2>6, CalmKeeps
<1>. QED
  BY <1>1, <1>2 DEF Submit

(* A failure is written and the worker leaves.                              *)
LEMMA FailedKeeps ==
    ASSUME Works, Calm, UNCHANGED saved, helper' \subseteq helper, Failed
    PROVE  LifecycleInv'
<1>1. row \in RowType
  BY Types DEF Works
<1>2. PICK outcome \in {"failed", "recovery_required"} : FinishJob(outcome)
  BY DEF Failed
<1>3. /\ row' \in RowType /\ row'.status = "failed" /\ row'.stage = row.stage
      /\ row'.cleanup = row.cleanup
  BY <1>1, <1>2 DEF FinishJob, RowType
<1>. QED
  BY <1>3, Leaves DEF Failed

(* The plan is made again and must be the confirmed one.                    *)
LEMMA AssessKeeps == ASSUME LifecycleInv, Assess PROVE LifecycleInv'
<1>1. Works /\ Calm /\ UNCHANGED <<saved, helper>> /\ worker.at = "assess"
  BY DEF Assess, Works, Calm
<1>2. ASSUME Failed PROVE LifecycleInv'
  BY <1>1, <1>2, FailedKeeps
<1>3. ASSUME Plannable, Plan = preview, UNCHANGED row,
             worker' = [worker EXCEPT !.at = "item", !.left = InOrder(Removable(Plan))]
      PROVE  LifecycleInv'
  <2>1. /\ row \in RowType /\ worker \in WorkerType /\ saved \in BOOLEAN
        /\ row.status = "running" /\ asked.operation = "remove"
    BY <1>1, Types DEF LifecycleInv, Admitted
  <2>2. /\ Removable(preview) \subseteq Containers \cup Resources
        /\ Removable(preview) \cap asked.yard = {}
    BY <1>3, Types, PlanIs
  <2>3. InOrder(Removable(preview)) \in Seq(Removable(preview))
        /\ Range(InOrder(Removable(preview))) = Removable(preview)
    <3>1. Removable(preview) \in SUBSET Nat
      BY <2>2, NumbersAssumption
    <3>2. IsFiniteSet(Containers \cup Resources)
      BY SizesAssumption, FS_Union
    <3>3. IsFiniteSet(Removable(preview))
      BY <2>2, <3>2, FS_Subset
    <3>. QED
      BY <3>1, <3>3, InOrderIs
  <2>4. InOrder(Removable(preview)) \in Seq(Containers \cup Resources)
    BY <2>2, <2>3
  <2>5. /\ worker' \in WorkerType /\ worker'.at = "item"
        /\ worker'.left = InOrder(Removable(preview))
    BY <1>3, <2>1, <2>4 DEF WorkerType, Steps
  <2>6. Admitted'
    BY <1>1, <1>3, <2>1, <2>5 DEF LifecycleInv, Admitted, Calm, Deleting, Closing
  <2>7. DeletePhase'
    BY <1>1, <2>2, <2>3, <2>5, CalmSame DEF DeletePhase, Calm
  <2>8. ReportPhase'
    <3>1. Reported' => Reported
      BY <1>1, <1>3, <2>5 DEF Reported, Closing, Calm
    <3>2. Cleared => Cleared'
      BY <1>1, <1>3, CalmSame DEF Cleared
    <3>. QED
      BY <3>1, <3>2 DEF LifecycleInv, ReportPhase
  <2>9. OperatePhase'
    BY <2>5 DEF OperatePhase
  <2>10. SavedTells
    BY PartsAre DEF Parts
  <2>11. SavedTells' /\ GroupDone'
    BY <1>1, <1>3, <2>1, <2>10 DEF SavedTells, GroupDone, Calm
  <2>. QED
    BY <1>1, <1>3, <2>1, <2>5, <2>6, <2>7, <2>8, <2>9, <2>11, CalmKeeps
<1>. QED
  BY <1>2, <1>3 DEF Assess

-----------------------------------------------------------------------------
(* From the last item to the result.                                        *)

(* The deadline.                                                            *)
LEMMA ExpireKeeps == ASSUME LifecycleInv, Expire PROVE LifecycleInv'
<1>1. /\ row \in RowType /\ worker \in WorkerType /\ saved \in BOOLEAN /\ SavedTells
      /\ GroupDone
  BY PartsAre DEF Parts
<1>2. /\ Calm /\ UNCHANGED <<row, saved, helper>> /\ worker' \in WorkerType
      /\ worker'.at = worker.at /\ worker'.left = worker.left /\ Item' = Item
      /\ worker'.failed = worker.failed /\ worker'.found = worker.found
  BY <1>1 DEF Expire, Calm, WorkerType, Item
<1>3. Admitted'
  BY <1>2 DEF LifecycleInv, Admitted, Calm
<1>4. DeletePhase' /\ OperatePhase'
  BY <1>2, CalmSame DEF LifecycleInv, DeletePhase, OperatePhase, Calm
<1>5. ReportPhase'
  <2>1. (Reported' => Reported) /\ (Cleared => Cleared')
    BY <1>2, CalmSame DEF Reported, Cleared, Calm
  <2>. QED
    BY <2>1 DEF LifecycleInv, ReportPhase
<1>6. SavedTells' /\ GroupDone'
  BY <1>1, <1>2, CalmSame DEF SavedTells, GroupDone, Calm
<1>. QED
  BY <1>1, <1>2, <1>3, <1>4, <1>5, <1>6, CalmKeeps

(* A worker that found everything cleared goes on to commit.                *)
LEMMA Closes ==
    ASSUME Works, Calm, UNCHANGED <<saved, helper>>, asked.operation = "remove",
           row' \in RowType, row'.status = "running",
           worker' \in WorkerType, worker'.at \in Closing, Cleared'
    PROVE  LifecycleInv'
<1>. LifecycleInv /\ worker.at \notin {"none", "gone"}
  BY DEF Works
<1>1. row.status = "running" /\ saved \in BOOLEAN /\ SavedTells
  BY PartsAre DEF Parts, LifecycleInv, Admitted
<1>2. Admitted'
  BY DEF LifecycleInv, Admitted, Calm, Deleting, Closing
<1>3. DeletePhase' /\ OperatePhase' /\ ReportPhase'
  BY DEF DeletePhase, OperatePhase, ReportPhase, Deleting, Closing
<1>4. SavedTells' /\ GroupDone'
  BY <1>1 DEF SavedTells, GroupDone, Calm
<1>. QED
  BY <1>1, <1>2, <1>3, <1>4, CalmKeeps

(* The report.                                                              *)
LEMMA ReportKeeps == ASSUME LifecycleInv, Report PROVE LifecycleInv'
<1>1. /\ Works /\ Calm /\ UNCHANGED <<saved, helper>> /\ worker.at = "item"
      /\ worker.left = <<>>
  BY DEF Report, Works, Calm
<1>2. /\ row \in RowType /\ worker \in WorkerType /\ saved \in BOOLEAN
      /\ row.status = "running" /\ asked.operation = "remove" /\ host \in HostType
      /\ PreviewTyped
  BY <1>1, Types DEF LifecycleInv, Admitted, Deleting
<1>3. \A x \in Removable(preview) : x \in worker.failed \/ Gone(x)
  <2>1. Range(worker.left) = {}
    BY <1>1 DEF Range
  <2>. QED
    BY <1>1, <2>1 DEF LifecycleInv, DeletePhase, Deleting
<1>4. Removable(preview) \subseteq Containers \cup Resources
  BY <1>2 DEF Removable, PreviewTyped
<1>5. ASSUME Failed PROVE LifecycleInv'
  BY <1>1, <1>5, FailedKeeps
<1>6. ASSUME asked.route = "direct", worker.failed = {}, FinishJob("verified"), Goto("gone")
      PROVE  LifecycleInv'
  <2>1. Cleared
    BY <1>3, <1>6 DEF Cleared
  <2>. QED
    BY <1>1, <1>2, <1>6, <2>1, Succeeds
<1>7. ASSUME worker.failed \cap Containers = {},
             row' = [row EXCEPT !.cleanup = worker.failed # {}], Goto("verifying")
      PROVE  LifecycleInv'
  <2>1. /\ row' \in RowType /\ row'.status = "running" /\ row'.cleanup = (worker.failed # {})
        /\ worker' \in WorkerType /\ worker'.at = "verifying"
    BY <1>2, <1>7 DEF RowType, WorkerType, Goto, Steps
  <2>2. \A x \in Removable(preview) : Gone(x) \/ (x \in Resources /\ worker.failed # {})
    BY <1>3, <1>4, <1>7
  <2>3. Cleared'
    BY <1>1, <2>1, <2>2, CalmSame DEF Cleared
  <2>. QED
    BY <1>1, <1>2, <2>1, <2>3, Closes DEF Closing
<1>8. ASSUME UNCHANGED row, Goto("gone") PROVE LifecycleInv'
  BY <1>1, <1>2, <1>8, Leaves
<1>. QED
  BY <1>2, <1>5, <1>6, <1>7, <1>8, RequestIs DEF Report

(* What was cleared stays so while the worker closes.                       *)
LEMMA Cleans ==
    ASSUME LifecycleInv, worker.at \in Closing
    PROVE  /\ Cleared /\ asked.operation = "remove" /\ row.status = "running"
           /\ row \in RowType /\ worker \in WorkerType
           /\ (Calm /\ row'.cleanup = row.cleanup) => Cleared'
<1>1. Cleared
  BY DEF LifecycleInv, ReportPhase, Reported
<1>2. asked.operation = "remove" /\ row.status = "running"
  BY DEF LifecycleInv, Admitted, Closing
<1>3. (Calm /\ row'.cleanup = row.cleanup) => Cleared'
  BY <1>1, CalmSame DEF Cleared
<1>. QED
  BY <1>1, <1>2, <1>3, Types

(* The stages of the end.                                                   *)
LEMMA BeginVerifyingKeeps == ASSUME LifecycleInv, BeginVerifying PROVE LifecycleInv'
<1>1. Works /\ Calm /\ UNCHANGED <<saved, helper>> /\ worker.at \in Closing
  BY DEF BeginVerifying, Works, Calm, Closing
<1>2. /\ row' \in RowType /\ row'.status = "running" /\ row'.cleanup = row.cleanup
      /\ worker' \in WorkerType /\ worker'.at \in Closing
  BY <1>1, Cleans DEF BeginVerifying, Goto, RowType, WorkerType, Steps, Closing
<1>. QED
  BY <1>1, <1>2, Cleans, Closes

(* The project is looked at.                                                *)
LEMMA InspectKeeps == ASSUME LifecycleInv, Inspect PROVE LifecycleInv'
<1>1. Works /\ Calm /\ UNCHANGED <<saved, helper>> /\ worker.at \in Closing
  BY DEF Inspect, Works, Calm, Closing
<1>2. ASSUME UNCHANGED row, Goto("committing") PROVE LifecycleInv'
  <2>1. worker' \in WorkerType /\ worker'.at \in Closing
    BY <1>1, <1>2, Cleans DEF Goto, WorkerType, Steps, Closing
  <2>. QED
    BY <1>1, <1>2, <2>1, Cleans, Closes
<1>3. ASSUME Failed PROVE LifecycleInv'
  BY <1>1, <1>3, FailedKeeps
<1>. QED
  BY <1>2, <1>3 DEF Inspect

(* The commit is announced.                                                 *)
LEMMA BeginCommitKeeps == ASSUME LifecycleInv, BeginCommit PROVE LifecycleInv'
<1>1. Works /\ Calm /\ UNCHANGED <<saved, helper>> /\ worker.at \in Closing
  BY DEF BeginCommit, Works, Calm, Closing
<1>2. /\ row' \in RowType /\ row'.status = "running" /\ row'.cleanup = row.cleanup
      /\ worker' \in WorkerType /\ worker'.at \in Closing
  BY <1>1, Cleans DEF BeginCommit, Goto, RowType, WorkerType, Steps, Closing
<1>. QED
  BY <1>1, <1>2, Cleans, Closes

(* Metadata and result are one transaction.                                 *)
LEMMA CommitKeeps == ASSUME LifecycleInv, Commit PROVE LifecycleInv'
<1>1. Works /\ Calm /\ UNCHANGED helper /\ worker.at \in Closing
  BY DEF Commit, Works, Calm, Closing
<1>2. ASSUME FinishJob("verified"), saved' = FALSE, Goto("gone") PROVE LifecycleInv'
  BY <1>1, <1>2, Cleans, Succeeds
<1>3. ASSUME Failed, UNCHANGED saved PROVE LifecycleInv'
  BY <1>1, <1>3, FailedKeeps
<1>. QED
  BY <1>2, <1>3 DEF Commit

(* The worker dies.                                                         *)
LEMMA WorkerDiesKeeps == ASSUME LifecycleInv, WorkerDies PROVE LifecycleInv'
<1>1. Works /\ Calm /\ UNCHANGED <<row, saved, helper>> /\ Goto("gone")
  BY DEF WorkerDies, Works, Calm
<1>2. row \in RowType /\ row.status = "running"
  BY <1>1, Types DEF Works, LifecycleInv, Admitted
<1>. QED
  BY <1>1, <1>2, Leaves

(* The observer settles what a worker left.                                 *)
LEMMA ObserveKeeps == ASSUME LifecycleInv, Observe PROVE LifecycleInv'
<1>1. /\ row \in RowType /\ worker \in WorkerType /\ saved \in BOOLEAN /\ SavedTells
      /\ row.status = "running" /\ worker.at = "gone" /\ Calm /\ UNCHANGED <<worker, helper>>
  BY PartsAre DEF Parts, Observe, Calm
<1>2. DeletePhase' /\ OperatePhase'
  BY <1>1 DEF DeletePhase, OperatePhase, Deleting
<1>3. ASSUME FinishJob("recovery_required"), UNCHANGED saved PROVE LifecycleInv'
  <2>1. /\ row' \in RowType /\ row'.status = "failed" /\ row'.stage = row.stage
        /\ row'.cleanup = row.cleanup
    BY <1>1, <1>3 DEF FinishJob, RowType
  <2>2. Admitted'
    BY <1>1, <2>1 DEF LifecycleInv, Admitted, Calm
  <2>3. (Reported' => Reported) /\ (Cleared => Cleared')
    BY <1>1, <2>1, CalmSame DEF Reported, Cleared
  <2>4. ReportPhase'
    BY <2>3 DEF LifecycleInv, ReportPhase
  <2>5. SavedTells' /\ GroupDone'
    BY <1>1, <1>3, <2>1 DEF SavedTells, GroupDone, Calm
  <2>. QED
    BY <1>1, <1>2, <1>3, <2>1, <2>2, <2>4, <2>5, CalmKeeps
<1>4. ASSUME row.stage \in {"verifying", "committing"}, FinishJob("reconciled"), saved' = FALSE
      PROVE  LifecycleInv'
  <2>1. /\ row' \in RowType /\ row'.status = "succeeded" /\ row'.stage = row.stage
        /\ row'.cleanup = row.cleanup
    BY <1>1, <1>4 DEF FinishJob, RowType
  <2>2. Admitted' /\ asked.operation = "remove"
    BY <1>1, <1>4, <2>1 DEF LifecycleInv, Admitted, Calm
  <2>3. Cleared
    BY <1>4 DEF LifecycleInv, ReportPhase, Reported
  <2>4. ReportPhase'
    BY <1>1, <2>1, <2>3, CalmSame DEF ReportPhase, Cleared
  <2>5. SavedTells' /\ GroupDone'
    BY <1>1, <1>4, <2>1, <2>2 DEF SavedTells, GroupDone, Calm
  <2>. QED
    BY <1>1, <1>2, <1>4, <2>1, <2>2, <2>4, <2>5, CalmKeeps
<1>. QED
  BY <1>3, <1>4 DEF Observe

-----------------------------------------------------------------------------
(* Start, stop and restart.                                                 *)

(* The order of an operation has every container of the group.              *)
LEMMA OrderIs ==
    ASSUME LifecycleInv, ~Order.error
    PROVE  /\ Targets \subseteq Containers /\ Order.order \in Seq(Containers)
           /\ Range(Order.order) = Targets
<1>1. Targets \in SUBSET asked.scope /\ asked.scope \subseteq Containers
  BY Types, RequestIs DEF Targets
<1>2. CASE asked.project
  <2>. DEFINE p == [service |-> [c \in Targets |-> c], needs |-> asked.needs, after |-> asked.after]
  <2>1. Order = Labels(p)
    BY <1>2 DEF Order, Services
  <2>2. Items(p) = Targets
    BY DEF Items
  <2>3. Numbered(p)
    <3>1. Targets \in SUBSET Containers /\ Containers \subseteq Nat
      BY <1>1, NumbersAssumption
    <3>2. IsFiniteSet(Targets)
      BY <3>1, SizesAssumption, FS_Subset
    <3>. QED
      BY <2>2, <3>1, <3>2 DEF Numbered
  <2>. HIDE DEF p
  <2>4. Order.order \in Seq(Targets) /\ Range(Order.order) = Targets
    BY <2>1, <2>2, <2>3, LabelsAreRight
  <2>. QED
    BY <1>1, <2>4
<1>3. CASE ~asked.project
  <2>1. Order.order = SetToSeq(Targets)
    BY <1>3 DEF Order
  <2>2. IsFiniteSet(Targets)
    BY <1>1, SizesAssumption, FS_Subset
  <2>. QED
    BY <1>1, <2>1, <2>2, SetToSeqIs
<1>. QED
  BY <1>2, <1>3

(* The beginning of an operation.                                           *)
LEMMA BeginKeeps == ASSUME LifecycleInv, Begin PROVE LifecycleInv'
<1>1. /\ Works /\ Calm /\ UNCHANGED saved /\ row \in RowType /\ worker \in WorkerType
      /\ host \in HostType /\ PreviewTyped /\ saved \in BOOLEAN /\ SavedTells
      /\ disturbed \in [who : SUBSET Containers, times : 0..MaxDisturbed]
      /\ row.status = "running" /\ asked.operation # "remove" /\ asked \in Requests
  BY PartsAre DEF Parts, Begin, Works, Calm, LifecycleInv, Admitted
<1>2. Runtime \subseteq Containers
  BY <1>1, RequestIs DEF Runtime, Targets
<1>3. ASSUME UNCHANGED row, worker' \in WorkerType, worker'.at \in {"compose", "operate"}
      PROVE  /\ Admitted' /\ DeletePhase' /\ ReportPhase' /\ SavedTells' /\ GroupDone'
  <2>1. Admitted'
    BY <1>1, <1>3 DEF LifecycleInv, Admitted, Calm, Deleting, Closing
  <2>2. DeletePhase'
    BY <1>3 DEF DeletePhase, Deleting
  <2>3. (Reported' => Reported) /\ (Cleared => Cleared')
    BY <1>1, <1>3, CalmSame DEF Reported, Cleared, Closing
  <2>. QED
    BY <1>1, <1>3, <2>1, <2>2, <2>3
    DEF LifecycleInv, ReportPhase, SavedTells, GroupDone, Calm
<1>4. ASSUME Failed, UNCHANGED helper PROVE LifecycleInv'
  BY <1>1, <1>4, FailedKeeps
<1>5. ASSUME Runtime \cap asked.yard = {}, helper' = Runtime \cap asked.active,
             worker' = [worker EXCEPT !.at = "compose", !.found = Runtime], UNCHANGED row
      PROVE  LifecycleInv'
  <2>1. worker' \in WorkerType /\ worker'.at = "compose" /\ helper' \subseteq Containers
    BY <1>1, <1>2, <1>5 DEF WorkerType, Steps
  <2>2. OperatePhase'
    BY <2>1 DEF OperatePhase
  <2>3. YardRuns'
    <3>1. helper' \cap asked'.yard = {}
      BY <1>1, <1>5 DEF Calm
    <3>. QED
      BY <1>1, <3>1, CalmSame DEF LifecycleInv, YardRuns, Calm
  <2>4. Admitted' /\ DeletePhase' /\ ReportPhase' /\ SavedTells' /\ GroupDone'
    BY <1>3, <1>5, <2>1
  <2>5. Parts'
    BY <1>1, <1>5, <2>1, <2>2, <2>3, <2>4 DEF Parts, Calm, PreviewTyped
  <2>. QED
    BY <2>5, NextPartsAre
<1>6. ASSUME ~Order.error, ~Protected, UNCHANGED <<row, helper>>,
             worker' = [worker EXCEPT !.at = "operate", !.found = Targets,
                            !.left = IF asked.operation = "stop" THEN Reverse(Order.order)
                                     ELSE Order.order]
      PROVE  LifecycleInv'
  <2>. DEFINE left == IF asked.operation = "stop" THEN Reverse(Order.order) ELSE Order.order
  <2>1. left \in Seq(Containers) /\ Range(left) = Targets /\ Targets \subseteq Containers
    BY <1>6, OrderIs, ReverseIs
  <2>2. left \in Seq(Containers \cup Resources)
    BY <2>1
  <2>3. worker' = [worker EXCEPT !.at = "operate", !.found = Targets, !.left = left]
    BY <1>6
  <2>. HIDE DEF left
  <2>4. /\ worker' \in WorkerType /\ worker'.at = "operate" /\ worker'.found = Targets
        /\ worker'.left = left
    BY <1>1, <2>1, <2>2, <2>3 DEF WorkerType, Steps
  <2>5. asked.operation = "stop" => Targets \cap asked.yard = {}
    BY <1>6 DEF Protected
  <2>6. OperatePhase'
    BY <1>1, <2>1, <2>4, <2>5 DEF OperatePhase, Calm
  <2>7. Admitted' /\ DeletePhase' /\ ReportPhase' /\ SavedTells' /\ GroupDone'
    BY <1>3, <1>6, <2>4
  <2>. QED
    BY <1>1, <1>6, <2>4, <2>6, <2>7, CalmKeeps
<1>. QED
  BY <1>4, <1>5, <1>6 DEF Begin

(* The container an operation is at.                                        *)
LEMMA CurrentIs ==
    ASSUME LifecycleInv, worker.at = "operate", worker.left # <<>>
    PROVE  /\ Item \in Containers /\ asked.operation # "remove"
           /\ asked.operation \in {"start", "stop", "restart"}
           /\ ~Skipped(Item) => Item \notin asked.yard
           /\ Skipped(Item) => InPlace(Item)
           /\ Tail(worker.left) \in Seq(Containers \cup Resources)
           /\ Range(worker.left) = {Item} \cup Range(Tail(worker.left))
           /\ worker \in WorkerType
<1>1. worker \in WorkerType /\ worker.left \in Seq(Containers \cup Resources)
  BY Types DEF WorkerType
<1>2. /\ Tail(worker.left) \in Seq(Containers \cup Resources)
      /\ Range(worker.left) = {Item} \cup Range(Tail(worker.left))
  BY <1>1, HeadAndTail DEF Item
<1>3. /\ Range(worker.left) \subseteq Containers
      /\ asked.operation = "stop" => Range(worker.left) \cap asked.yard = {}
  BY DEF LifecycleInv, OperatePhase
<1>4. asked.operation \in {"start", "stop", "restart"} /\ asked.operation # "remove"
  BY Types, RequestIs DEF LifecycleInv, Admitted
<1>5. ~Skipped(Item) => Item \notin asked.yard
  BY <1>2, <1>3, <1>4 DEF Skipped
<1>6. Skipped(Item) => InPlace(Item)
  <2>1. Item \in asked.yard => Item \in disturbed.who \cup OneShots \/ Up(Item)
    BY DEF LifecycleInv, YardRuns
  <2>. QED
    BY <2>1, <1>4 DEF Skipped, InPlace, Wanted
<1>. QED
  BY <1>1, <1>2, <1>3, <1>4, <1>5, <1>6

(* An operation goes on to its next container.                              *)
LEMMA NextContainerKeeps ==
    ASSUME LifecycleInv, worker.at = "operate", worker.left # <<>>, Evolves,
           UNCHANGED <<asked, preview, row, saved, helper>>,
           NEW failed \in BOOLEAN, NextContainer(failed),
           \A c : c = Item => failed \/ InPlace(c)'
    PROVE  LifecycleInv'
<1>. DEFINE i == Item
<1>1. /\ row \in RowType /\ worker \in WorkerType /\ PreviewTyped /\ saved \in BOOLEAN
      /\ helper \subseteq Containers /\ SavedTells /\ row.status = "running"
      /\ asked.operation # "remove"
  BY PartsAre DEF Parts, LifecycleInv, Admitted
<1>2. /\ i \in Containers /\ Tail(worker.left) \in Seq(Containers \cup Resources)
      /\ Range(worker.left) = {i} \cup Range(Tail(worker.left))
  BY CurrentIs
<1>3. failed \/ \A c : c = i => InPlace(c)'
  OBVIOUS
<1>4. worker' = [worker EXCEPT !.left = Tail(@),
                               !.failed = IF failed THEN @ \cup {i} ELSE @]
  BY DEF NextContainer
<1>. HIDE DEF i
<1>5. /\ worker' \in WorkerType /\ worker'.at = "operate" /\ worker'.left = Tail(worker.left)
      /\ worker'.found = worker.found
      /\ worker.failed \subseteq worker'.failed /\ (failed => i \in worker'.failed)
  BY <1>1, <1>2, <1>4 DEF WorkerType
<1>6. \A c \in worker.found \ Range(worker'.left) : c \in worker'.failed \/ InPlace(c)'
  <2>1. \A c \in worker.found \ Range(worker.left) : c \in worker.failed \/ InPlace(c)
    BY DEF LifecycleInv, OperatePhase
  <2>2. \A c \in Containers : InPlace(c) => InPlace(c)'
    BY <1>1, EvolvesSame
  <2>3. \A c : c = i => c \in worker'.failed \/ InPlace(c)'
    BY <1>3, <1>5
  <2>4. worker.found \subseteq Containers
    BY <1>1 DEF WorkerType
  <2>. QED
    BY <1>2, <1>5, <2>1, <2>2, <2>3, <2>4
<1>7. OperatePhase'
  <2>1. /\ Range(worker.left) \subseteq Containers
        /\ asked.operation = "stop" => Range(worker.left) \cap asked.yard = {}
    BY DEF LifecycleInv, OperatePhase
  <2>. QED
    BY <1>2, <1>5, <1>6, <2>1 DEF OperatePhase
<1>8. Admitted'
  BY <1>1, <1>5 DEF LifecycleInv, Admitted, Deleting, Closing
<1>9. DeletePhase'
  BY <1>5 DEF DeletePhase, Deleting
<1>10. ReportPhase'
  <2>1. Reported' => Reported
    BY <1>5 DEF Reported, Closing
  <2>2. \A x : Gone(x) => Gone(x)'
    BY EvolvesSame
  <2>3. Removable(preview)' = Removable(preview)
    BY DEF Removable
  <2>. QED
    BY <2>1, <2>2, <2>3 DEF LifecycleInv, ReportPhase, Cleared
<1>11. SavedTells' /\ GroupDone' /\ YardRuns'
  BY <1>1, EvolvesSame DEF SavedTells, GroupDone
<1>12. Parts'
  BY <1>1, <1>5, <1>7, <1>8, <1>9, <1>10, <1>11 DEF Parts, Evolves, PreviewTyped
<1>. QED
  BY <1>12, NextPartsAre

(* A call that has its effect puts the container in place.                  *)
LEMMA EffectEvolves ==
    ASSUME LifecycleInv, NEW c \in Containers, Exists(c), c \notin asked.yard,
           asked.operation # "remove", host' = [host EXCEPT !.state[c] = After(c)],
           UNCHANGED <<asked, disturbed>>
    PROVE  Evolves /\ host'.state[c] = After(c)
<1>1. host \in HostType /\ disturbed \in [who : SUBSET Containers, times : 0..MaxDisturbed]
  BY Types
<1>2. /\ host' \in HostType /\ host'.there = host.there /\ host'.state[c] = After(c)
      /\ \A d \in Containers \ {c} : host'.state[d] = host.state[d]
  BY <1>1 DEF HostType, After, States
<1>3. ASSUME NEW d \in Containers, Wanted(d) PROVE Wanted(d)'
  <2>1. CASE d = c
    BY <1>2, <2>1 DEF Wanted, Up, After
  <2>2. CASE d # c
    BY <1>2, <1>3, <2>2 DEF Wanted, Up
  <2>. QED
    BY <2>1, <2>2
<1>4. \A d \in Containers : ~Exists(d) => host'.state[d] = "none"
  BY <1>2 DEF Exists
<1>5. \A d \in Containers : d \in asked.yard => host'.state[d] = host.state[d]
  BY <1>2
<1>. QED
  BY <1>1, <1>2, <1>3, <1>4, <1>5 DEF Evolves

(* One container is started, stopped or restarted.                          *)
LEMMA OperateKeeps == ASSUME LifecycleInv, Operate PROVE LifecycleInv'
<1>1. /\ worker.at = "operate" /\ worker.left # <<>>
      /\ UNCHANGED <<asked, preview, row, saved, helper, disturbed>>
  BY DEF Operate
<1>2. ASSUME Skipped(Item), NextContainer(FALSE), UNCHANGED host PROVE LifecycleInv'
  <2>1. InPlace(Item)
    BY <1>1, <1>2, CurrentIs
  <2>2. \A c : c = Item => InPlace(c)'
    BY <1>1, <1>2, <2>1, CalmSame DEF Calm
  <2>. QED
    BY <1>1, <1>2, <2>2, StillEvolves, NextContainerKeeps
<1>3. ASSUME ~Skipped(Item), Exists(Item), host' = [host EXCEPT !.state[Item] = After(Item)],
             NEW failed \in BOOLEAN, NextContainer(failed)
      PROVE  LifecycleInv'
  <2>1. Item \in Containers /\ Item \notin asked.yard /\ asked.operation # "remove"
    BY <1>1, <1>3, CurrentIs
  <2>2. Evolves /\ host'.state[Item] = After(Item)
    BY <1>1, <1>3, <2>1, EffectEvolves
  <2>3. \A c : c = Item => InPlace(c)'
    BY <1>1, <2>2 DEF InPlace, Wanted, Up, After
  <2>. QED
    BY <1>1, <1>3, <2>2, <2>3, NextContainerKeeps
<1>4. ASSUME NextContainer(TRUE), UNCHANGED host PROVE LifecycleInv'
  BY <1>1, <1>4, StillEvolves, NextContainerKeeps
<1>. QED
  BY <1>2, <1>3, <1>4 DEF Operate

(* Yard's own restart is handed over.                                       *)
LEMMA LaunchSelfRestartKeeps == ASSUME LifecycleInv, LaunchSelfRestart PROVE LifecycleInv'
<1>1. Works /\ Calm /\ UNCHANGED <<saved, helper>>
  BY DEF LaunchSelfRestart, Works, Calm
<1>2. ASSUME row' = [row EXCEPT !.handed = TRUE], Goto("gone") PROVE LifecycleInv'
  <2>1. row \in RowType /\ row.status = "running"
    BY <1>1, Types DEF Works, LifecycleInv, Admitted
  <2>2. /\ row' \in RowType /\ row'.status = "running" /\ row'.stage = row.stage
        /\ row'.cleanup = row.cleanup
    BY <1>2, <2>1 DEF RowType
  <2>. QED
    BY <1>1, <1>2, <2>2, Leaves
<1>3. ASSUME Failed PROVE LifecycleInv'
  BY <1>1, <1>3, FailedKeeps
<1>. QED
  BY <1>2, <1>3 DEF LaunchSelfRestart

(* The result of a group.                                                   *)
LEMMA FinishGroupKeeps == ASSUME LifecycleInv, FinishGroup PROVE LifecycleInv'
<1>1. /\ Works /\ Calm /\ UNCHANGED <<saved, helper>> /\ asked.operation # "remove"
      /\ saved \in BOOLEAN
  BY Types DEF FinishGroup, Works, Calm, LifecycleInv, Admitted
<1>2. ASSUME worker.failed = {}, FinishJob("verified"), Goto("gone") PROVE LifecycleInv'
  <2>1. Range(worker.left) = {}
    BY DEF FinishGroup, Range
  <2>2. \A c \in worker.found : InPlace(c)
    BY <1>2, <2>1 DEF FinishGroup, LifecycleInv, OperatePhase
  <2>. QED
    BY <1>1, <1>2, <2>2, Succeeds
<1>3. ASSUME Failed PROVE LifecycleInv'
  BY <1>1, <1>3, FailedKeeps
<1>. QED
  BY <1>2, <1>3 DEF FinishGroup

(* The Compose helper has ended.                                            *)
LEMMA ComposeDoneKeeps == ASSUME LifecycleInv, ComposeDone PROVE LifecycleInv'
<1>1. /\ row \in RowType /\ worker \in WorkerType /\ saved \in BOOLEAN /\ SavedTells
      /\ Calm /\ UNCHANGED <<row, saved, helper>> /\ row.status = "running"
      /\ worker.at = "compose" /\ asked.operation # "remove"
  BY PartsAre DEF Parts, ComposeDone, Calm, LifecycleInv, Admitted
<1>2. worker' \in WorkerType /\ worker'.at = "settled"
  BY <1>1 DEF ComposeDone, Goto, WorkerType, Steps
<1>3. Admitted'
  BY <1>1, <1>2 DEF LifecycleInv, Admitted, Calm, Deleting, Closing
<1>4. DeletePhase' /\ OperatePhase'
  BY <1>2 DEF DeletePhase, OperatePhase, Deleting
<1>5. ReportPhase'
  <2>1. (Reported' => Reported) /\ (Cleared => Cleared')
    BY <1>1, <1>2, CalmSame DEF Reported, Cleared, Closing
  <2>. QED
    BY <2>1 DEF LifecycleInv, ReportPhase
<1>6. SavedTells' /\ GroupDone'
  BY <1>1 DEF SavedTells, GroupDone, Calm
<1>. QED
  BY <1>1, <1>2, <1>3, <1>4, <1>5, <1>6, CalmKeeps

(* The Compose helper fails, or the wait for it does.                       *)
LEMMA ComposeFailsKeeps == ASSUME LifecycleInv, ComposeFails PROVE LifecycleInv'
<1>1. Calm /\ UNCHANGED saved /\ helper' \subseteq helper
  BY DEF ComposeFails, Calm
<1>2. CASE worker.at = "compose"
  BY <1>1, <1>2, FailedKeeps DEF ComposeFails, Works
<1>3. CASE worker.at # "compose"
  <2>1. UNCHANGED <<row, worker>>
    BY <1>3 DEF ComposeFails
  <2>. QED
    BY <1>1, <2>1, StillEvolves, OthersKeep DEF Calm
<1>. QED
  BY <1>2, <1>3

(* What there was is looked at again.                                       *)
LEMMA ReadAfterKeeps == ASSUME LifecycleInv, ReadAfter PROVE LifecycleInv'
<1>1. /\ Works /\ Calm /\ UNCHANGED <<saved, helper>> /\ asked.operation # "remove"
      /\ saved \in BOOLEAN
  BY Types DEF ReadAfter, Works, Calm, LifecycleInv, Admitted
<1>2. ASSUME \A c \in worker.found \cap asked.active : Exists(c) /\ InState(c),
             FinishJob("verified"), Goto("gone")
      PROVE  LifecycleInv'
  <2>1. \A c \in worker.found \cap asked.active : InPlace(c)
    BY <1>2 DEF InState, InPlace
  <2>. QED
    BY <1>1, <1>2, <2>1, Succeeds
<1>3. ASSUME Failed PROVE LifecycleInv'
  BY <1>1, <1>3, FailedKeeps
<1>. QED
  BY <1>2, <1>3 DEF ReadAfter

-----------------------------------------------------------------------------
(* The helper, the containers and the host.                                 *)

(* The helper acts on a container.                                          *)
LEMMA ComposeActsKeeps ==
    ASSUME LifecycleInv, NEW c \in Containers, ComposeActs(c)
    PROVE  LifecycleInv'
<1>1. /\ asked.operation # "remove" /\ c \notin asked.yard
      /\ UNCHANGED <<asked, preview, row, saved, worker, disturbed>> /\ helper' \subseteq helper
  BY DEF ComposeActs, LifecycleInv, Admitted, YardRuns
<1>2. Evolves
  BY <1>1, EffectEvolves, StillEvolves DEF ComposeActs
<1>. QED
  BY <1>1, <1>2, OthersKeep

(* A one-shot container completes.                                          *)
LEMMA CompleteKeeps ==
    ASSUME LifecycleInv, NEW c \in Containers, Complete(c)
    PROVE  LifecycleInv'
<1>1. /\ c \in OneShots /\ Up(c)
      /\ UNCHANGED <<asked, preview, row, saved, worker, helper, disturbed>>
  BY DEF Complete
<1>2. host \in HostType /\ disturbed \in [who : SUBSET Containers, times : 0..MaxDisturbed]
  BY Types
<1>3. PICK end \in {"done", "failed"} : host' = [host EXCEPT !.state[c] = end]
  BY DEF Complete
<1>4. /\ host' \in HostType /\ host'.there = host.there
      /\ \A d \in Containers \ {c} : host'.state[d] = host.state[d]
  BY <1>2, <1>3 DEF HostType, States
<1>5. Evolves
  BY <1>1, <1>2, <1>4 DEF Evolves, Exists, Up, Wanted
<1>. QED
  BY <1>1, <1>5, OthersKeep

(* Other hands change a container.                                          *)
LEMMA HostActsKeeps ==
    ASSUME LifecycleInv, NEW c \in Containers, HostActs(c)
    PROVE  LifecycleInv'
<1>1. UNCHANGED <<asked, preview, row, saved, worker, helper>>
  BY DEF HostActs
<1>2. host \in HostType /\ disturbed \in [who : SUBSET Containers, times : 0..MaxDisturbed]
  BY Types
<1>3. /\ disturbed' \in [who : SUBSET Containers, times : 0..MaxDisturbed]
      /\ disturbed'.who = disturbed.who \cup {c}
  BY <1>2, MaxDisturbedAssumption DEF HostActs
<1>4. PICK state \in States : host' = [host EXCEPT !.state[c] = state]
  BY DEF HostActs
<1>5. /\ host' \in HostType /\ host'.there = host.there
      /\ \A d \in Containers \ {c} : host'.state[d] = host.state[d]
  BY <1>2, <1>4 DEF HostType
<1>6. Evolves
  BY <1>1, <1>3, <1>5 DEF Evolves, Exists, Up, Wanted
<1>. QED
  BY <1>1, <1>6, OthersKeep

(* Other hands edit the source.                                             *)
LEMMA EditSourceKeeps == ASSUME LifecycleInv, EditSource PROVE LifecycleInv'
<1>1. UNCHANGED <<asked, preview, row, saved, worker, helper>>
  BY DEF EditSource
<1>2. host \in HostType /\ disturbed \in [who : SUBSET Containers, times : 0..MaxDisturbed]
  BY Types
<1>3. /\ disturbed' \in [who : SUBSET Containers, times : 0..MaxDisturbed]
      /\ disturbed'.who = disturbed.who
  BY <1>2, MaxDisturbedAssumption DEF EditSource
<1>4. host' \in HostType /\ host'.there = host.there /\ host'.state = host.state
  BY <1>2 DEF HostType, EditSource
<1>5. Evolves
  BY <1>1, <1>3, <1>4 DEF Evolves, Exists, Up, Wanted
<1>. QED
  BY <1>1, <1>5, OthersKeep

-----------------------------------------------------------------------------
(* Theorems.                                                                *)

(* In the beginning nothing was asked for and Yard runs.                    *)
LEMMA InitKeeps == ASSUME Init PROVE LifecycleInv
<1>1. /\ asked \in Requests /\ host = asked.host /\ preview = NoPlan /\ helper = {}
      /\ row = [status |-> "none", stage |-> "queued", outcome |-> "", cleanup |-> FALSE,
                handed |-> FALSE]
      /\ saved = (asked.route = "managed") /\ worker = NoWorker
      /\ disturbed = [who |-> {}, times |-> 0]
  BY DEF Init
<1>2. host \in HostType /\ asked.yard \subseteq {c \in Containers : host.state[c] = "up"}
  BY <1>1, RequestIs
<1>3. row \in RowType /\ row.status = "none" /\ row.stage = "queued"
  BY <1>1 DEF RowType
<1>4. worker \in WorkerType /\ worker.at = "none"
  <2>1. <<>> \in Seq(Containers \cup Resources)
    OBVIOUS
  <2>. QED
    BY <1>1, <2>1 DEF WorkerType, NoWorker, Steps
<1>5. disturbed \in [who : SUBSET Containers, times : 0..MaxDisturbed]
  <2>1. 0 \in 0..MaxDisturbed /\ {} \in SUBSET Containers
    BY MaxDisturbedAssumption
  <2>2. disturbed = [who |-> {}, times |-> 0]
    BY <1>1
  <2>. QED
    BY <2>1, <2>2
<1>6. PreviewTyped
  <2>1. preview = [source |-> "none", items |-> <<>>]
    BY <1>1 DEF NoPlan
  <2>2. preview.source = "none" /\ preview.items = <<>>
    BY <2>1
  <2>3. DOMAIN preview.items = {} /\ Range(preview.items) = {}
    BY <2>2 DEF Range
  <2>. QED
    BY <2>2, <2>3 DEF PreviewTyped
<1>7. Admitted /\ YardRuns
  BY <1>1, <1>2, <1>3, <1>4 DEF Admitted, YardRuns, Up, Deleting, Closing
<1>8. DeletePhase /\ ReportPhase /\ OperatePhase
  BY <1>3, <1>4 DEF DeletePhase, ReportPhase, OperatePhase, Reported, Deleting, Closing
<1>9. SavedTells /\ GroupDone /\ saved \in BOOLEAN
  BY <1>1, <1>3 DEF SavedTells, GroupDone
<1>10. Parts
  BY <1>1, <1>2, <1>3, <1>4, <1>5, <1>6, <1>7, <1>8, <1>9 DEF Parts
<1>. QED
  BY <1>10, PartsAre

(* Every step keeps the invariant.                                          *)
LEMMA StepKeeps == ASSUME LifecycleInv, [Next]_vars PROVE LifecycleInv'
<1>1. CASE Removal
  BY <1>1, PreviewRemovalKeeps, AssessKeeps, StopTargetKeeps, DeleteTargetKeeps,
     ForceTargetKeeps, CheckUnusedKeeps, DropResourceKeeps, SkipLateKeeps, ReportKeeps,
     BeginVerifyingKeeps, InspectKeeps, BeginCommitKeeps, CommitKeeps
  DEF Removal
<1>2. CASE Operation
  BY <1>2, BeginKeeps, OperateKeeps, LaunchSelfRestartKeeps, FinishGroupKeeps,
     ComposeDoneKeeps, ComposeFailsKeeps, ReadAfterKeeps, ComposeActsKeeps
  DEF Operation
<1>3. CASE Submit \/ Expire \/ WorkerDies \/ Observe \/ EditSource
  BY <1>3, SubmitKeeps, ExpireKeeps, WorkerDiesKeeps, ObserveKeeps, EditSourceKeeps
<1>4. CASE \E c \in Containers : Complete(c) \/ HostActs(c)
  BY <1>4, CompleteKeeps, HostActsKeeps
<1>5. CASE UNCHANGED vars
  BY <1>5, StillEvolves, OthersKeep DEF vars
<1>. QED
  BY <1>1, <1>2, <1>3, <1>4, <1>5 DEF Next

(* The inductive invariant: what is deleted next was confirmed, what was    *)
(* reported is gone, what was passed is in place, and Yard is left alone    *)
(* (RemoveWithChoices, execute, Project, LifecycleFiles).                   *)
THEOREM Invariance == Spec => []LifecycleInv
<1>1. Init => LifecycleInv
  BY InitKeeps
<1>2. LifecycleInv /\ [Next]_vars => LifecycleInv'
  BY StepKeeps
<1>. QED
  BY <1>1, <1>2, PTL DEF Spec

(* Every variable keeps its type.                                           *)
THEOREM TypeCorrect == Spec => []TypeOK
<1>1. LifecycleInv => TypeOK
  BY DEF LifecycleInv
<1>. QED
  BY <1>1, Invariance, PTL

(* A recorded success is true of the host and of the metadata, whatever     *)
(* failed, died or was reconciled before (execute, Reconcile, Project).     *)
THEOREM SuccessIsTrue == Spec => []VerifiedIsTrue
<1>1. LifecycleInv => VerifiedIsTrue
  BY DEF LifecycleInv
<1>. QED
  BY <1>1, Invariance, PTL

(* The worker deletes only what was confirmed and is unused, and never      *)
(* touches Yard's own container (RemoveWithChoices, removeUnusedResource).  *)
THEOREM DeletesOnlyConfirmed == Spec => OnlyConfirmed
<1>. DEFINE Confirmed ==
           worker' # worker =>
             /\ \A r \in host.there \ host'.there :
                    /\ r \in Removable(preview)
                    /\ \A c \in worker.found : r \notin asked.uses[c]
             /\ \A c \in Present : host'.state[c] = "none" => c \in Removable(preview)
             /\ \A c \in asked.yard : host'.state[c] = host.state[c]
<1>1. ASSUME LifecycleInv, [Next]_vars PROVE [Confirmed]_vars
  <2>1. host \in HostType /\ asked.yard \subseteq Containers
    BY <1>1, Types, RequestIs
  <2>2. ASSUME UNCHANGED host PROVE Confirmed
    BY <2>2 DEF Present, Exists
  <2>3. ASSUME NEW i, i \in Removable(preview), i \in Containers, i \notin asked.yard,
               NEW state, host' = [host EXCEPT !.state[i] = state]
        PROVE  Confirmed
    <3>1. host'.there = host.there /\ \A c \in Containers \ {i} : host'.state[c] = host.state[c]
      BY <2>1, <2>3 DEF HostType
    <3>. QED
      BY <2>1, <2>3, <3>1 DEF Present, Exists
  <2>4. CASE StopTarget \/ DeleteTarget \/ ForceTarget
    <3>1. worker.at \in Deleting /\ worker.left # <<>> /\ Item \in Containers
      BY <1>1, <2>4 DEF StopTarget, DeleteTarget, ForceTarget, Deleting, LifecycleInv, DeletePhase
    <3>2. Item \in Removable(preview) /\ Item \notin asked.yard
      BY <1>1, <3>1, ItemIs
    <3>3. \/ UNCHANGED host
          \/ \E state : host' = [host EXCEPT !.state[Item] = state]
      BY <2>4 DEF StopTarget, DeleteTarget, ForceTarget
    <3>. QED
      BY <2>2, <2>3, <3>1, <3>2, <3>3
  <2>5. CASE DropResource
    <3>1. /\ worker.at \in Deleting /\ worker.left # <<>> /\ Item \in Resources
          /\ \A c \in worker.found : Item \notin asked.uses[c]
      BY <1>1, <2>5 DEF DropResource, Deleting, LifecycleInv, DeletePhase
    <3>2. Item \in Removable(preview)
      BY <1>1, <3>1, ItemIs
    <3>3. ASSUME host' = [host EXCEPT !.there = @ \ {Item}] PROVE Confirmed
      <4>1. host'.there = host.there \ {Item} /\ host'.state = host.state
        BY <2>1, <3>3 DEF HostType
      <4>. QED
        BY <3>1, <3>2, <4>1 DEF Present, Exists
    <3>. QED
      BY <2>2, <2>5, <3>3 DEF DropResource
  <2>6. CASE Operate
    <3>1. worker.at = "operate" /\ worker.left # <<>>
      BY <2>6 DEF Operate
    <3>2. ASSUME ~Skipped(Item), host' = [host EXCEPT !.state[Item] = After(Item)]
          PROVE  Confirmed
      <4>1. Item \in Containers /\ Item \notin asked.yard
        BY <1>1, <3>1, <3>2, CurrentIs
      <4>2. /\ host'.there = host.there /\ host'.state[Item] # "none"
            /\ \A c \in Containers \ {Item} : host'.state[c] = host.state[c]
        BY <2>1, <3>2, <4>1 DEF HostType, After
      <4>. QED
        BY <2>1, <4>1, <4>2 DEF Present, Exists
    <3>. QED
      BY <2>2, <2>6, <3>2 DEF Operate
  <2>7. CASE \/ PreviewRemoval \/ Assess \/ CheckUnused \/ SkipLate \/ Report
             \/ BeginVerifying \/ Inspect \/ BeginCommit \/ Commit
    BY <2>2, <2>7 DEF PreviewRemoval, Assess, CheckUnused, SkipLate, Report, BeginVerifying,
                      Inspect, BeginCommit, Commit
  <2>8. CASE \/ Begin \/ LaunchSelfRestart \/ FinishGroup \/ ComposeDone \/ ComposeFails
             \/ ReadAfter
    BY <2>2, <2>8 DEF Begin, LaunchSelfRestart, FinishGroup, ComposeDone, ComposeFails, ReadAfter
  <2>9. CASE \/ EditSource
             \/ \E c \in Containers : ComposeActs(c) \/ Complete(c) \/ HostActs(c)
    BY <2>9 DEF EditSource, ComposeActs, Complete, HostActs
  <2>10. CASE Submit \/ Expire \/ WorkerDies \/ Observe
    BY <2>2, <2>10 DEF Submit, Expire, WorkerDies, Observe
  <2>11. CASE UNCHANGED vars
    BY <2>11
  <2>. HIDE DEF Confirmed
  <2>. QED
    BY <1>1, <2>4, <2>5, <2>6, <2>7, <2>8, <2>9, <2>10, <2>11 DEF Next, Removal, Operation
<1>2. LifecycleInv /\ [Next]_vars => [Confirmed]_vars
  BY <1>1
<1>. QED
  BY <1>2, Invariance, PTL DEF Spec, OnlyConfirmed
=============================================================================
