-------------------------- MODULE ComposeOrderProofs --------------------------
(***************************************************************************)
(* Proofs about ComposeOrder: the depth-first visit of composeorder.Labels  *)
(* ends, fails exactly for what cannot be ordered, and otherwise puts every *)
(* container behind what it depends on.                                     *)
(*                                                                          *)
(* Induction over numbers is the fact that a finite set of counterexamples  *)
(* has a least one (Induction); the recursion ends because every visit has  *)
(* one container more that is being visited than the visit it serves.       *)
(***************************************************************************)
EXTENDS ComposeOrder, FiniteSetTheorems, TLAPS

-----------------------------------------------------------------------------
(* Finite sets of numbers.                                                  *)

Rank(S) == [x \in S |-> Cardinality({y \in S : y < x}) + 1]

(* The rank of an element is a bijection from the set to 1..Cardinality.    *)
LEMMA Ranked ==
    ASSUME NEW S \in SUBSET Nat, IsFiniteSet(S)
    PROVE  /\ Rank(S) \in [S -> 1..Cardinality(S)]
           /\ \A x, y \in S : x < y => Rank(S)[x] < Rank(S)[y]
           /\ \A x, y \in S : Rank(S)[x] = Rank(S)[y] => x = y
           /\ \A i \in 1..Cardinality(S) : \E x \in S : Rank(S)[x] = i
<1>. DEFINE Below(x) == {y \in S : y < x}  n == Cardinality(S)  f == Rank(S)
<1>1. ASSUME NEW x \in S
      PROVE  Below(x) \subseteq S /\ IsFiniteSet(Below(x)) /\ Cardinality(Below(x)) \in Nat
  <2>1. Below(x) \in SUBSET S
    OBVIOUS
  <2>. QED
    BY <2>1, FS_Subset, FS_CardinalityType
<1>2. n \in Nat
  BY FS_CardinalityType
<1>3. ASSUME NEW x \in S
      PROVE  Cardinality(Below(x)) < n
  <2>1. Below(x) \in SUBSET S /\ Below(x) # S
    OBVIOUS
  <2>2. Cardinality(Below(x)) <= n /\ (n = Cardinality(Below(x)) => S = Below(x))
    BY <2>1, FS_Subset
  <2>. QED
    BY <2>1, <2>2, <1>1, <1>2
<1>4. f \in [S -> 1..n] /\ \A x \in S : f[x] = Cardinality(Below(x)) + 1
  <2>1. \A x \in S : Cardinality(Below(x)) + 1 \in 1..n
    BY <1>1, <1>2, <1>3
  <2>2. f = [x \in S |-> Cardinality(Below(x)) + 1]
    BY DEF Rank
  <2>. QED
    BY <2>1, <2>2
<1>5. ASSUME NEW x \in S, NEW y \in S, x < y
      PROVE  f[x] < f[y]
  <2>. x \in Nat /\ y \in Nat /\ S \subseteq Nat
    OBVIOUS
  <2>0. \A z \in Nat : z < x => z < y
    BY <1>5
  <2>1. Below(x) \in SUBSET Below(y) /\ x \in Below(y) /\ x \notin Below(x)
    <3>1. \A z \in S : z < x => z < y
      BY <2>0
    <3>2. x < y /\ ~(x < x)
      BY <1>5
    <3>. QED
      BY <3>1, <3>2, Zenon
  <2>2. /\ Cardinality(Below(x)) <= Cardinality(Below(y))
        /\ Cardinality(Below(y)) = Cardinality(Below(x)) => Below(y) = Below(x)
    BY <2>1, <1>1, FS_Subset
  <2>3. Cardinality(Below(x)) < Cardinality(Below(y))
    BY <2>1, <2>2, <1>1
  <2>. HIDE DEF f, Below
  <2>. QED
    BY <2>3, <1>1, <1>4
<1>6. ASSUME NEW x \in S, NEW y \in S, f[x] = f[y]
      PROVE  x = y
  <2>. HIDE DEF f
  <2>. x \in Nat /\ y \in Nat /\ f[x] \in Nat /\ f[y] \in Nat
    BY <1>2, <1>4
  <2>. QED
    BY <1>5, <1>6
<1>7. \A i \in 1..n : \E x \in S : f[x] = i
  <2>. HIDE DEF f, Below, n
  <2>1. f \in Injection(S, 1..n)
    BY <1>4, <1>6 DEF Injection, IsInjective
  <2>2. IsFiniteSet(1..n) /\ Cardinality(1..n) = n
    BY <1>2, FS_Interval
  <2>3. f \in Surjection(S, 1..n)
    BY <2>1, <2>2, FS_Injection DEF n
  <2>. QED
    BY <2>3 DEF Surjection
<1>. QED
  BY <1>4, <1>5, <1>6, <1>7

(* The sequence of a set has its elements, each once, the lower first.      *)
LEMMA InOrderIs ==
    ASSUME NEW S \in SUBSET Nat, IsFiniteSet(S)
    PROVE  /\ InOrder(S) \in Seq(S) /\ Range(InOrder(S)) = S
           /\ Len(InOrder(S)) = Cardinality(S)
           /\ \A j, k \in 1..Len(InOrder(S)) : InOrder(S)[j] = InOrder(S)[k] => j = k
           /\ \A j, k \in 1..Len(InOrder(S)) : InOrder(S)[j] < InOrder(S)[k] => j < k
<1>. DEFINE n == Cardinality(S)  s == InOrder(S)
            Pick(i) == CHOOSE x \in S : Cardinality({y \in S : y < x}) = i - 1
<1>1. n \in Nat
  BY FS_CardinalityType
<1>2. ASSUME NEW x \in S
      PROVE  /\ Cardinality({y \in S : y < x}) \in Nat
             /\ Rank(S)[x] = Cardinality({y \in S : y < x}) + 1
  <2>1. {y \in S : y < x} \in SUBSET S
    OBVIOUS
  <2>. QED
    BY <2>1, FS_Subset, FS_CardinalityType DEF Rank
<1>3. ASSUME NEW i \in 1..n
      PROVE  Pick(i) \in S /\ Rank(S)[Pick(i)] = i
  <2>1. PICK x \in S : Rank(S)[x] = i
    BY Ranked
  <2>2. Cardinality({y \in S : y < x}) = i - 1
    BY <2>1, <1>1, <1>2
  <2>3. Pick(i) \in S /\ Cardinality({y \in S : y < Pick(i)}) = i - 1
    BY <2>2
  <2>4. \A z \in S : Cardinality({y \in S : y < z}) = i - 1 => Rank(S)[z] = i
    <3>1. i \in Nat
      BY <1>1
    <3>. QED
      BY <3>1, <1>2
  <2>. HIDE DEF Pick
  <2>. QED
    BY <2>3, <2>4
<1>4. s = [i \in 1..n |-> Pick(i)]
  BY DEF InOrder
<1>. HIDE DEF Pick, s
<1>5. s \in [1..n -> S]
  BY <1>3, <1>4
<1>6. s \in Seq(S)
  BY <1>1, <1>5
<1>7. ASSUME NEW x \in S PROVE \E i \in 1..n : s[i] = x
  <2>1. Rank(S)[x] \in 1..n
    BY Ranked
  <2>2. Pick(Rank(S)[x]) \in S /\ Rank(S)[Pick(Rank(S)[x])] = Rank(S)[x]
    BY <2>1, <1>3
  <2>3. \A a, b \in S : Rank(S)[a] = Rank(S)[b] => a = b
    BY Ranked
  <2>4. Pick(Rank(S)[x]) = x
    BY <2>2, <2>3
  <2>. QED
    BY <2>1, <2>4, <1>4
<1>8. Len(s) = n /\ DOMAIN s = 1..n
  BY <1>1, <1>5
<1>9. Range(s) = S
  BY <1>5, <1>7 DEF Range
<1>10. \A k \in 1..n : s[k] \in S /\ Rank(S)[s[k]] = k
  BY <1>3, <1>4
<1>11. \A j, k \in 1..n : s[j] = s[k] => j = k
  BY <1>10
<1>12. \A j, k \in 1..n : s[j] < s[k] => j < k
  <2>1. \A x, y \in S : x < y => Rank(S)[x] < Rank(S)[y]
    BY Ranked
  <2>. QED
    BY <2>1, <1>10
<1>. QED
  BY <1>6, <1>8, <1>9, <1>11, <1>12 DEF s

(* A set that has 0 and, with a number below n, the next one, has 0..n: the  *)
(* least number it does not have could be neither 0 nor the next one.       *)
LEMMA Induction ==
    ASSUME NEW n \in Nat, NEW S, 0 \in S, \A k \in 0..n : k \in S /\ k # n => k + 1 \in S
    PROVE  \A k \in 0..n : k \in S
<1>. DEFINE B == {k \in 0..n : k \notin S}
<1>. SUFFICES ASSUME B # {} PROVE FALSE
  OBVIOUS
<1>1. B \in SUBSET Nat /\ IsFiniteSet(B)
  <2>1. IsFiniteSet(0..n) /\ B \in SUBSET (0..n)
    BY FS_Interval
  <2>2. B \in SUBSET Nat
    OBVIOUS
  <2>. HIDE DEF B
  <2>. QED
    BY <2>1, <2>2, FS_Subset
<1>2. Cardinality(B) \in Nat /\ Cardinality(B) # 0
  <2>. HIDE DEF B
  <2>. QED
    BY <1>1, FS_CardinalityType, FS_EmptySet
<1>3. PICK x \in B : Rank(B)[x] = 1
  <2>. HIDE DEF B
  <2>. QED
    BY <1>1, <1>2, Ranked
<1>4. ASSUME NEW y \in B PROVE ~(y < x)
  <2>. HIDE DEF B
  <2>1. y < x => Rank(B)[y] < Rank(B)[x]
    BY <1>1, Ranked
  <2>2. Rank(B)[y] \in 1..Cardinality(B)
    BY <1>1, Ranked
  <2>. QED
    BY <2>1, <2>2, <1>2, <1>3
<1>5. x \in 0..n /\ x \notin S /\ x # 0
  OBVIOUS
<1>6. x - 1 \in 0..n /\ x - 1 # n /\ x - 1 < x /\ (x - 1) + 1 = x
  BY <1>5
<1>7. x - 1 \in S
  BY <1>4, <1>6
<1>. QED
  BY <1>5, <1>6, <1>7

-----------------------------------------------------------------------------
InSteps(f, seq, s, a) ==
    /\ a[0] = s /\ InTurn(f, seq, s) = a[Len(seq)]
    /\ \A k \in 1..Len(seq) : a[k] = f[<<seq[k], a[k - 1]>>]

(* What is done in turn is done step by step.                               *)
LEMMA InTurnIs ==
    ASSUME NEW f, NEW seq, Len(seq) \in Nat, NEW s
    PROVE  \E a : InSteps(f, seq, s, a)
<1>. DEFINE n == Len(seq)
            Next(a, k) == IF k = 0 THEN s ELSE f[<<seq[k], a[k - 1]>>]
            Is(a, m) == a = [k \in 0..m |-> Next(a, k)]
            S == {m \in 0..n : \E a : Is(a, m)}
<1>1. n \in Nat
  OBVIOUS
<1>2. 0 \in S
  <2>. DEFINE a == [k \in 0..0 |-> s]
  <2>1. Is(a, 0)
    OBVIOUS
  <2>. HIDE DEF Is, a
  <2>. QED
    BY <1>1, <2>1
<1>3. ASSUME NEW m \in 0..n, m \in S, m # n PROVE m + 1 \in S
  <2>1. PICK a : Is(a, m)
    BY <1>3
  <2>. DEFINE b == [k \in 0..(m + 1) |-> Next(a, k)]
  <2>2. \A k \in 0..m : b[k] = a[k]
    <3>. \A k \in 0..m : k \in 0..(m + 1)
      BY <1>1
    <3>. QED
      BY <2>1
  <2>3. \A k \in 0..(m + 1) : k # 0 => k - 1 \in 0..m
    BY <1>1
  <2>4. \A k \in 0..(m + 1) : Next(a, k) = Next(b, k)
    <3>. HIDE DEF b
    <3>. QED
      BY <2>2, <2>3
  <2>5. Is(b, m + 1)
    <3>1. b = [k \in 0..(m + 1) |-> Next(a, k)]
      OBVIOUS
    <3>. HIDE DEF b, Next
    <3>. QED
      BY <3>1, <2>4
  <2>6. m + 1 \in 0..n
    BY <1>1, <1>3
  <2>. HIDE DEF Is, b
  <2>. QED
    BY <2>5, <2>6
<1>4. n \in S
  <2>. HIDE DEF S, n
  <2>1. \A k \in 0..n : k \in S /\ k # n => k + 1 \in S
    BY <1>3
  <2>2. \A k \in 0..n : k \in S
    BY <1>1, <1>2, <2>1, Induction
  <2>. QED
    BY <1>1, <2>2
<1>5. \E a : Is(a, n)
  BY <1>4
<1>. DEFINE after == CHOOSE a : Is(a, n)
<1>6. InTurn(f, seq, s) = after[n]
  BY DEF InTurn
<1>7. Is(after, n)
  <2>. HIDE DEF Is, n
  <2>. QED
    BY <1>5, Zenon
<1>8. \A k \in 0..n : after[k] = Next(after, k)
  <2>. HIDE DEF after, Next
  <2>. QED
    BY <1>7
<1>9. after[0] = s /\ \A k \in 1..n : after[k] = f[<<seq[k], after[k - 1]>>]
  <2>. HIDE DEF after, n
  <2>1. 0 \in 0..n /\ \A k \in 1..n : k \in 0..n /\ k # 0
    BY <1>1
  <2>2. Next(after, 0) = s
    OBVIOUS
  <2>3. \A k \in 1..n : Next(after, k) = f[<<seq[k], after[k - 1]>>]
    BY <2>1
  <2>. HIDE DEF Next
  <2>. QED
    BY <2>1, <2>2, <2>3, <1>8
<1>. HIDE DEF after
<1>. QED
  BY <1>6, <1>9 DEF InSteps

-----------------------------------------------------------------------------
(* The visits are well defined: one that is made for another one has fewer  *)
(* containers left that are not being visited.                              *)

Visits(p) == Items(p) \X Walks(p)
Free(p, s) == Cardinality(Items(p) \ s.visiting)
Small(p, n) == {v \in Visits(p) : Free(p, v[2]) <= n}
Entered(s, i) == [s EXCEPT !.visiting = @ \cup {i}]
Fresh == [visiting |-> {}, order |-> <<>>, error |-> FALSE]

(* The containers a container depends on are numbered too.                  *)
LEMMA DependenciesAre ==
    ASSUME NEW p, Numbered(p), NEW i
    PROVE  /\ InOrder(Dependencies(p, i)) \in Seq(Items(p))
           /\ Range(InOrder(Dependencies(p, i))) = Dependencies(p, i)
<1>. DEFINE D == Dependencies(p, i)
<1>1. D \in SUBSET Items(p)
  BY DEF Dependencies
<1>. HIDE DEF D
<1>2. D \in SUBSET Nat /\ IsFiniteSet(D)
  BY <1>1, FS_Subset DEF Numbered
<1>3. InOrder(D) \in Seq(D) /\ Range(InOrder(D)) = D
  BY <1>2, InOrderIs
<1>4. InOrder(D) \in Seq(Items(p))
  BY <1>1, <1>3
<1>. QED
  BY <1>3, <1>4 DEF D

(* A container is entered once on a way, so ways are no longer than the     *)
(* project is large.                                                        *)
LEMMA FreeIs ==
    ASSUME NEW p, Numbered(p), NEW s \in Walks(p)
    PROVE  /\ Free(p, s) \in 0..Cardinality(Items(p))
           /\ Cardinality(Items(p)) \in Nat
           /\ \A i \in Items(p) \ s.visiting :
                  /\ Entered(s, i) \in Walks(p)
                  /\ Free(p, s) # 0 /\ Free(p, Entered(s, i)) = Free(p, s) - 1
<1>. DEFINE R == Items(p) \ s.visiting
<1>1. IsFiniteSet(Items(p)) /\ R \in SUBSET Items(p)
  BY DEF Numbered
<1>. HIDE DEF R
<1>2. /\ IsFiniteSet(R) /\ Cardinality(R) <= Cardinality(Items(p))
      /\ Cardinality(R) \in Nat /\ Cardinality(Items(p)) \in Nat
  BY <1>1, FS_Subset, FS_CardinalityType
<1>3. ASSUME NEW i \in R
      PROVE  Entered(s, i) \in Walks(p) /\ Entered(s, i).visiting = s.visiting \cup {i}
  BY DEF Entered, Walks, R
<1>4. ASSUME NEW i \in R
      PROVE  Cardinality(R) # 0 /\ Free(p, Entered(s, i)) = Cardinality(R) - 1
  <2>1. Items(p) \ (s.visiting \cup {i}) = R \ {i}
    BY DEF R
  <2>2. Cardinality(R \ {i}) = Cardinality(R) - 1
    BY <1>2, FS_RemoveElement
  <2>3. Cardinality(R) # 0
    BY <1>2, FS_EmptySet
  <2>. QED
    BY <2>1, <2>2, <2>3, <1>3 DEF Free
<1>5. Free(p, s) = Cardinality(R)
  BY DEF Free, R
<1>6. \A i \in R : /\ Entered(s, i) \in Walks(p)
                   /\ Free(p, s) # 0 /\ Free(p, Entered(s, i)) = Free(p, s) - 1
  BY <1>3, <1>4, <1>5
<1>7. Free(p, s) \in 0..Cardinality(Items(p))
  BY <1>2, <1>5
<1>. QED
  BY <1>2, <1>6, <1>7 DEF R

\* A visit returns with the containers being visited that it was called with.
KeepsVisiting(p, f, n) == \A v \in Small(p, n) : f[v] \in Walks(p) /\ f[v].visiting = v[2].visiting

(* Visits in turn do too, and depend on the visits that they make.          *)
LEMMA InTurnKeeps ==
    ASSUME NEW p, NEW n, NEW f, KeepsVisiting(p, f, n),
           NEW seq \in Seq(Items(p)), NEW s \in Walks(p), Free(p, s) <= n
    PROVE  /\ InTurn(f, seq, s) \in Walks(p) /\ InTurn(f, seq, s).visiting = s.visiting
           /\ \A g : (\A v \in Small(p, n) : g[v] = f[v]) => InTurn(g, seq, s) = InTurn(f, seq, s)
<1>1. Len(seq) \in Nat /\ \A k \in 1..Len(seq) : seq[k] \in Items(p)
  OBVIOUS
<1>0. PICK a : InSteps(f, seq, s, a)
  BY <1>1, InTurnIs
<1>2. /\ a[0] = s /\ InTurn(f, seq, s) = a[Len(seq)]
      /\ \A k \in 1..Len(seq) : a[k] = f[<<seq[k], a[k - 1]>>]
  BY <1>0 DEF InSteps
<1>. DEFINE m == Len(seq)
            S == {k \in 0..m : a[k] \in Walks(p) /\ a[k].visiting = s.visiting}
<1>3. ASSUME NEW k \in 0..m, k \in S, k # m
      PROVE  /\ k + 1 \in 1..m /\ (k + 1) - 1 = k
             /\ <<seq[k + 1], a[k]>> \in Small(p, n)
             /\ a[k + 1] = f[<<seq[k + 1], a[k]>>]
  <2>1. k + 1 \in 1..m /\ (k + 1) - 1 = k
    BY <1>1, <1>3
  <2>2. Free(p, a[k]) = Free(p, s)
    BY <1>3 DEF Free
  <2>3. <<seq[k + 1], a[k]>> \in Small(p, n)
    BY <1>1, <1>3, <2>1, <2>2 DEF Small, Visits
  <2>. QED
    BY <2>1, <2>3, <1>2
<1>4. ASSUME NEW k \in 0..m, k \in S, k # m PROVE k + 1 \in S
  <2>. HIDE DEF S
  <2>1. /\ a[k + 1] \in Walks(p)
        /\ a[k + 1].visiting = <<seq[k + 1], a[k]>>[2].visiting
    BY <1>3, <1>4 DEF KeepsVisiting
  <2>2. a[k].visiting = s.visiting
    BY <1>4 DEF S
  <2>3. k + 1 \in 0..m
    BY <1>1, <1>4
  <2>. QED
    BY <2>1, <2>2, <2>3 DEF S
<1>5. \A k \in 0..m : k \in S
  <2>1. 0 \in S
    BY <1>1, <1>2
  <2>. HIDE DEF S, m
  <2>2. \A k \in 0..m : k \in S /\ k # m => k + 1 \in S
    BY <1>4
  <2>3. m \in Nat
    BY <1>1 DEF m
  <2>. QED
    BY <2>1, <2>2, <2>3, Induction
<1>6. ASSUME NEW g, \A v \in Small(p, n) : g[v] = f[v]
      PROVE  InTurn(g, seq, s) = InTurn(f, seq, s)
  <2>0. PICK b : InSteps(g, seq, s, b)
    BY <1>1, InTurnIs
  <2>1. /\ b[0] = s /\ InTurn(g, seq, s) = b[Len(seq)]
        /\ \A k \in 1..Len(seq) : b[k] = g[<<seq[k], b[k - 1]>>]
    BY <2>0 DEF InSteps
  <2>. DEFINE T == {k \in 0..m : a[k] = b[k]}
  <2>2. 0 \in T
    BY <1>1, <1>2, <2>1
  <2>3. ASSUME NEW k \in 0..m, k \in T, k # m PROVE k + 1 \in T
    <3>. HIDE DEF S
    <3>1. /\ k + 1 \in 1..m /\ (k + 1) - 1 = k
          /\ <<seq[k + 1], a[k]>> \in Small(p, n)
          /\ a[k + 1] = f[<<seq[k + 1], a[k]>>]
      BY <1>3, <1>5, <2>3
    <3>2. b[k + 1] = g[<<seq[k + 1], b[k]>>]
      BY <2>1, <3>1
    <3>3. g[<<seq[k + 1], a[k]>>] = f[<<seq[k + 1], a[k]>>]
      BY <3>1, <1>6
    <3>4. k + 1 \in 0..m /\ a[k] = b[k]
      BY <1>1, <2>3
    <3>. QED
      BY <3>1, <3>2, <3>3, <3>4
  <2>4. \A k \in 0..m : k \in T
    <3>. HIDE DEF S, T, m
    <3>1. m \in Nat
      BY <1>1 DEF m
    <3>2. \A k \in 0..m : k \in T /\ k # m => k + 1 \in T
      BY <2>3
    <3>. QED
      BY <2>2, <3>1, <3>2, Induction
  <2>5. m \in 0..m
    BY <1>1
  <2>. QED
    BY <1>2, <2>1, <2>4, <2>5
<1>7. m \in 0..m
  BY <1>1
<1>. QED
  BY <1>2, <1>5, <1>6, <1>7

(* A container that is met again, or has a dependency without containers,   *)
(* is not entered.                                                          *)
LEMMA NotEntered ==
    ASSUME NEW p, NEW i \in Items(p), NEW s \in Walks(p),
           s.error \/ i \in Range(s.order) \/ i \in s.visiting \/ Missing(p, i), NEW f
    PROVE  /\ Visited(p, f, i, s) = IF s.error \/ i \in Range(s.order) THEN s
                                    ELSE [s EXCEPT !.error = TRUE]
           /\ Visited(p, f, i, s) \in Walks(p) /\ Visited(p, f, i, s).visiting = s.visiting
<1>1. Visited(p, f, i, s) = IF s.error \/ i \in Range(s.order) THEN s
                            ELSE [s EXCEPT !.error = TRUE]
  BY DEF Visited
<1>2. [s EXCEPT !.error = TRUE] \in Walks(p) /\ [s EXCEPT !.error = TRUE].visiting = s.visiting
  BY DEF Walks
<1>. QED
  BY <1>1, <1>2

Met(p, i, s) == s.error \/ i \in Range(s.order) \/ i \in s.visiting \/ Missing(p, i)
Placed(t, i) == [t EXCEPT !.visiting = @ \ {i}, !.order = Append(@, i)]
Behind(p, f, i, s) == InTurn(f, InOrder(Dependencies(p, i)), Entered(s, i))

(* Any other is put behind its dependencies.                                *)
LEMMA EnteredIs ==
    ASSUME NEW p, NEW i, NEW s, ~Met(p, i, s), NEW f
    PROVE  Visited(p, f, i, s) = Placed(Behind(p, f, i, s), i)
BY DEF Met, Behind, Placed, Visited, Entered

(* What a visit needs of those it makes.                                    *)
LEMMA VisitedKeeps ==
    ASSUME NEW p, Numbered(p), NEW n \in Nat, NEW f, KeepsVisiting(p, f, n),
           NEW i \in Items(p), NEW s \in Walks(p), Free(p, s) <= n + 1
    PROVE  /\ Visited(p, f, i, s) \in Walks(p) /\ Visited(p, f, i, s).visiting = s.visiting
           /\ \A g : (\A v \in Small(p, n) : g[v] = f[v]) =>
                         Visited(p, g, i, s) = Visited(p, f, i, s)
<1>1. CASE Met(p, i, s)
  <2>1. ASSUME NEW g
        PROVE  /\ Visited(p, g, i, s) = IF s.error \/ i \in Range(s.order) THEN s
                                        ELSE [s EXCEPT !.error = TRUE]
               /\ Visited(p, g, i, s) \in Walks(p) /\ Visited(p, g, i, s).visiting = s.visiting
    BY <1>1, NotEntered DEF Met
  <2>. QED
    BY <2>1
<1>2. CASE ~Met(p, i, s)
  <2>. DEFINE e == Entered(s, i)  seq == InOrder(Dependencies(p, i))  t == InTurn(f, seq, e)
  <2>1. i \in Items(p) \ s.visiting
    BY <1>2 DEF Met
  <2>2. e \in Walks(p) /\ Free(p, s) \in Nat /\ Free(p, e) = Free(p, s) - 1
    BY <2>1, FreeIs
  <2>3. Free(p, e) <= n /\ seq \in Seq(Items(p))
    BY <2>2, DependenciesAre
  <2>4. e.visiting = s.visiting \cup {i}
    BY DEF Entered, Walks
  <2>. HIDE DEF e, seq
  <2>5. /\ t \in Walks(p) /\ t.visiting = e.visiting
        /\ \A g : (\A v \in Small(p, n) : g[v] = f[v]) => InTurn(g, seq, e) = InTurn(f, seq, e)
    BY <2>2, <2>3, InTurnKeeps
  <2>. HIDE DEF t
  <2>6. Behind(p, f, i, s) = t
    BY DEF Behind, t, e, seq
  <2>7. Visited(p, f, i, s) = Placed(t, i)
    BY <1>2, <2>6, EnteredIs
  <2>8. Placed(t, i) \in Walks(p)
    <3>1. Append(t.order, i) \in Seq(Items(p)) /\ t.visiting \ {i} \in SUBSET Items(p)
      BY <2>5 DEF Walks
    <3>. QED
      BY <2>5, <3>1 DEF Walks, Placed
  <2>9. Placed(t, i).visiting = s.visiting
    <3>1. Placed(t, i).visiting = t.visiting \ {i}
      BY <2>5 DEF Walks, Placed
    <3>. QED
      BY <3>1, <2>1, <2>4, <2>5
  <2>10. ASSUME NEW g, \A v \in Small(p, n) : g[v] = f[v]
         PROVE  Visited(p, g, i, s) = Visited(p, f, i, s)
    <3>1. InTurn(g, seq, e) = t
      BY <2>5, <2>10 DEF t
    <3>2. Behind(p, g, i, s) = t
      BY <3>1 DEF Behind, e, seq
    <3>. QED
      BY <1>2, <2>7, <3>2, EnteredIs
  <2>. QED
    BY <2>7, <2>8, <2>9, <2>10
<1>. QED
  BY <1>1, <1>2

(* With every container being visited none is entered.                      *)
LEMMA LastKeeps ==
    ASSUME NEW p, Numbered(p), NEW i \in Items(p), NEW s \in Walks(p), Free(p, s) <= 0, NEW f
    PROVE  /\ Visited(p, f, i, s) \in Walks(p) /\ Visited(p, f, i, s).visiting = s.visiting
           /\ \A g : Visited(p, g, i, s) = Visited(p, f, i, s)
<1>1. Free(p, s) = 0
  BY FreeIs
<1>2. i \in s.visiting
  BY <1>1, FreeIs
<1>3. ASSUME NEW g
      PROVE  /\ Visited(p, g, i, s) = IF s.error \/ i \in Range(s.order) THEN s
                                      ELSE [s EXCEPT !.error = TRUE]
             /\ Visited(p, g, i, s) \in Walks(p) /\ Visited(p, g, i, s).visiting = s.visiting
  BY <1>2, NotEntered
<1>. QED
  BY <1>3

\* f is the recursive visit as far as n containers are left.
Solves(p, f, n) == \A v \in Small(p, n) : f[v] = Visited(p, f, v[1], v[2])
Fixed(p, f) == f = [v \in Visits(p) |-> Visited(p, f, v[1], v[2])]

(* The recursion has a solution, found by visiting with ever more left.     *)
LEMMA SolutionExists ==
    ASSUME NEW p, Numbered(p)
    PROVE  \E f : Fixed(p, f)
<1>. DEFINE N == Cardinality(Items(p))
            Is(f, n) == DOMAIN f = Visits(p) /\ f = [v \in Visits(p) |-> f[v]]
                        /\ Solves(p, f, n) /\ KeepsVisiting(p, f, n)
            S == {n \in 0..N : \E f : Is(f, n)}
            By(f) == [v \in Visits(p) |-> Visited(p, f, v[1], v[2])]
<1>1. N \in Nat
  BY FS_CardinalityType DEF Numbered
<1>2. \A v \in Visits(p) : v[1] \in Items(p) /\ v[2] \in Walks(p)
  BY DEF Visits
<1>3. 0 \in S
  <2>. DEFINE f == By(<<>>)
  <2>1. \A v \in Small(p, 0) : v \in Visits(p) /\ Free(p, v[2]) <= 0
    BY DEF Small
  <2>2. DOMAIN f = Visits(p) /\ \A v \in Visits(p) : f[v] = Visited(p, <<>>, v[1], v[2])
    OBVIOUS
  <2>3. f = [v \in Visits(p) |-> f[v]]
    OBVIOUS
  <2>. HIDE DEF f
  <2>4. ASSUME NEW v \in Small(p, 0)
        PROVE  f[v] = Visited(p, f, v[1], v[2]) /\ f[v] \in Walks(p) /\ f[v].visiting = v[2].visiting
    <3>1. v[1] \in Items(p) /\ v[2] \in Walks(p) /\ Free(p, v[2]) <= 0
      BY <1>2, <2>1
    <3>2. /\ Visited(p, <<>>, v[1], v[2]) \in Walks(p)
          /\ Visited(p, <<>>, v[1], v[2]).visiting = v[2].visiting
          /\ Visited(p, f, v[1], v[2]) = Visited(p, <<>>, v[1], v[2])
      BY <3>1, LastKeeps
    <3>. QED
      BY <2>1, <2>2, <3>2
  <2>5. Is(f, 0)
    BY <2>2, <2>3, <2>4 DEF Solves, KeepsVisiting
  <2>. HIDE DEF Is
  <2>. QED
    BY <1>1, <2>5
<1>4. ASSUME NEW n \in 0..N, n \in S, n # N PROVE n + 1 \in S
  <2>1. PICK f : Is(f, n)
    BY <1>4
  <2>. DEFINE g == By(f)
  <2>2. DOMAIN g = Visits(p) /\ \A v \in Visits(p) : g[v] = Visited(p, f, v[1], v[2])
    OBVIOUS
  <2>3. g = [v \in Visits(p) |-> g[v]]
    OBVIOUS
  <2>. HIDE DEF g
  <2>4. \A v \in Small(p, n) : v \in Visits(p)
    BY DEF Small
  <2>5. \A v \in Small(p, n) : g[v] = f[v]
    BY <2>1, <2>2, <2>4 DEF Solves
  <2>6. ASSUME NEW v \in Small(p, n + 1)
        PROVE  g[v] = Visited(p, g, v[1], v[2]) /\ g[v] \in Walks(p) /\ g[v].visiting = v[2].visiting
    <3>1. v \in Visits(p) /\ Free(p, v[2]) <= n + 1
      BY DEF Small
    <3>2. v[1] \in Items(p) /\ v[2] \in Walks(p)
      BY <1>2, <3>1
    <3>3. KeepsVisiting(p, f, n) /\ n \in Nat
      BY <1>1, <2>1
    <3>4. /\ Visited(p, f, v[1], v[2]) \in Walks(p)
          /\ Visited(p, f, v[1], v[2]).visiting = v[2].visiting
          /\ (\A w \in Small(p, n) : g[w] = f[w]) =>
                 Visited(p, g, v[1], v[2]) = Visited(p, f, v[1], v[2])
      BY <3>1, <3>2, <3>3, VisitedKeeps
    <3>. QED
      BY <2>2, <2>5, <3>1, <3>4
  <2>7. Is(g, n + 1)
    BY <2>2, <2>3, <2>6 DEF Solves, KeepsVisiting
  <2>8. n + 1 \in 0..N
    BY <1>1, <1>4
  <2>. HIDE DEF Is
  <2>. QED
    BY <2>7, <2>8
<1>5. N \in S
  <2>. HIDE DEF S, N
  <2>1. \A k \in 0..N : k \in S /\ k # N => k + 1 \in S
    BY <1>4
  <2>2. \A k \in 0..N : k \in S
    BY <1>1, <1>3, <2>1, Induction
  <2>. QED
    BY <1>1, <2>2
<1>6. PICK f : Is(f, N)
  BY <1>5
<1>7. ASSUME NEW v \in Visits(p) PROVE f[v] = Visited(p, f, v[1], v[2])
  <2>1. Free(p, v[2]) <= N
    BY <1>2, FreeIs
  <2>2. v \in Small(p, N)
    BY <2>1 DEF Small
  <2>. QED
    BY <1>6, <2>2 DEF Solves
<1>8. Fixed(p, f)
  <2>1. f = [v \in Visits(p) |-> f[v]]
    BY <1>6
  <2>. QED
    BY <1>7, <2>1 DEF Fixed
<1>. QED
  BY <1>8

(* So Visit is that solution.                                               *)
LEMMA VisitIs ==
    ASSUME NEW p, Numbered(p)
    PROVE  \A v \in Visits(p) : Visit(p)[v] = Visited(p, Visit(p), v[1], v[2])
<1>1. PICK g : Fixed(p, g)
  BY SolutionExists
<1>2. Visit(p) = CHOOSE f : Fixed(p, f)
  BY DEF Visit, Fixed, Visits
<1>3. Fixed(p, Visit(p))
  BY <1>1, <1>2, Zenon
<1>. QED
  BY <1>3 DEF Fixed

(* Every visit ends with the containers being visited as it began.          *)
LEMMA VisitKeeps ==
    ASSUME NEW p, Numbered(p)
    PROVE  \A n \in 0..Cardinality(Items(p)) : KeepsVisiting(p, Visit(p), n)
<1>. DEFINE N == Cardinality(Items(p))  f == Visit(p)  S == {n \in 0..N : KeepsVisiting(p, f, n)}
<1>. HIDE DEF f
<1>1. N \in Nat
  BY FS_CardinalityType DEF Numbered
<1>2. \A v \in Visits(p) : v[1] \in Items(p) /\ v[2] \in Walks(p)
  BY DEF Visits
<1>3. \A v \in Visits(p) : f[v] = Visited(p, f, v[1], v[2])
  BY VisitIs DEF f
<1>4. 0 \in S
  <2>1. ASSUME NEW v \in Small(p, 0)
        PROVE  f[v] \in Walks(p) /\ f[v].visiting = v[2].visiting
    <3>1. v \in Visits(p) /\ Free(p, v[2]) <= 0
      BY DEF Small
    <3>2. v[1] \in Items(p) /\ v[2] \in Walks(p)
      BY <1>2, <3>1
    <3>3. /\ Visited(p, f, v[1], v[2]) \in Walks(p)
          /\ Visited(p, f, v[1], v[2]).visiting = v[2].visiting
      BY <3>1, <3>2, LastKeeps
    <3>. QED
      BY <1>3, <3>1, <3>3
  <2>. QED
    BY <1>1, <2>1 DEF KeepsVisiting
<1>5. ASSUME NEW n \in 0..N, n \in S, n # N PROVE n + 1 \in S
  <2>1. ASSUME NEW v \in Small(p, n + 1)
        PROVE  f[v] \in Walks(p) /\ f[v].visiting = v[2].visiting
    <3>1. v \in Visits(p) /\ Free(p, v[2]) <= n + 1
      BY DEF Small
    <3>2. v[1] \in Items(p) /\ v[2] \in Walks(p)
      BY <1>2, <3>1
    <3>3. KeepsVisiting(p, f, n) /\ n \in Nat
      BY <1>1, <1>5
    <3>4. /\ Visited(p, f, v[1], v[2]) \in Walks(p)
          /\ Visited(p, f, v[1], v[2]).visiting = v[2].visiting
      BY <3>1, <3>2, <3>3, VisitedKeeps
    <3>. QED
      BY <1>3, <3>1, <3>4
  <2>2. n + 1 \in 0..N
    BY <1>1, <1>5
  <2>. QED
    BY <2>1, <2>2 DEF KeepsVisiting
<1>6. \A n \in 0..N : n \in S
  <2>. HIDE DEF S, N
  <2>1. \A k \in 0..N : k \in S /\ k # N => k + 1 \in S
    BY <1>5
  <2>. QED
    BY <1>1, <1>4, <2>1, Induction
<1>. QED
  BY <1>6 DEF f

-----------------------------------------------------------------------------
(* The order is right.                                                      *)

Ordered(p, order) ==
    /\ order \in Seq(Items(p))
    /\ \A k \in 1..Len(order) : ~Missing(p, order[k])
    /\ \A j, k \in 1..Len(order) : order[j] = order[k] => j = k
    /\ \A k \in 1..Len(order) : \A d \in Dependencies(p, order[k]) :
           \E j \in 1..(k - 1) : order[j] = d

\* An error is one of the project; without one the order so far is right.
Good(p, s) ==
    /\ s.error => ~Orderable(p)
    /\ ~s.error => Ordered(p, s.order) /\ Range(s.order) \cap s.visiting = {}

\* What is being visited depends on what is visited next.
OnTheWay(p, s, i) == \A x \in s.visiting : <<x, i>> \in Reaches(p)

Advances(s, t) ==
    ~t.error => ~s.error /\ Range(s.order) \subseteq Range(t.order)

Does(p, f, n) ==
    \A v \in Small(p, n) :
        Good(p, v[2]) /\ OnTheWay(p, v[2], v[1]) =>
            /\ Good(p, f[v]) /\ Advances(v[2], f[v])
            /\ ~f[v].error => v[1] \in Range(f[v].order)

(* Dependencies are reached, at once or on a way that goes on.              *)
LEMMA ReachesIs ==
    ASSUME NEW p, NEW i \in Items(p), NEW d \in Dependencies(p, i)
    PROVE  /\ <<i, d>> \in Reaches(p)
           /\ \A x : <<x, i>> \in Reaches(p) => <<x, d>> \in Reaches(p)
<1>1. d \in Items(p)
  BY DEF Dependencies
<1>2. <<i, d>> \in Reaches(p)
  BY <1>1 DEF Reaches
<1>3. ASSUME NEW x, <<x, i>> \in Reaches(p) PROVE <<x, d>> \in Reaches(p)
  <2>1. x \in Items(p)
    BY <1>3 DEF Reaches
  <2>2. \A S \in SUBSET Items(p) : Dependencies(p, x) \subseteq S /\ Closed(p, S) => i \in S
    BY <1>3 DEF Reaches
  <2>3. \A S \in SUBSET Items(p) : Dependencies(p, x) \subseteq S /\ Closed(p, S) => d \in S
    BY <2>2 DEF Closed
  <2>. QED
    BY <1>1, <2>1, <2>3 DEF Reaches
<1>. QED
  BY <1>2, <1>3

(* In the range is what has a place.                                        *)
LEMMA RangeIs ==
    ASSUME NEW X, NEW seq \in Seq(X)
    PROVE  \A x : x \in Range(seq) <=> \E k \in 1..Len(seq) : seq[k] = x
<1>1. DOMAIN seq = 1..Len(seq)
  OBVIOUS
<1>. QED
  BY <1>1 DEF Range

(* Visits in turn are right when the visits they make are.                  *)
LEMMA InTurnDoes ==
    ASSUME NEW p, NEW n, NEW f, KeepsVisiting(p, f, n), Does(p, f, n),
           NEW seq \in Seq(Items(p)), NEW s \in Walks(p), Free(p, s) <= n,
           Good(p, s), \A d \in Range(seq) : OnTheWay(p, s, d)
    PROVE  LET t == InTurn(f, seq, s)
           IN /\ Good(p, t) /\ Advances(s, t)
              /\ ~t.error => Range(seq) \subseteq Range(t.order)
<1>1. /\ Len(seq) \in Nat
      /\ \A k \in 1..Len(seq) : seq[k] \in Items(p) /\ seq[k] \in Range(seq)
  <2>1. Len(seq) \in Nat /\ \A k \in 1..Len(seq) : seq[k] \in Items(p)
    OBVIOUS
  <2>. QED
    BY <2>1, RangeIs
<1>0. PICK a : InSteps(f, seq, s, a)
  BY <1>1, InTurnIs
<1>2. /\ a[0] = s /\ InTurn(f, seq, s) = a[Len(seq)]
      /\ \A k \in 1..Len(seq) : a[k] = f[<<seq[k], a[k - 1]>>]
  BY <1>0 DEF InSteps
<1>. DEFINE m == Len(seq)
            Fine(k) == /\ a[k] \in Walks(p) /\ a[k].visiting = s.visiting
                       /\ Good(p, a[k]) /\ Advances(s, a[k])
                       /\ ~a[k].error => \A j \in 1..k : seq[j] \in Range(a[k].order)
            S == {k \in 0..m : Fine(k)}
<1>3. 0 \in S
  <2>1. Fine(0)
    BY <1>2 DEF Advances
  <2>. HIDE DEF Fine
  <2>. QED
    BY <1>1, <2>1
<1>4. ASSUME NEW k \in 0..m, k \in S, k # m PROVE k + 1 \in S
  <2>1. k + 1 \in 1..m /\ (k + 1) - 1 = k /\ k + 1 \in 0..m
    BY <1>1, <1>4
  <2>2. Fine(k)
    BY <1>4
  <2>. DEFINE d == seq[k + 1]  u == a[k]  w == a[k + 1]
  <2>3. w = f[<<d, u>>] /\ d \in Items(p) /\ d \in Range(seq)
    BY <1>1, <1>2, <2>1
  <2>4. <<d, u>> \in Small(p, n)
    <3>1. Free(p, u) = Free(p, s)
      BY <2>2 DEF Free
    <3>. QED
      BY <2>2, <2>3, <3>1 DEF Small, Visits
  <2>5. OnTheWay(p, u, d)
    BY <2>2, <2>3 DEF OnTheWay
  <2>. HIDE DEF u, w, d
  <2>6. w \in Walks(p) /\ w.visiting = u.visiting
    BY <2>3, <2>4 DEF KeepsVisiting
  <2>7. /\ Good(p, w) /\ Advances(u, w)
        /\ ~w.error => d \in Range(w.order)
    BY <2>2, <2>3, <2>4, <2>5 DEF Does, u
  <2>8. Advances(s, w)
    BY <2>2, <2>7 DEF Advances, u
  <2>9. ASSUME ~w.error, NEW j \in 1..(k + 1) PROVE seq[j] \in Range(w.order)
    <3>1. CASE j = k + 1
      BY <2>7, <2>9, <3>1 DEF d
    <3>2. CASE j # k + 1
      <4>1. j \in 1..k
        BY <2>1, <3>2
      <4>2. seq[j] \in Range(u.order)
        BY <2>2, <2>7, <2>9, <4>1 DEF Advances, u
      <4>. QED
        BY <2>7, <2>9, <4>2 DEF Advances
    <3>. QED
      BY <3>1, <3>2
  <2>10. Fine(k + 1)
    BY <2>2, <2>6, <2>7, <2>8, <2>9 DEF u, w
  <2>. HIDE DEF Fine
  <2>. QED
    BY <2>1, <2>10
<1>5. m \in S
  <2>. HIDE DEF S, m
  <2>1. m \in Nat
    BY <1>1 DEF m
  <2>2. \A k \in 0..m : k \in S /\ k # m => k + 1 \in S
    BY <1>4
  <2>3. \A k \in 0..m : k \in S
    BY <1>3, <2>1, <2>2, Induction
  <2>. QED
    BY <2>1, <2>3
<1>6. Fine(m) /\ InTurn(f, seq, s) = a[m]
  BY <1>2, <1>5
<1>. HIDE DEF m
<1>7. ~a[m].error => \A x \in Range(seq) : x \in Range(a[m].order)
  BY <1>6, RangeIs DEF m
<1>. QED
  BY <1>6, <1>7

(* An order goes on with a container whose dependencies it has.             *)
LEMMA OrderedAppend ==
    ASSUME NEW p, NEW order, Ordered(p, order), NEW i \in Items(p), ~Missing(p, i),
           i \notin Range(order), Dependencies(p, i) \subseteq Range(order)
    PROVE  /\ Ordered(p, Append(order, i))
           /\ Range(Append(order, i)) = Range(order) \cup {i}
<1>. DEFINE n == Len(order)  o == Append(order, i)
<1>1. order \in Seq(Items(p)) /\ n \in Nat
  BY DEF Ordered
<1>2. /\ o \in Seq(Items(p)) /\ Len(o) = n + 1 /\ o[n + 1] = i
      /\ \A k \in 1..n : o[k] = order[k]
  BY <1>1
<1>. HIDE DEF o
<1>3. \A k \in 1..(n + 1) : k \in 1..n \/ k = n + 1
  BY <1>1
<1>4. \A k \in 1..n : k \in 1..(n + 1)
  BY <1>1
<1>5. \A x : x \in Range(order) <=> \E k \in 1..n : order[k] = x
  BY <1>1, RangeIs
<1>6. \A x : x \in Range(o) <=> \E k \in 1..(n + 1) : o[k] = x
  BY <1>2, RangeIs
<1>7. Range(o) = Range(order) \cup {i}
  <2>1. n + 1 \in 1..(n + 1)
    BY <1>1
  <2>. HIDE DEF n
  <2>2. \A x : x \in Range(o) <=> x \in Range(order) \/ x = i
    BY <1>2, <1>3, <1>4, <1>5, <1>6, <2>1
  <2>. QED
    BY <2>2
<1>8. \A k \in 1..(n + 1) : ~Missing(p, o[k])
  BY <1>2, <1>3 DEF Ordered
<1>9. ASSUME NEW j \in 1..(n + 1), NEW k \in 1..(n + 1), o[j] = o[k] PROVE j = k
  <2>1. CASE j \in 1..n /\ k \in 1..n
    BY <1>2, <1>9, <2>1 DEF Ordered
  <2>2. CASE j = n + 1 \/ k = n + 1
    <3>1. \A l \in 1..n : o[l] # i
      BY <1>2, <1>5
    <3>. QED
      BY <1>2, <1>3, <1>9, <2>2, <3>1
  <2>. QED
    BY <1>3, <2>1, <2>2
<1>10. ASSUME NEW k \in 1..(n + 1), NEW d \in Dependencies(p, o[k])
       PROVE  \E j \in 1..(k - 1) : o[j] = d
  <2>1. CASE k \in 1..n
    <3>1. PICK j \in 1..(k - 1) : order[j] = d
      BY <1>2, <1>10, <2>1 DEF Ordered
    <3>2. j \in 1..n
      BY <1>1, <2>1
    <3>. QED
      BY <1>2, <3>1, <3>2
  <2>2. CASE k = n + 1
    <3>1. PICK j \in 1..n : order[j] = d
      BY <1>2, <1>5, <1>10, <2>2
    <3>2. j \in 1..(k - 1) /\ o[j] = d
      BY <1>1, <1>2, <2>2, <3>1
    <3>. QED
      BY <3>2
  <2>. QED
    BY <1>3, <2>1, <2>2
<1>. QED
  BY <1>2, <1>7, <1>8, <1>9, <1>10 DEF Ordered, o

(* A container that is not entered is an error only for a good reason.      *)
LEMMA MetDoes ==
    ASSUME NEW p, NEW i \in Items(p), NEW s \in Walks(p), Met(p, i, s),
           Good(p, s), OnTheWay(p, s, i), NEW f
    PROVE  LET t == Visited(p, f, i, s)
           IN Good(p, t) /\ Advances(s, t) /\ (~t.error => i \in Range(t.order))
<1>. DEFINE t == Visited(p, f, i, s)
<1>1. t = IF s.error \/ i \in Range(s.order) THEN s ELSE [s EXCEPT !.error = TRUE]
  BY NotEntered DEF Met
<1>2. CASE s.error \/ i \in Range(s.order)
  BY <1>1, <1>2 DEF Advances
<1>3. CASE ~(s.error \/ i \in Range(s.order))
  <2>1. t.error
    BY <1>1, <1>3 DEF Walks
  <2>2. ~Orderable(p)
    <3>1. CASE Missing(p, i)
      BY <3>1 DEF Orderable
    <3>2. CASE i \in s.visiting
      BY <3>2 DEF Orderable, OnTheWay
    <3>. QED
      BY <1>3, <3>1, <3>2 DEF Met
  <2>. HIDE DEF t
  <2>. QED
    BY <2>1, <2>2 DEF Good, Advances, t
<1>. QED
  BY <1>2, <1>3

(* One that is entered is put behind what it depends on.                    *)
LEMMA VisitedDoes ==
    ASSUME NEW p, Numbered(p), NEW n \in Nat, NEW f, KeepsVisiting(p, f, n), Does(p, f, n),
           NEW i \in Items(p), NEW s \in Walks(p), Free(p, s) <= n + 1,
           Good(p, s), OnTheWay(p, s, i)
    PROVE  LET t == Visited(p, f, i, s)
           IN Good(p, t) /\ Advances(s, t) /\ (~t.error => i \in Range(t.order))
<1>1. CASE Met(p, i, s)
  BY <1>1, MetDoes
<1>2. CASE ~Met(p, i, s)
  <2>. DEFINE e == Entered(s, i)  seq == InOrder(Dependencies(p, i))  u == InTurn(f, seq, e)
              t == Placed(u, i)
  <2>1. i \in Items(p) \ s.visiting /\ ~s.error /\ i \notin Range(s.order) /\ ~Missing(p, i)
    BY <1>2 DEF Met
  <2>2. e \in Walks(p) /\ Free(p, s) \in Nat /\ Free(p, e) = Free(p, s) - 1
    BY <2>1, FreeIs
  <2>3. /\ Free(p, e) <= n /\ seq \in Seq(Items(p)) /\ Range(seq) = Dependencies(p, i)
    BY <2>2, DependenciesAre
  <2>4. e.visiting = s.visiting \cup {i} /\ e.order = s.order /\ ~e.error
    BY <2>1 DEF Entered, Walks
  <2>5. Good(p, e)
    BY <2>1, <2>4 DEF Good
  <2>6. ASSUME NEW d \in Range(seq) PROVE OnTheWay(p, e, d)
    <3>1. /\ d \in Dependencies(p, i) /\ <<i, d>> \in Reaches(p)
          /\ \A x : <<x, i>> \in Reaches(p) => <<x, d>> \in Reaches(p)
      BY <2>3, ReachesIs
    <3>. QED
      BY <2>4, <3>1 DEF OnTheWay
  <2>. HIDE DEF e, seq
  <2>7. u \in Walks(p) /\ u.visiting = e.visiting
    BY <2>2, <2>3, InTurnKeeps
  <2>8. Good(p, u) /\ Advances(e, u) /\ (~u.error => Range(seq) \subseteq Range(u.order))
    BY <2>2, <2>3, <2>5, <2>6, InTurnDoes
  <2>9. Visited(p, f, i, s) = t
    <3>1. Behind(p, f, i, s) = u
      BY DEF Behind, u, e, seq
    <3>. HIDE DEF u
    <3>. QED
      BY <1>2, <3>1, EnteredIs
  <2>. HIDE DEF u
  <2>10. /\ t.visiting = u.visiting \ {i} /\ t.order = Append(u.order, i) /\ t.error = u.error
    BY <2>7 DEF Walks, Placed
  <2>. HIDE DEF t
  <2>11. CASE u.error
    BY <2>8, <2>9, <2>10, <2>11 DEF Good, Advances
  <2>12. CASE ~u.error
    <3>1. Ordered(p, u.order) /\ Range(u.order) \cap u.visiting = {}
      BY <2>8, <2>12 DEF Good
    <3>2. i \notin Range(u.order) /\ Dependencies(p, i) \subseteq Range(u.order)
      BY <2>3, <2>4, <2>7, <2>8, <2>12, <3>1
    <3>3. Ordered(p, t.order) /\ Range(t.order) = Range(u.order) \cup {i}
      BY <2>1, <2>10, <3>1, <3>2, OrderedAppend
    <3>4. Range(t.order) \cap t.visiting = {}
      BY <2>10, <3>1, <3>3
    <3>5. Range(s.order) \subseteq Range(t.order) /\ i \in Range(t.order) /\ ~t.error
      BY <2>4, <2>8, <2>10, <2>12, <3>3 DEF Advances
    <3>. QED
      BY <2>1, <2>9, <3>3, <3>4, <3>5 DEF Good, Advances
  <2>. QED
    BY <2>11, <2>12
<1>. QED
  BY <1>1, <1>2

(* So every visit is right, whichever containers are being visited.         *)
LEMMA VisitDoes ==
    ASSUME NEW p, Numbered(p)
    PROVE  \A n \in 0..Cardinality(Items(p)) : Does(p, Visit(p), n)
<1>. DEFINE N == Cardinality(Items(p))  f == Visit(p)  S == {n \in 0..N : Does(p, f, n)}
<1>. HIDE DEF f
<1>1. N \in Nat
  BY FS_CardinalityType DEF Numbered
<1>2. \A v \in Visits(p) : v[1] \in Items(p) /\ v[2] \in Walks(p)
  BY DEF Visits
<1>3. \A v \in Visits(p) : f[v] = Visited(p, f, v[1], v[2])
  BY VisitIs DEF f
<1>4. 0 \in S
  <2>1. ASSUME NEW v \in Small(p, 0), Good(p, v[2]), OnTheWay(p, v[2], v[1])
        PROVE  /\ Good(p, f[v]) /\ Advances(v[2], f[v])
               /\ ~f[v].error => v[1] \in Range(f[v].order)
    <3>1. v \in Visits(p) /\ Free(p, v[2]) <= 0
      BY DEF Small
    <3>2. v[1] \in Items(p) /\ v[2] \in Walks(p)
      BY <1>2, <3>1
    <3>3. Met(p, v[1], v[2])
      BY <3>1, <3>2, FreeIs DEF Met
    <3>. QED
      BY <1>3, <2>1, <3>1, <3>2, <3>3, MetDoes
  <2>2. Does(p, f, 0)
    BY <2>1 DEF Does
  <2>. QED
    BY <1>1, <2>2
<1>5. ASSUME NEW n \in 0..N, n \in S, n # N PROVE n + 1 \in S
  <2>1. ASSUME NEW v \in Small(p, n + 1), Good(p, v[2]), OnTheWay(p, v[2], v[1])
        PROVE  /\ Good(p, f[v]) /\ Advances(v[2], f[v])
               /\ ~f[v].error => v[1] \in Range(f[v].order)
    <3>1. v \in Visits(p) /\ Free(p, v[2]) <= n + 1
      BY DEF Small
    <3>2. v[1] \in Items(p) /\ v[2] \in Walks(p)
      BY <1>2, <3>1
    <3>3. Does(p, f, n) /\ KeepsVisiting(p, f, n) /\ n \in Nat
      BY <1>1, <1>5, VisitKeeps DEF f
    <3>. QED
      BY <1>3, <2>1, <3>1, <3>2, <3>3, VisitedDoes
  <2>2. Does(p, f, n + 1)
    BY <2>1 DEF Does
  <2>3. n + 1 \in 0..N
    BY <1>1, <1>5
  <2>. QED
    BY <2>2, <2>3
<1>6. \A n \in 0..N : n \in S
  <2>. HIDE DEF S, N
  <2>1. \A k \in 0..N : k \in S /\ k # N => k + 1 \in S
    BY <1>5
  <2>. QED
    BY <1>1, <1>4, <2>1, Induction
<1>. QED
  BY <1>6 DEF f

(* In such an order of all containers each comes behind all it reaches.     *)
LEMMA OrderedReaches ==
    ASSUME NEW p, NEW order, Ordered(p, order),
           NEW a \in 1..Len(order), NEW b \in 1..Len(order), <<order[a], order[b]>> \in Reaches(p)
    PROVE  b < a
<1>. DEFINE S == {order[j] : j \in 1..(a - 1)}
<1>1. order \in Seq(Items(p)) /\ Len(order) \in Nat
  BY DEF Ordered
<1>2. \A j \in 1..(a - 1) : j \in 1..Len(order) /\ order[j] \in Items(p)
  BY <1>1
<1>3. S \in SUBSET Items(p)
  BY <1>2
<1>4. ASSUME NEW d \in Dependencies(p, order[a]) PROVE d \in S
  <2>1. PICK j \in 1..(a - 1) : order[j] = d
    BY <1>4 DEF Ordered
  <2>. QED
    BY <2>1
<1>5. Closed(p, S)
  <2>1. ASSUME NEW j \in 1..(a - 1), NEW d \in Dependencies(p, order[j]) PROVE d \in S
    <3>1. PICK l \in 1..(j - 1) : order[l] = d
      BY <1>2, <2>1 DEF Ordered
    <3>2. l \in 1..(a - 1)
      OBVIOUS
    <3>. QED
      BY <3>1, <3>2
  <2>. QED
    BY <2>1 DEF Closed
<1>6. order[b] \in S
  <2>. HIDE DEF S
  <2>1. \A T \in SUBSET Items(p) :
            Dependencies(p, order[a]) \subseteq T /\ Closed(p, T) => order[b] \in T
    BY DEF Reaches
  <2>. QED
    BY <1>3, <1>4, <1>5, <2>1
<1>7. PICK j \in 1..(a - 1) : order[j] = order[b]
  BY <1>6
<1>8. j = b
  BY <1>2, <1>7 DEF Ordered
<1>. QED
  BY <1>7, <1>8

(* composeorder.Labels for every project: an error exactly when there is a  *)
(* cycle or a service without containers, and otherwise all containers,     *)
(* each once and behind those it depends on.                                *)
THEOREM LabelsAreRight ==
    ASSUME NEW p, Numbered(p)
    PROVE  /\ Labels(p).order \in Seq(Items(p))
           /\ Labels(p).error <=> ~Orderable(p)
           /\ ~Labels(p).error => /\ Range(Labels(p).order) = Items(p)
                                  /\ Ordered(p, Labels(p).order)
<1>. DEFINE N == Cardinality(Items(p))  f == Visit(p)  seq == InOrder(Items(p))  L == Labels(p)
<1>1. N \in Nat /\ Fresh \in Walks(p) /\ Free(p, Fresh) <= N
  <2>1. Fresh \in Walks(p)
    <3>1. <<>> \in Seq(Items(p))
      OBVIOUS
    <3>. QED
      BY <3>1 DEF Fresh, Walks
  <2>. QED
    BY <2>1, FreeIs
<1>2. KeepsVisiting(p, f, N) /\ Does(p, f, N)
  <2>. N \in 0..N
    BY <1>1
  <2>. QED
    BY VisitKeeps, VisitDoes
<1>3. seq \in Seq(Items(p)) /\ Range(seq) = Items(p)
  BY InOrderIs DEF Numbered
<1>4. Good(p, Fresh) /\ \A d \in Range(seq) : OnTheWay(p, Fresh, d)
  <2>1. Fresh.visiting = {} /\ Fresh.order = <<>> /\ ~Fresh.error
    BY DEF Fresh
  <2>2. Ordered(p, <<>>)
    BY DEF Ordered
  <2>. QED
    BY <2>1, <2>2 DEF Good, OnTheWay
<1>5. L = InTurn(f, seq, Fresh)
  BY DEF Labels, Fresh
<1>. HIDE DEF N, f, seq, L
<1>6. L \in Walks(p)
  BY <1>1, <1>2, <1>3, <1>5, InTurnKeeps
<1>7. Good(p, L) /\ (~L.error => Range(seq) \subseteq Range(L.order))
  BY <1>1, <1>2, <1>3, <1>4, <1>5, InTurnDoes
<1>8. L.order \in Seq(Items(p)) /\ L.error \in BOOLEAN /\ Range(L.order) \subseteq Items(p)
  <2>1. L.order \in Seq(Items(p)) /\ L.error \in BOOLEAN
    BY <1>6 DEF Walks
  <2>. QED
    BY <2>1, RangeIs
<1>9. ~L.error => Ordered(p, L.order) /\ Range(L.order) = Items(p)
  BY <1>3, <1>7, <1>8 DEF Good
<1>10. ASSUME ~L.error PROVE Orderable(p)
  <2>1. ASSUME NEW i \in Items(p) PROVE ~Missing(p, i) /\ <<i, i>> \notin Reaches(p)
    <3>1. PICK k \in 1..Len(L.order) : L.order[k] = i
      BY <1>8, <1>9, <1>10, RangeIs
    <3>2. k \in Nat
      BY <1>8
    <3>3. ~Missing(p, i)
      BY <1>9, <1>10, <3>1 DEF Ordered
    <3>4. <<i, i>> \in Reaches(p) => k < k
      BY <1>9, <1>10, <3>1, OrderedReaches
    <3>. QED
      BY <3>2, <3>3, <3>4
  <2>. QED
    BY <2>1 DEF Orderable
<1>. QED
  BY <1>7, <1>8, <1>9, <1>10 DEF Good, L

-----------------------------------------------------------------------------
(* The order of those selected.                                             *)

\* The places of the selected in the order of all.
Placing(p, places) ==
    LET all == Labels(p).order
        s == ScopedOrder(p)
    IN /\ \A j \in 1..Len(s) : places[j] \in 1..Len(all) /\ s[j] = all[places[j]]
       /\ \A j, k \in 1..Len(s) : places[j] = places[k] => j = k
       /\ \A j, k \in 1..Len(s) : places[j] < places[k] => j < k
       /\ \A k \in 1..Len(all) : all[k] \in p.selected => \E j \in 1..Len(s) : places[j] = k

(* Whatever the order of all is, what is left of it are selected places.    *)
LEMMA ScopedIs ==
    ASSUME NEW p, Numbered(p)
    PROVE  ScopedOrder(p) \in Seq(p.selected) /\ \E places : Placing(p, places)
<1>. DEFINE all == Labels(p).order  K == {k \in DOMAIN all : all[k] \in p.selected}
            places == InOrder(K)  scoped == ScopedOrder(p)
<1>1. all \in Seq(Items(p))
  BY LabelsAreRight
<1>. HIDE DEF all
<1>2. Len(all) \in Nat /\ DOMAIN all = 1..Len(all)
  BY <1>1
<1>3. K \in SUBSET (1..Len(all)) /\ K \in SUBSET Nat /\ \A k \in K : all[k] \in p.selected
  BY <1>2
<1>4. IsFiniteSet(K)
  <2>1. IsFiniteSet(1..Len(all))
    BY <1>2, FS_Interval
  <2>. HIDE DEF K
  <2>. QED
    BY <1>3, <2>1, FS_Subset
<1>5. \A k \in 1..Len(all) : all[k] \in p.selected => k \in K
  BY <1>2
<1>. HIDE DEF K
<1>6. /\ places \in Seq(K) /\ Range(places) = K
      /\ \A j, k \in 1..Len(places) : places[j] = places[k] => j = k
      /\ \A j, k \in 1..Len(places) : places[j] < places[k] => j < k
  BY <1>3, <1>4, InOrderIs
<1>7. scoped = [j \in DOMAIN places |-> all[places[j]]]
  BY DEF ScopedOrder, all, K
<1>. HIDE DEF places, scoped
<1>8. /\ Len(places) \in Nat /\ DOMAIN places = 1..Len(places)
      /\ \A j \in 1..Len(places) : places[j] \in K
  BY <1>6
<1>9. scoped = [j \in 1..Len(places) |-> all[places[j]]]
  BY <1>7, <1>8
<1>10. \A j \in 1..Len(places) : all[places[j]] \in p.selected /\ places[j] \in 1..Len(all)
  BY <1>3, <1>8
<1>11. scoped \in Seq(p.selected) /\ Len(scoped) = Len(places)
  <2>1. scoped \in [1..Len(places) -> p.selected]
    BY <1>9, <1>10
  <2>. QED
    BY <1>8, <2>1
<1>12. \A k \in 1..Len(all) : all[k] \in p.selected => \E j \in 1..Len(places) : places[j] = k
  BY <1>5, <1>6, RangeIs
<1>13. Placing(p, places)
  BY <1>6, <1>9, <1>10, <1>11, <1>12 DEF Placing, all, scoped
<1>. QED
  BY <1>11, <1>13 DEF scoped

(* The order of a replacement is of selected containers, and, for what can  *)
(* be ordered, a start order (scopedDependencyOrder).                       *)
THEOREM ScopedOrderIsRight ==
    ASSUME NEW p, Numbered(p)
    PROVE  /\ ScopedOrder(p) \in Seq(p.selected)
           /\ p.selected \subseteq Items(p) /\ ~Labels(p).error =>
                  /\ IsInjective(ScopedOrder(p)) /\ Range(ScopedOrder(p)) = p.selected
                  /\ StartOrder(p, ScopedOrder(p))
                  /\ \A a, b \in 1..Len(ScopedOrder(p)) :
                         ScopedOrder(p)[a] \in Dependencies(p, ScopedOrder(p)[b]) => a < b
<1>. DEFINE all == Labels(p).order  s == ScopedOrder(p)  n == Len(s)
<1>0. s \in Seq(p.selected)
  BY ScopedIs
<1>. PICK places : Placing(p, places)
  BY ScopedIs
<1>1. /\ \A j \in 1..n : places[j] \in 1..Len(all) /\ s[j] = all[places[j]]
      /\ \A j, k \in 1..n : places[j] = places[k] => j = k
      /\ \A j, k \in 1..n : places[j] < places[k] => j < k
      /\ \A k \in 1..Len(all) : all[k] \in p.selected => \E j \in 1..n : places[j] = k
  BY DEF Placing
<1>2. ASSUME p.selected \subseteq Items(p), ~Labels(p).error
      PROVE  /\ IsInjective(s) /\ Range(s) = p.selected /\ StartOrder(p, s)
             /\ \A a, b \in 1..n : s[a] \in Dependencies(p, s[b]) => a < b
  <2>1. Range(all) = Items(p) /\ Ordered(p, all) /\ all \in Seq(Items(p))
    BY <1>2, LabelsAreRight
  <2>. HIDE DEF all, s
  <2>2. \A j, k \in 1..Len(all) : all[j] = all[k] => j = k
    BY <2>1 DEF Ordered
  <2>3. n \in Nat /\ DOMAIN s = 1..n /\ s \in [1..n -> p.selected]
    BY <1>0
  <2>4. \A a, b \in 1..n : s[a] = s[b] => a = b
    BY <1>1, <2>2
  <2>5. IsInjective(s)
    BY <2>3, <2>4 DEF IsInjective
  <2>6. ASSUME NEW x \in p.selected PROVE \E j \in 1..n : s[j] = x
    <3>1. PICK k \in 1..Len(all) : all[k] = x
      BY <1>2, <2>1, RangeIs
    <3>. QED
      BY <1>1, <3>1
  <2>7. Range(s) = p.selected
    BY <2>3, <2>6 DEF Range
  <2>8. Len(s) = Cardinality(p.selected)
    <3>1. s \in Surjection(1..n, p.selected) /\ s \in Injection(1..n, p.selected)
      BY <2>3, <2>5, <2>6 DEF Surjection, Injection
    <3>2. IsFiniteSet(1..n) /\ Cardinality(1..n) = n
      BY <2>3, FS_Interval
    <3>3. Cardinality(p.selected) = Cardinality(1..n)
      BY <3>1, <3>2, FS_Surjection
    <3>. QED
      BY <3>2, <3>3
  <2>9. ASSUME NEW a \in 1..n, NEW b \in 1..n, <<s[a], s[b]>> \in Reaches(p) PROVE b < a
    <3>1. places[b] < places[a]
      BY <1>1, <2>1, <2>9, OrderedReaches
    <3>. QED
      BY <1>1, <3>1
  <2>10. ASSUME NEW a \in 1..n, NEW b \in 1..n, s[a] \in Dependencies(p, s[b]) PROVE a < b
    <3>1. s[b] \in Items(p)
      BY <1>2, <2>3
    <3>2. <<s[b], s[a]>> \in Reaches(p)
      BY <2>10, <3>1, ReachesIs
    <3>. QED
      BY <2>9, <3>2
  <2>. QED
    BY <2>5, <2>7, <2>8, <2>9, <2>10 DEF StartOrder
<1>. QED
  BY <1>0, <1>2
=============================================================================
