-------------------------------- MODULE Lemmas --------------------------------
(***************************************************************************)
(* What the proofs of the other modules share: induction over the rounds   *)
(* of a loop and over the nodes of a tree, and lemmas about two values     *)
(* that several machines own, the bests, whose updates delete what they    *)
(* replace (Ga, Main), and the program tree, to which children are added   *)
(* (RegSim, Main).                                                         *)
(***************************************************************************)
EXTENDS BestInfo, Tree, FiniteSetTheorems, WellFoundedInduction, TLAPS

(***************************************************************************)
(* Loops: the least element of a set of naturals, induction over a set of  *)
(* naturals, and the existence of a function that is defined step by step. *)
(* Each is stated of a set or a function, so that a proof cites it with    *)
(* the set {n \in Nat : P(n)} of its own P.                                *)
(***************************************************************************)
LEMMA NatMinimum ==
    ASSUME NEW T \in SUBSET Nat, T # {}
    PROVE  \E x \in T : \A y \in T : x <= y
<1>1. PICK x \in T : \A y \in T : ~ (<<y, x>> \in OpToRel(<, Nat))
  BY NatLessThanWellFounded, WFMin
<1>2. \A y \in T : ~ (y < x)
  BY <1>1 DEF OpToRel
<1> QED BY <1>2

LEMMA NatSetInduction ==
    ASSUME NEW T, 0 \in T, \A n \in Nat : n \in T => n + 1 \in T
    PROVE  Nat \subseteq T
<1> SUFFICES ASSUME Nat \ T # {} PROVE FALSE
  OBVIOUS
<1>1. PICK x \in Nat \ T : \A y \in Nat \ T : x <= y
  BY NatMinimum
<1>2. x # 0
  OBVIOUS
<1>3. x - 1 \in T
  BY <1>1, <1>2
<1>4. (x - 1) + 1 \in T
  BY <1>2, <1>3
<1> QED BY <1>4

(* A loop of n rounds over a state of D: the states it goes through.       *)
Rounds(n, start, step, run) ==
    run[0] = start /\ \A k \in 1 .. n : run[k] = step[<<k, run[k - 1]>>]

LEMMA RunExists ==
    ASSUME NEW D, NEW n \in Nat, NEW start \in D, NEW step \in [(1 .. n) \X D -> D]
    PROVE  \E run \in [0 .. n -> D] : Rounds(n, start, step, run)
<1> DEFINE Run(m) == \E run \in [0 .. m -> D] : Rounds(m, start, step, run)
           T == {m \in Nat : m <= n => Run(m)}
<1>1. 0 \in T
  <2>1. [k \in 0 .. 0 |-> start] \in [0 .. 0 -> D]
    OBVIOUS
  <2>2. Rounds(0, start, step, [k \in 0 .. 0 |-> start])
    BY DEF Rounds
  <2> QED BY <2>1, <2>2
<1>2. ASSUME NEW m \in Nat, m \in T PROVE m + 1 \in T
  <2> SUFFICES ASSUME m + 1 <= n PROVE Run(m + 1)
    OBVIOUS
  <2>1. PICK run \in [0 .. m -> D] : Rounds(m, start, step, run)
    BY <1>2
  <2> DEFINE longer == [k \in 0 .. m + 1 |-> IF k = m + 1 THEN step[<<m + 1, run[m]>>] ELSE run[k]]
  <2>2. step[<<m + 1, run[m]>>] \in D
    <3>1. <<m + 1, run[m]>> \in (1 .. n) \X D
      OBVIOUS
    <3> QED BY <3>1
  <2>3. longer \in [0 .. m + 1 -> D]
    BY <2>2
  <2>4. Rounds(m + 1, start, step, longer)
    <3>1. longer[0] = start
      BY <2>1 DEF Rounds
    <3>2. ASSUME NEW k \in 1 .. m + 1 PROVE longer[k] = step[<<k, longer[k - 1]>>]
      <4>1. CASE k = m + 1
        <5>1. k - 1 = m /\ m \in 0 .. m + 1 /\ m # m + 1
          BY <4>1
        <5>2. longer[k - 1] = run[m]
          BY <5>1
        <5>3. longer[k] = step[<<m + 1, run[m]>>]
          BY <4>1
        <5> QED BY <4>1, <5>2, <5>3
      <4>2. CASE k # m + 1
        BY <4>2, <2>1 DEF Rounds
      <4> QED BY <4>1, <4>2
    <3> HIDE DEF longer
    <3> QED BY <3>1, <3>2 DEF Rounds
  <2> QED BY <2>3, <2>4
<1> HIDE DEF T
<1>3. Nat \subseteq T
  BY <1>1, <1>2, NatSetInduction
<1> QED BY <1>3 DEF T

(* What holds at the start of a loop and is kept by every round of it      *)
(* holds after every round.                                                *)
LEMMA RoundsInduction ==
    ASSUME NEW n \in Nat, NEW T, 0 \in T, \A k \in 1 .. n : k - 1 \in T => k \in T
    PROVE  0 .. n \subseteq T
<1> DEFINE R == {m \in Nat : m <= n => m \in T}
<1>1. 0 \in R
  OBVIOUS
<1>2. ASSUME NEW m \in Nat, m \in R PROVE m + 1 \in R
  <2> SUFFICES ASSUME m + 1 <= n PROVE m + 1 \in T
    OBVIOUS
  <2>1. m + 1 \in 1 .. n /\ (m + 1) - 1 \in T
    BY <1>2
  <2> QED BY <2>1
<1> HIDE DEF R
<1>3. Nat \subseteq R
  BY <1>1, <1>2, NatSetInduction
<1> QED BY <1>3 DEF R

(***************************************************************************)
(* Finite sets: induction over their subsets, and the function by which a  *)
(* fold over a set takes one element after the other, c[s] first from s.   *)
(***************************************************************************)
LEMMA SubsetInduction ==
    ASSUME NEW S, IsFiniteSet(S), NEW T,
           \A s \in SUBSET S : (\A u \in SUBSET s : u # s => u \in T) => s \in T
    PROVE  SUBSET S \subseteq T
<1> DEFINE N == {n \in Nat : \A s \in SUBSET S : Cardinality(s) < n => s \in T}
<1>1. \A s \in SUBSET S : IsFiniteSet(s) /\ Cardinality(s) \in Nat
  BY FS_Subset, FS_CardinalityType
<1>2. 0 \in N
  BY <1>1
<1>3. ASSUME NEW n \in Nat, n \in N PROVE n + 1 \in N
  <2> SUFFICES ASSUME NEW s \in SUBSET S, Cardinality(s) < n + 1 PROVE s \in T
    OBVIOUS
  <2>1. ASSUME NEW u \in SUBSET s, u # s PROVE u \in T
    <3>1. u \in SUBSET S /\ Cardinality(u) <= Cardinality(s) /\ Cardinality(u) # Cardinality(s)
      BY <1>1, <2>1, FS_Subset
    <3>2. Cardinality(u) < n
      BY <1>1, <3>1
    <3> QED BY <1>3, <3>1, <3>2
  <2> QED BY <2>1
<1> HIDE DEF N
<1>4. Nat \subseteq N
  BY <1>2, <1>3, NatSetInduction
<1>5. ASSUME NEW s \in SUBSET S PROVE s \in T
  <2>1. Cardinality(s) + 1 \in N /\ Cardinality(s) < Cardinality(s) + 1
    BY <1>1, <1>4
  <2> QED BY <2>1 DEF N
<1> QED BY <1>5

Folds(G, S, base, step, c) ==
    \A s \in SUBSET S : G[s] = IF s = {} THEN base ELSE step[<<c[s], G[s \ {c[s]}]>>]

LEMMA FoldExists ==
    ASSUME NEW D, NEW S, IsFiniteSet(S), NEW base \in D, NEW step \in [S \X D -> D],
           NEW c, \A s \in (SUBSET S) \ {{}} : c[s] \in s
    PROVE  \E G \in [SUBSET S -> D] : Folds(G, S, base, step, c)
<1> DEFINE Small(n) == {s \in SUBSET S : Cardinality(s) <= n}
           Part(n) == \E G \in [Small(n) -> D] : \A s \in Small(n) :
                        G[s] = IF s = {} THEN base ELSE step[<<c[s], G[s \ {c[s]}]>>]
           N == {n \in Nat : Part(n)}
<1>1. \A s \in SUBSET S : IsFiniteSet(s) /\ Cardinality(s) \in Nat /\ (Cardinality(s) = 0 <=> s = {})
  BY FS_Subset, FS_CardinalityType, FS_EmptySet
<1>2. \A s \in (SUBSET S) \ {{}} : s \ {c[s]} \in SUBSET S /\ Cardinality(s \ {c[s]}) = Cardinality(s) - 1
  BY <1>1, FS_RemoveElement
<1>3. 0 \in N
  <2> DEFINE G == [s \in Small(0) |-> base]
  <2>1. \A s \in Small(0) : s = {}
    BY <1>1
  <2>2. \A s \in Small(0) : G[s] = IF s = {} THEN base ELSE step[<<c[s], G[s \ {c[s]}]>>]
    BY <2>1
  <2>3. G \in [Small(0) -> D]
    OBVIOUS
  <2> HIDE DEF G, Small
  <2> QED BY <2>2, <2>3
<1>4. ASSUME NEW n \in Nat, n \in N PROVE n + 1 \in N
  <2>1. PICK G \in [Small(n) -> D] : \A s \in Small(n) :
           G[s] = IF s = {} THEN base ELSE step[<<c[s], G[s \ {c[s]}]>>]
    BY <1>4
  <2> DEFINE H == [s \in Small(n + 1) |->
                     IF s \in Small(n) THEN G[s] ELSE step[<<c[s], G[s \ {c[s]}]>>]]
  <2>2. ASSUME NEW s \in Small(n + 1)
        PROVE  /\ H[s] \in D
               /\ H[s] = IF s = {} THEN base ELSE step[<<c[s], H[s \ {c[s]}]>>]
    <3>1. CASE s = {}
      <4>1. Cardinality(s) <= n /\ s \in SUBSET S
        BY <1>1, <3>1
      <4>2. s \in Small(n)
        BY <4>1
      <4>3. H[s] = G[s]
        BY <4>2
      <4> HIDE DEF H, Small
      <4> QED BY <2>1, <3>1, <4>2, <4>3
    <3>2. CASE s # {}
      <4>1. s \in (SUBSET S) \ {{}} /\ c[s] \in S /\ Cardinality(s) \in Nat
        BY <1>1, <3>2
      <4>2. Cardinality(s \ {c[s]}) <= n /\ Cardinality(s \ {c[s]}) <= n + 1
        BY <1>2, <4>1
      <4>3. s \ {c[s]} \in Small(n) /\ s \ {c[s]} \in Small(n + 1)
        BY <1>2, <4>1, <4>2
      <4>4. H[s \ {c[s]}] = G[s \ {c[s]}] /\ G[s \ {c[s]}] \in D
        BY <4>3
      <4>5. H[s] = step[<<c[s], G[s \ {c[s]}]>>]
        <5>1. H[s] = IF s \in Small(n) THEN G[s] ELSE step[<<c[s], G[s \ {c[s]}]>>]
          BY <2>2
        <5> HIDE DEF H, Small
        <5> QED BY <2>1, <3>2, <5>1
      <4>6. <<c[s], G[s \ {c[s]}]>> \in S \X D
        BY <4>1, <4>4
      <4> HIDE DEF H, Small
      <4> QED BY <3>2, <4>4, <4>5, <4>6
    <3> QED BY <3>1, <3>2
  <2>3. H \in [Small(n + 1) -> D]
    <3>1. H = [s \in Small(n + 1) |-> H[s]]
      OBVIOUS
    <3> HIDE DEF H, Small
    <3> QED BY <2>2, <3>1
  <2>4. Part(n + 1)
    <3> HIDE DEF H, Small
    <3> QED BY <2>2, <2>3
  <2> HIDE DEF Part
  <2> QED BY <2>4
<1> HIDE DEF N
<1>5. Cardinality(S) \in N
  BY <1>1, <1>3, <1>4, NatSetInduction
<1>6. Small(Cardinality(S)) = SUBSET S
  BY FS_Subset
<1>7. Part(Cardinality(S))
  BY <1>5 DEF N
<1> HIDE DEF Small
<1> QED BY <1>6, <1>7 DEF Folds

(* Two functions that take the elements in the same order are the same if  *)
(* they begin alike and every element taken keeps them alike.              *)
LEMMA FoldUnique ==
    ASSUME NEW S, IsFiniteSet(S), NEW c, \A s \in (SUBSET S) \ {{}} : c[s] \in s,
           NEW F, NEW G, F[{}] = G[{}],
           \A s \in (SUBSET S) \ {{}} : F[s \ {c[s]}] = G[s \ {c[s]}] => F[s] = G[s]
    PROVE  \A s \in SUBSET S : F[s] = G[s]
<1> DEFINE T == {s \in SUBSET S : F[s] = G[s]}
<1>1. ASSUME NEW s \in SUBSET S, \A u \in SUBSET s : u # s => u \in T PROVE s \in T
  <2>1. CASE s = {}
    BY <2>1
  <2>2. CASE s # {}
    <3>1. s \ {c[s]} \in SUBSET s /\ s \ {c[s]} # s
      BY <2>2
    <3>2. F[s \ {c[s]}] = G[s \ {c[s]}]
      BY <1>1, <3>1
    <3> QED BY <2>2, <3>2
  <2> QED BY <2>1, <2>2
<1> HIDE DEF T
<1>2. SUBSET S \subseteq T
  BY <1>1, SubsetInduction
<1> QED BY <1>2 DEF T

(* The elements of a finite set of integers in their order, the i-th having *)
(* i - 1 below it, are all of them, each once.                             *)
LEMMA InOrder ==
    ASSUME NEW S \in SUBSET Int, IsFiniteSet(S)
    PROVE  \E ordered \in [1 .. Cardinality(S) -> S] :
             /\ ordered = [i \in 1 .. Cardinality(S) |->
                             CHOOSE number \in S : Cardinality({other \in S : other < number}) = i - 1]
             /\ \A number \in S : \E i \in 1 .. Cardinality(S) : ordered[i] = number
             /\ \A i, j \in 1 .. Cardinality(S) : ordered[i] = ordered[j] => i = j
<1> DEFINE n == Cardinality(S)
           below(number) == {other \in S : other < number}
           rank == [number \in S |-> Cardinality(below(number))]
           ordered == [i \in 1 .. n |-> CHOOSE number \in S : Cardinality(below(number)) = i - 1]
<1>1. n \in Nat
  BY FS_CardinalityType
<1>2. ASSUME NEW a \in S
      PROVE  IsFiniteSet(below(a)) /\ Cardinality(below(a)) \in 0 .. n - 1
  <2>1. below(a) \in SUBSET S /\ a \notin below(a)
    OBVIOUS
  <2>2. IsFiniteSet(below(a)) /\ Cardinality(below(a)) <= n /\ Cardinality(below(a)) # n
    BY <2>1, FS_Subset
  <2>3. Cardinality(below(a)) \in Nat
    BY <2>2, FS_CardinalityType
  <2> HIDE DEF n, below
  <2> QED BY <1>1, <2>2, <2>3
<1>3. ASSUME NEW a \in S, NEW b \in S, a < b
      PROVE  Cardinality(below(a)) < Cardinality(below(b))
  <2>1. below(a) \in SUBSET below(b)
    <3>1. \A r \in S : r \in Int /\ (r < a => r < b)
      BY <1>3
    <3> QED BY <3>1
  <2>2. a \in below(b) /\ a \notin below(a)
    BY <1>3
  <2> HIDE DEF n, below
  <2>3. /\ Cardinality(below(a)) <= Cardinality(below(b))
        /\ Cardinality(below(a)) # Cardinality(below(b))
    BY <1>2, <2>1, <2>2, FS_Subset
  <2> QED BY <1>1, <1>2, <2>3
<1> HIDE DEF below
<1>4. rank \in [S -> 0 .. n - 1]
  BY <1>2
<1>5. ASSUME NEW a \in S, NEW b \in S, rank[a] = rank[b] PROVE a = b
  <2>1. rank[a] \in Int /\ ~ (rank[a] < rank[b]) /\ ~ (rank[b] < rank[a])
    BY <1>4, <1>5
  <2>2. ~ (a < b) /\ ~ (b < a)
    BY <1>3, <2>1
  <2> QED BY <2>2
<1>6. ASSUME NEW i \in 0 .. n - 1 PROVE \E number \in S : rank[number] = i
  <2>1. rank \in Injection(S, 0 .. n - 1)
    BY <1>4, <1>5 DEF Injection, IsInjective
  <2>2. IsFiniteSet(0 .. n - 1) /\ Cardinality(0 .. n - 1) = n
    <3> HIDE DEF n
    <3>1. 0 \in Int /\ n - 1 \in Int
      BY <1>1
    <3>2. Cardinality(0 .. n - 1) = (IF 0 > n - 1 THEN 0 ELSE (n - 1) - 0 + 1)
      BY <3>1, FS_Interval
    <3>3. IsFiniteSet(0 .. n - 1)
      BY <3>1, FS_Interval
    <3> QED BY <1>1, <3>2, <3>3
  <2> HIDE DEF rank
  <2>3. rank \in Surjection(S, 0 .. n - 1)
    BY <2>1, <2>2, FS_Injection
  <2> QED BY <2>3 DEF Surjection
<1>7. ASSUME NEW i \in 1 .. n
      PROVE  ordered[i] \in S /\ rank[ordered[i]] = i - 1
  <2>1. i - 1 \in 0 .. n - 1
    <3> HIDE DEF n
    <3> QED BY <1>1
  <2>2. PICK number \in S : rank[number] = i - 1
    BY <1>6, <2>1
  <2>3. ordered[i] = CHOOSE a \in S : Cardinality(below(a)) = i - 1
    OBVIOUS
  <2>4. Cardinality(below(number)) = i - 1
    BY <2>2
  <2>5. ordered[i] \in S /\ Cardinality(below(ordered[i])) = i - 1
    BY <2>3, <2>4
  <2> QED BY <2>5
<1>8. ASSUME NEW a \in S PROVE \E i \in 1 .. n : ordered[i] = a
  <2>1. rank[a] \in 0 .. n - 1
    BY <1>4
  <2>2. rank[a] + 1 \in 1 .. n /\ (rank[a] + 1) - 1 = rank[a]
    <3> HIDE DEF n, rank
    <3> QED BY <1>1, <2>1
  <2>3. rank[ordered[rank[a] + 1]] = rank[a] /\ ordered[rank[a] + 1] \in S
    <3> HIDE DEF n, rank, ordered
    <3> QED BY <1>7, <2>2
  <2> HIDE DEF n, rank, ordered
  <2> QED BY <1>5, <2>2, <2>3
<1>9. ordered \in [1 .. n -> S]
  BY <1>7
<1>10. ordered = [i \in 1 .. n |-> CHOOSE number \in S : Cardinality({other \in S : other < number}) = i - 1]
  BY DEF below
<1> HIDE DEF ordered
<1>11. ASSUME NEW i \in 1 .. n, NEW j \in 1 .. n, ordered[i] = ordered[j] PROVE i = j
  <2>1. i - 1 = j - 1
    <3> HIDE DEF n, rank
    <3> QED BY <1>7, <1>11
  <2> HIDE DEF n
  <2> QED BY <1>1, <2>1
<1> QED BY <1>8, <1>9, <1>10, <1>11

(***************************************************************************)
(* Bests: what the updates do to the objects that are held and deleted.    *)
(* The two are called in pairs.  An object is named after the step and the *)
(* individual it is of.                                                    *)
(***************************************************************************)

Names == Int \X Int

Flags == BOOLEAN
BestsType ==
    [gen : Names \cup {Null}, gen_fitness : Int, gen_over : Flags,
     run : Names \cup {Null}, run_fitness : Int, run_iter : Int]

LEMMA UpdatesTyped ==
    ASSUME NEW b \in BestsType
    PROVE  /\ [b EXCEPT !.gen_over = TRUE] \in BestsType
           /\ \A s \in Names, f \in Int :
                [b EXCEPT !.gen = s, !.gen_fitness = f, !.gen_over = FALSE] \in BestsType
           /\ \A s \in Names, f, i \in Int :
                [b EXCEPT !.run = s, !.run_fitness = f, !.run_iter = i] \in BestsType
<1>1. TRUE \in Flags /\ FALSE \in Flags
  BY DEF Flags
<1>2. \A flag \in Flags : [b EXCEPT !.gen_over = flag] \in BestsType
  BY DEF BestsType
<1>3. \A flag \in Flags, s \in Names, f \in Int :
        [b EXCEPT !.gen = s, !.gen_fitness = f, !.gen_over = flag] \in BestsType
  BY DEF BestsType
<1>4. \A s \in Names, f, i \in Int :
        [b EXCEPT !.run = s, !.run_fitness = f, !.run_iter = i] \in BestsType
  BY DEF BestsType
<1> QED BY <1>1, <1>2, <1>3, <1>4

(* An update of the generation's best with a new object: what is held is   *)
(* what was held, and the object, without what the update deletes.         *)
LEMMA GenUpdate ==
    ASSUME NEW b \in BestsType, NEW s \in Names, s # Null, s \notin Held(b), NEW f \in Nat,
           ReplacesGen(b, f)
    PROVE  /\ UpdateGenBest(b, s, f).updated
           /\ UpdateGenBest(b, s, f).bests \in BestsType
           /\ Held(UpdateGenBest(b, s, f).bests)
                = (Held(b) \cup {s}) \ UpdateGenBest(b, s, f).deleted
           /\ UpdateGenBest(b, s, f).bests.gen = s
           /\ UpdateGenBest(b, s, f).bests.gen_fitness = f
           /\ ~ UpdateGenBest(b, s, f).bests.gen_over
           /\ UpdateGenBest(b, s, f).deleted = GenDeleted(b)
           /\ UpdateGenBest(b, s, f).bests.run = b.run
           /\ UpdateGenBest(b, s, f).bests.run_fitness = b.run_fitness
           /\ UpdateGenBest(b, s, f).bests.run_iter = b.run_iter
<1> DEFINE new == [b EXCEPT !.gen = s, !.gen_fitness = f, !.gen_over = FALSE]
<1>1. UpdateGenBest(b, s, f) = [bests |-> new, deleted |-> GenDeleted(b), updated |-> TRUE]
  BY DEF UpdateGenBest
<1>2. new \in BestsType
  <2>1. f \in Int
    OBVIOUS
  <2> QED BY <2>1, UpdatesTyped
<1>3. /\ new.gen = s /\ new.gen_fitness = f /\ ~ new.gen_over /\ new.run = b.run
      /\ new.run_fitness = b.run_fitness /\ new.run_iter = b.run_iter
  BY DEF BestsType
<1> HIDE DEF new
<1>4. Held(new) = (Held(b) \cup {s}) \ GenDeleted(b)
  BY <1>3 DEF Held, GenDeleted
<1> QED BY <1>1, <1>2, <1>3, <1>4

LEMMA RunUpdate ==
    ASSUME NEW b \in BestsType, NEW s \in Names, s # Null, b.gen = s, b.run # s,
           NEW f \in Nat, NEW i \in Int
    PROVE  /\ UpdateRunBest(b, s, f, i).bests \in BestsType
           /\ Held(UpdateRunBest(b, s, f, i).bests) = Held(b) \ UpdateRunBest(b, s, f, i).deleted
           /\ UpdateRunBest(b, s, f, i).bests.gen = s
           /\ IF ReplacesRun(b, f)
              THEN /\ UpdateRunBest(b, s, f, i).bests.run = s
                   /\ UpdateRunBest(b, s, f, i).bests.run_fitness = f
                   /\ UpdateRunBest(b, s, f, i).bests.run_iter = i
                   /\ UpdateRunBest(b, s, f, i).bests.gen_fitness = b.gen_fitness
                   /\ UpdateRunBest(b, s, f, i).bests.gen_over = b.gen_over
                   /\ UpdateRunBest(b, s, f, i).deleted = RunDeleted(b)
              ELSE /\ UpdateRunBest(b, s, f, i).bests = b
                   /\ UpdateRunBest(b, s, f, i).deleted = {}
<1>1. CASE ReplacesRun(b, f)
  <2> DEFINE new == [b EXCEPT !.run = s, !.run_fitness = f, !.run_iter = i]
  <2>1. UpdateRunBest(b, s, f, i) = [bests |-> new, deleted |-> RunDeleted(b), updated |-> TRUE]
    BY <1>1 DEF UpdateRunBest
  <2>2. new \in BestsType
    <3>1. f \in Int
      OBVIOUS
    <3> QED BY <3>1, UpdatesTyped
  <2>3. /\ new.gen = s /\ new.gen_fitness = b.gen_fitness /\ new.gen_over = b.gen_over
        /\ new.run = s /\ new.run_fitness = f /\ new.run_iter = i
    BY DEF BestsType
  <2> HIDE DEF new
  <2>4. Held(new) = Held(b) \ RunDeleted(b)
    BY <2>3 DEF Held, RunDeleted
  <2> QED BY <1>1, <2>1, <2>2, <2>3, <2>4
<1>2. CASE ~ ReplacesRun(b, f)
  BY <1>2 DEF UpdateRunBest
<1> QED BY <1>1, <1>2

LEMMA GenDoneKeeps ==
    ASSUME NEW b \in BestsType
    PROVE  /\ GenDone(b) \in BestsType
           /\ Held(GenDone(b)) = Held(b)
           /\ GenDone(b).gen = b.gen
           /\ GenDone(b).gen_fitness = b.gen_fitness
           /\ GenDone(b).gen_over
           /\ GenDone(b).run = b.run
           /\ GenDone(b).run_fitness = b.run_fitness
           /\ GenDone(b).run_iter = b.run_iter
<1>1. GenDone(b) \in BestsType
  BY UpdatesTyped DEF GenDone
<1>2. /\ GenDone(b).gen = b.gen /\ GenDone(b).gen_fitness = b.gen_fitness
      /\ GenDone(b).gen_over /\ GenDone(b).run = b.run
      /\ GenDone(b).run_fitness = b.run_fitness /\ GenDone(b).run_iter = b.run_iter
  BY DEF GenDone, BestsType
<1> QED BY <1>1, <1>2 DEF Held

(***************************************************************************)
(* Program trees, with the instructions of a set I                         *)
(***************************************************************************)
Nodes(I) == [parent : Nat \cup {NoParent}, children : Seq(Nat), instr : I]
Trees(I) == UNION {[nodes : [0 .. n - 1 -> Nodes(I)], next_id : {n}] : n \in Nat}
SoundTrees(I) == {t \in Trees(I) : WellFormed(t)}

LEMMA TreeIs ==
    ASSUME NEW I, NEW t \in Trees(I)
    PROVE  /\ t = [nodes |-> t.nodes, next_id |-> t.next_id]
           /\ t.next_id \in Nat
           /\ t.nodes \in [0 .. t.next_id - 1 -> Nodes(I)]
           /\ NodeIds(t) = 0 .. t.next_id - 1
           /\ Size(t) = t.next_id
<1>1. PICK n \in Nat : t \in [nodes : [0 .. n - 1 -> Nodes(I)], next_id : {n}]
  BY DEF Trees
<1>2. t.next_id = n /\ t.nodes \in [0 .. n - 1 -> Nodes(I)]
  BY <1>1
<1>3. t = [nodes |-> t.nodes, next_id |-> t.next_id]
  BY <1>1
<1>4. NodeIds(t) = 0 .. n - 1
  BY <1>2 DEF NodeIds
<1>5. Cardinality(0 .. n - 1) = n
  <2>1. 0 \in Int /\ n - 1 \in Int
    OBVIOUS
  <2>2. Cardinality(0 .. n - 1) = IF 0 > n - 1 THEN 0 ELSE (n - 1) - 0 + 1
    BY <2>1, FS_Interval
  <2> QED BY <2>2
<1> QED BY <1>2, <1>3, <1>4, <1>5 DEF Size

LEMMA IsTree ==
    ASSUME NEW I, NEW n \in Nat, NEW f \in [0 .. n - 1 -> Nodes(I)]
    PROVE  [nodes |-> f, next_id |-> n] \in Trees(I)
<1>1. [nodes |-> f, next_id |-> n] \in [nodes : [0 .. n - 1 -> Nodes(I)], next_id : {n}]
  OBVIOUS
<1> QED BY <1>1 DEF Trees

LEMMA TreesAreContiguous == \A I : \A t \in Trees(I) : IdsContiguous(t)
<1> QED BY TreeIs DEF IdsContiguous

LEMMA EmptyTreeSound ==
    ASSUME NEW I
    PROVE  EmptyTree \in SoundTrees(I) /\ Size(EmptyTree) = 0
<1>1. << >> \in [0 .. 0 - 1 -> Nodes(I)]
  OBVIOUS
<1>2. EmptyTree \in Trees(I)
  BY <1>1, IsTree DEF EmptyTree
<1>3. Size(EmptyTree) = 0 /\ NodeIds(EmptyTree) = {}
  BY <1>2, TreeIs DEF EmptyTree
<1>4. WellFormed(EmptyTree)
  BY <1>3 DEF WellFormed
<1> QED BY <1>2, <1>3, <1>4 DEF SoundTrees

(* Where a child is listed, and how many times.                            *)
Places(children, id) == {i \in 1 .. Len(children) : children[i] = id}

LEMMA PlacesAfterAppend ==
    ASSUME NEW children \in Seq(Nat), NEW child \in Nat, NEW id \in Nat
    PROVE  /\ id # child => Places(Append(children, child), id) = Places(children, id)
           /\ Places(children, child) = {} =>
                Cardinality(Places(Append(children, child), child)) = 1
<1> DEFINE longer == Append(children, child)
           n == Len(children)
<1>1. /\ Len(longer) = n + 1 /\ n \in Nat
      /\ longer[n + 1] = child
      /\ \A i \in 1 .. n : longer[i] = children[i]
  OBVIOUS
<1> HIDE DEF longer, n
<1>2. ASSUME id # child PROVE Places(longer, id) = Places(children, id)
  BY <1>1, <1>2 DEF Places, n
<1>3. ASSUME Places(children, child) = {} PROVE Cardinality(Places(longer, child)) = 1
  <2>1. \A i \in 1 .. n : children[i] # child
    BY <1>3 DEF Places, n
  <2>2. \A i \in 1 .. n + 1 : longer[i] = child <=> i = n + 1
    <3>1. \A i \in 1 .. n + 1 : i \in 1 .. n \/ i = n + 1
      BY <1>1
    <3> QED BY <1>1, <2>1, <3>1
  <2>3. Places(longer, child) = {n + 1}
    BY <1>1, <2>2 DEF Places
  <2> QED BY <2>3, FS_Singleton
<1> QED BY <1>2, <1>3 DEF longer

(* A node of a well-formed tree, with the count of WellFormed named.       *)
Listed(t, p, id) == Cardinality(Places(Children(t, p), id))

NodeFormed(t, id) ==
    /\ id = 0 <=> t.nodes[id].parent = NoParent
    /\ id # 0 => t.nodes[id].parent \in NodeIds(t) /\ t.nodes[id].parent < id
    /\ \A p \in NodeIds(t) : Listed(t, p, id) = IF t.nodes[id].parent = p THEN 1 ELSE 0
    /\ \A i \in 1 .. NumChildren(t, id) : Children(t, id)[i] \in NodeIds(t)

LEMMA NodesFormed == \A t : WellFormed(t) <=> \A id \in NodeIds(t) : NodeFormed(t, id)
<1> QED BY DEF WellFormed, NodeFormed, Listed, Places, NumChildren

LEMMA NodeType ==
    ASSUME NEW I, NEW node \in Nodes(I), NEW child \in Nat, NEW instr \in I, NEW parent \in Nat \cup {NoParent}
    PROVE  /\ node.children \in Seq(Nat) /\ node.parent \in Nat \cup {NoParent} /\ node.instr \in I
           /\ NewNode(parent, instr) \in Nodes(I)
           /\ [node EXCEPT !.children = Append(@, child)] \in Nodes(I)
           /\ [node EXCEPT !.instr = instr] \in Nodes(I)
<1>1. << >> \in Seq(Nat)
  OBVIOUS
<1>2. Append(node.children, child) \in Seq(Nat)
  BY DEF Nodes
<1> QED BY <1>1, <1>2 DEF Nodes, NewNode

LEMMA AddRootSound ==
    ASSUME NEW I, NEW t \in SoundTrees(I), ~ HasRoot(t), NEW instr \in I
    PROVE  /\ AddRoot(t, instr) \in SoundTrees(I)
           /\ Size(AddRoot(t, instr)) = 1 /\ Size(t) = 0
<1> DEFINE T == AddRoot(t, instr)
<1>1. t \in Trees(I) /\ t.next_id = 0 /\ NodeIds(t) = {} /\ Size(t) = 0
  BY TreeIs DEF SoundTrees, HasRoot
<1>2. T = [nodes |-> [id \in 0 .. 1 - 1 |-> NewNode(NoParent, instr)], next_id |-> 1]
  BY <1>1 DEF AddRoot
<1>3. NewNode(NoParent, instr) \in Nodes(I)
  <2>1. << >> \in Seq(Nat)
    OBVIOUS
  <2> QED BY <2>1 DEF NewNode, Nodes
<1>4. T \in Trees(I)
  BY <1>2, <1>3, IsTree
<1>5. NodeIds(T) = {0} /\ Size(T) = 1
  BY <1>2, <1>4, TreeIs
<1>6. NodeFormed(T, 0)
  <2>1. T.nodes[0] = NewNode(NoParent, instr)
    BY <1>2
  <2>2. Children(T, 0) = << >> /\ NumChildren(T, 0) = 0 /\ T.nodes[0].parent = NoParent
    BY <2>1 DEF Children, NumChildren, NewNode
  <2>3. Places(<< >>, 0) = {}
    BY DEF Places
  <2>4. Listed(T, 0, 0) = 0
    BY <2>2, <2>3, FS_EmptySet DEF Listed
  <2> HIDE DEF T
  <2> QED BY <1>5, <2>2, <2>4 DEF NodeFormed, NoParent
<1> HIDE DEF T
<1>7. WellFormed(T)
  BY <1>5, <1>6, NodesFormed
<1> QED BY <1>1, <1>4, <1>5, <1>7 DEF SoundTrees, T

LEMMA AddBelowSound ==
    ASSUME NEW I, NEW t \in SoundTrees(I), NEW parent \in NodeIds(t), NEW instr \in I
    PROVE  /\ AddBelow(t, parent, instr) \in SoundTrees(I)
           /\ Size(AddBelow(t, parent, instr)) = Size(t) + 1
<1> DEFINE T == AddBelow(t, parent, instr)
           n == t.next_id
<1>1. /\ t \in Trees(I) /\ n \in Nat /\ t.nodes \in [0 .. n - 1 -> Nodes(I)]
      /\ NodeIds(t) = 0 .. n - 1 /\ Size(t) = n
  BY TreeIs DEF SoundTrees
<1>2. \A id \in 0 .. n - 1 : NodeFormed(t, id)
  BY <1>1, NodesFormed DEF SoundTrees
<1>3. parent \in 0 .. n - 1 /\ n >= 1
  BY <1>1
<1> DEFINE nodes == [id \in 0 .. n |-> IF id = n THEN NewNode(parent, instr)
                                       ELSE IF id = parent
                                            THEN [t.nodes[id] EXCEPT !.children = Append(@, n)]
                                            ELSE t.nodes[id]]
<1>4. nodes \in [0 .. (n + 1) - 1 -> Nodes(I)]
  <2>1. ASSUME NEW id \in 0 .. n PROVE nodes[id] \in Nodes(I)
    <3>1. CASE id = n
      <4>1. << >> \in Seq(Nat)
        OBVIOUS
      <4> QED BY <3>1, <1>3, <4>1 DEF NewNode, Nodes
    <3>2. CASE id # n
      <4>1. t.nodes[id] \in Nodes(I)
        BY <3>2, <1>1
      <4>2. [t.nodes[id] EXCEPT !.children = Append(@, n)] \in Nodes(I)
        BY <4>1, <1>1, NodeType
      <4> QED BY <3>2, <4>1, <4>2
    <3> QED BY <3>1, <3>2
  <2>2. 0 .. (n + 1) - 1 = 0 .. n
    BY <1>1
  <2> QED BY <2>1, <2>2
<1>5. T = [nodes |-> nodes, next_id |-> n + 1]
  <2>1. NodeIds(t) \cup {t.next_id} = 0 .. n
    BY <1>1
  <2> QED BY <2>1 DEF AddBelow
<1>6. T \in Trees(I)
  <2>1. n + 1 \in Nat
    BY <1>1
  <2> HIDE DEF nodes, n, T
  <2> QED BY <2>1, <1>4, <1>5, IsTree
<1>7. NodeIds(T) = 0 .. n /\ Size(T) = n + 1
  <2>1. T.next_id = n + 1
    BY <1>5
  <2> HIDE DEF T, n
  <2> QED BY <1>1, <1>6, <2>1, TreeIs
<1>8. /\ Children(T, n) = << >> /\ T.nodes[n].parent = parent
      /\ Children(T, parent) = Append(Children(t, parent), n)
      /\ \A id \in 0 .. n - 1 : T.nodes[id].parent = t.nodes[id].parent
      /\ \A id \in 0 .. n - 1 : id # parent => Children(T, id) = Children(t, id)
  <2>1. T.nodes = nodes
    BY <1>5
  <2>2. T.nodes[n] = NewNode(parent, instr)
    BY <2>1, <1>1
  <2>3. T.nodes[parent] = [t.nodes[parent] EXCEPT !.children = Append(@, n)]
    BY <2>1, <1>3, <1>1
  <2>4. \A id \in 0 .. n - 1 : id # parent => T.nodes[id] = t.nodes[id]
    BY <2>1, <1>1
  <2>5. t.nodes[parent] \in Nodes(I)
    BY <1>1, <1>3
  <2> HIDE DEF T, n, nodes
  <2>6. T.nodes[parent].parent = t.nodes[parent].parent
    BY <2>3, <2>5 DEF Nodes
  <2>7. T.nodes[parent].children = Append(t.nodes[parent].children, n)
    BY <2>3, <2>5 DEF Nodes
  <2> QED BY <2>2, <2>4, <2>6, <2>7 DEF Children, NewNode
<1>9. \A id \in 0 .. n - 1 : Children(t, id) \in Seq(Nat)
  BY <1>1 DEF Children, Nodes
<1> HIDE DEF T, n, nodes
<1>10. ASSUME NEW id \in 0 .. n PROVE NodeFormed(T, id)
  <2>1. /\ id = 0 <=> T.nodes[id].parent = NoParent
        /\ id # 0 => T.nodes[id].parent \in NodeIds(T) /\ T.nodes[id].parent < id
    <3>1. CASE id = n
      BY <3>1, <1>1, <1>3, <1>7, <1>8 DEF NoParent
    <3>2. CASE id # n
      <4>1. id \in 0 .. n - 1 /\ 0 .. n - 1 \subseteq 0 .. n
        BY <3>2, <1>1
      <4> QED BY <4>1, <1>1, <1>2, <1>7, <1>8 DEF NodeFormed
    <3> QED BY <3>1, <3>2
  <2>2. \A i \in 1 .. NumChildren(T, id) : Children(T, id)[i] \in NodeIds(T)
    <3>1. CASE id = n
      BY <3>1, <1>8 DEF NumChildren
    <3>2. CASE id = parent
      <4> DEFINE older == Children(t, parent)
      <4>1. older \in Seq(Nat) /\ \A i \in 1 .. Len(older) : older[i] \in 0 .. n
        <5>1. parent \in 0 .. n - 1 /\ NodeFormed(t, parent)
          BY <1>1, <1>2, <1>3
        <5>2. \A i \in 1 .. Len(older) : older[i] \in NodeIds(t)
          BY <5>1 DEF NumChildren, NodeFormed
        <5> QED BY <5>1, <5>2, <1>1, <1>9
      <4>2. Children(T, id) = Append(older, n)
        BY <3>2, <1>8
      <4> HIDE DEF older
      <4> QED BY <4>1, <4>2, <1>1, <1>7 DEF NumChildren
    <3>3. CASE id # n /\ id # parent
      BY <3>3, <1>1, <1>2, <1>7, <1>8 DEF NumChildren, NodeFormed
    <3> QED BY <3>1, <3>2, <3>3
  <2>3. ASSUME NEW p \in 0 .. n
        PROVE  Listed(T, p, id) = IF T.nodes[id].parent = p THEN 1 ELSE 0
    <3>1. CASE p = n
      <4>1. Places(Children(T, p), id) = {}
        BY <3>1, <1>8 DEF Places
      <4>2. T.nodes[id].parent # p
        <5>1. CASE id = n
          BY <5>1, <3>1, <1>1, <1>3, <1>8
        <5>2. CASE id # n
          <6>1. id \in 0 .. n - 1 /\ T.nodes[id].parent = t.nodes[id].parent
            BY <5>2, <1>1, <1>8
          <6>2. t.nodes[id].parent = NoParent \/ t.nodes[id].parent \in 0 .. n - 1
            BY <6>1, <1>1, <1>2 DEF NodeFormed
          <6> QED BY <6>1, <6>2, <3>1, <1>1 DEF NoParent
        <5> QED BY <5>1, <5>2
      <4> QED BY <4>1, <4>2, FS_EmptySet DEF Listed
    <3>2. ASSUME p # n, id = n PROVE Listed(T, p, id) = IF T.nodes[id].parent = p THEN 1 ELSE 0
      <4>1. Places(Children(t, p), n) = {}
        BY <1>1, <1>2, <3>2 DEF Places, NodeFormed, NumChildren
      <4>2. CASE p = parent
        BY <4>1, <4>2, <3>2, <1>1, <1>3, <1>8, <1>9, PlacesAfterAppend DEF Listed
      <4>3. CASE p # parent
        <5>1. Children(T, p) = Children(t, p) /\ T.nodes[id].parent = parent
          BY <4>3, <3>2, <1>1, <1>8
        <5> QED BY <4>1, <4>3, <3>2, <5>1, FS_EmptySet DEF Listed
      <4> QED BY <4>2, <4>3
    <3>3. ASSUME p # n, id # n PROVE Listed(T, p, id) = IF T.nodes[id].parent = p THEN 1 ELSE 0
      <4>1. Listed(T, p, id) = Listed(t, p, id)
        <5>1. CASE p = parent
          BY <5>1, <3>3, <1>1, <1>3, <1>8, <1>9, PlacesAfterAppend DEF Listed
        <5>2. CASE p # parent
          BY <5>2, <3>3, <1>1, <1>8 DEF Listed
        <5> QED BY <5>1, <5>2
      <4>2. id \in 0 .. n - 1 /\ p \in NodeIds(t)
        BY <3>3, <1>1
      <4> QED BY <4>1, <4>2, <1>2, <1>8 DEF NodeFormed
    <3> QED BY <3>1, <3>2, <3>3
  <2> QED BY <2>1, <2>2, <2>3, <1>7 DEF NodeFormed
<1>11. WellFormed(T)
  BY <1>7, <1>10, NodesFormed
<1> QED BY <1>1, <1>6, <1>7, <1>11 DEF SoundTrees, T

LEMMA AddChildSound ==
    ASSUME NEW I, NEW t \in SoundTrees(I), NEW parent \in Nat, NEW instr \in I
    PROVE  /\ AddChild(t, parent, instr) \in SoundTrees(I)
           /\ Size(AddChild(t, parent, instr)) \in {Size(t), Size(t) + 1}
<1>1. CASE ~ HasRoot(t)
  BY <1>1, AddRootSound DEF AddChild
<1>2. CASE HasRoot(t) /\ parent \in NodeIds(t)
  BY <1>2, AddBelowSound DEF AddChild
<1>3. CASE HasRoot(t) /\ parent \notin NodeIds(t)
  BY <1>3 DEF AddChild
<1> QED BY <1>1, <1>2, <1>3

LEMMA SetInstrSound ==
    ASSUME NEW I, NEW t \in SoundTrees(I), NEW id \in NodeIds(t), NEW instr \in I
    PROVE  /\ SetInstr(t, id, instr) \in SoundTrees(I)
           /\ NodeIds(SetInstr(t, id, instr)) = NodeIds(t)
           /\ \A n \in NodeIds(t) :
                /\ Children(SetInstr(t, id, instr), n) = Children(t, n)
                /\ SetInstr(t, id, instr).nodes[n].instr
                     = IF n = id THEN instr ELSE t.nodes[n].instr
<1> DEFINE T == SetInstr(t, id, instr)
           nodes == [t.nodes EXCEPT ![id].instr = instr]
<1>1. /\ t \in Trees(I) /\ t.next_id \in Nat /\ t.nodes \in [0 .. t.next_id - 1 -> Nodes(I)]
      /\ NodeIds(t) = 0 .. t.next_id - 1
      /\ t = [nodes |-> t.nodes, next_id |-> t.next_id]
  BY TreeIs DEF SoundTrees
<1>2. \A n \in NodeIds(t) : nodes[n] = IF n = id THEN [t.nodes[n] EXCEPT !.instr = instr] ELSE t.nodes[n]
  BY <1>1
<1>3. \A n \in NodeIds(t) : t.nodes[n] \in Nodes(I)
  BY <1>1
<1>4. T = [nodes |-> nodes, next_id |-> t.next_id]
  <2>1. /\ DOMAIN T = DOMAIN t /\ DOMAIN t = {"nodes", "next_id"}
        /\ T.next_id = t.next_id
    BY <1>1 DEF SetInstr
  <2>2. T.nodes = nodes
    BY <1>1 DEF SetInstr
  <2>3. T = [f \in {"nodes", "next_id"} |-> T[f]]
    BY <2>1 DEF SetInstr
  <2> HIDE DEF T, nodes
  <2> QED BY <2>1, <2>2, <2>3
<1>5. nodes \in [0 .. t.next_id - 1 -> Nodes(I)]
  BY <1>1, <1>2, <1>3 DEF Nodes
<1>6. T \in Trees(I) /\ NodeIds(T) = NodeIds(t)
  <2> HIDE DEF nodes, T
  <2>1. T \in Trees(I)
    BY <1>1, <1>4, <1>5, IsTree
  <2>2. T.next_id = t.next_id
    BY <1>4
  <2> QED BY <1>1, <2>1, <2>2, TreeIs
<1>7. ASSUME NEW n \in NodeIds(t)
      PROVE  /\ Children(T, n) = Children(t, n) /\ T.nodes[n].parent = t.nodes[n].parent
             /\ T.nodes[n].instr = IF n = id THEN instr ELSE t.nodes[n].instr
  <2>1. T.nodes[n] = IF n = id THEN [t.nodes[n] EXCEPT !.instr = instr] ELSE t.nodes[n]
    BY <1>2, <1>4
  <2>2. t.nodes[n] \in Nodes(I)
    BY <1>3
  <2> HIDE DEF T, nodes
  <2> QED BY <2>1, <2>2 DEF Children, Nodes
<1> HIDE DEF T, nodes
<1>8. ASSUME NEW n \in NodeIds(T) PROVE NodeFormed(T, n)
  <2>1. NodeFormed(t, n)
    BY <1>6, NodesFormed DEF SoundTrees
  <2> QED BY <1>6, <1>7, <2>1 DEF NodeFormed, Listed, NumChildren
<1>9. WellFormed(T)
  BY <1>8, NodesFormed
<1> QED BY <1>6, <1>7, <1>9 DEF SoundTrees, T

(* A child was added after its parent.                                     *)
LEMMA ChildrenAreYounger ==
    ASSUME NEW I, NEW t \in SoundTrees(I), NEW id \in NodeIds(t), NEW i \in 1 .. NumChildren(t, id)
    PROVE  Children(t, id)[i] \in NodeIds(t) /\ id < Children(t, id)[i]
<1> DEFINE child == Children(t, id)[i]
<1>1. /\ NodeIds(t) = 0 .. t.next_id - 1 /\ t.next_id \in Nat
      /\ \A n \in NodeIds(t) : NodeFormed(t, n)
      /\ t.nodes[id] \in Nodes(I)
  BY TreeIs, NodesFormed DEF SoundTrees
<1>2. child \in NodeIds(t)
  BY <1>1 DEF NodeFormed
<1>3. Listed(t, id, child) # 0
  <2>1. Children(t, id) \in Seq(Nat) /\ i \in Places(Children(t, id), child)
    BY <1>1 DEF Children, NumChildren, Nodes, Places
  <2>2. Len(Children(t, id)) \in Nat /\ 1 \in Int
    BY <2>1
  <2>3. IsFiniteSet(1 .. Len(Children(t, id)))
    BY <2>2, FS_Interval
  <2>4. Places(Children(t, id), child) \subseteq 1 .. Len(Children(t, id))
    BY DEF Places
  <2>5. IsFiniteSet(Places(Children(t, id), child))
    BY <2>3, <2>4, FS_Subset
  <2> HIDE DEF child
  <2> QED BY <2>1, <2>5, FS_EmptySet DEF Listed
<1> HIDE DEF child
<1>4. t.nodes[child].parent = id
  BY <1>1, <1>2, <1>3 DEF NodeFormed
<1>5. child # 0
  BY <1>1, <1>2, <1>4 DEF NodeFormed, NoParent
<1> QED BY <1>1, <1>2, <1>4, <1>5 DEF NodeFormed, child

(***************************************************************************)
(* The powers of 2, as BitVec has them                                     *)
(***************************************************************************)
Power(e) ==
    LET pow[i \in 0 .. e] == IF i = 0 THEN 1 ELSE 2 * pow[i - 1]
    IN pow[e]

LEMMA PowerIs ==
    ASSUME NEW e \in Nat
    PROVE  \E pow \in [0 .. e -> Nat \ {0}] :
             pow[0] = 1 /\ (\A k \in 1 .. e : pow[k] = 2 * pow[k - 1]) /\ Power(e) = pow[e]
<1> DEFINE D == Nat \ {0}
           step == [at \in (1 .. e) \X D |-> 2 * at[2]]
           next(f, i) == IF i = 0 THEN 1 ELSE 2 * f[i - 1]
           pow == CHOOSE f : f = [i \in 0 .. e |-> next(f, i)]
<1>1. step \in [(1 .. e) \X D -> D]
  OBVIOUS
<1>2. PICK run \in [0 .. e -> D] : Rounds(e, 1, step, run)
  <2>1. 1 \in D
    OBVIOUS
  <2> HIDE DEF step, D
  <2> QED BY <1>1, <2>1, RunExists
<1>3. run[0] = 1 /\ \A k \in 1 .. e : run[k] = 2 * run[k - 1]
  <2>1. run[0] = 1
    BY <1>2 DEF Rounds
  <2>2. ASSUME NEW k \in 1 .. e PROVE run[k] = 2 * run[k - 1]
    <3>1. run[k] = step[<<k, run[k - 1]>>] /\ k - 1 \in 0 .. e
      <4> HIDE DEF step
      <4> QED BY <1>2 DEF Rounds
    <3>2. PICK v \in D : v = run[k - 1]
      BY <3>1
    <3> QED BY <3>1, <3>2
  <2> QED BY <2>1, <2>2
<1>4. run = [i \in 0 .. e |-> next(run, i)]
  <2>1. ASSUME NEW i \in 0 .. e PROVE run[i] = next(run, i)
    <3>1. CASE i = 0
      BY <1>3, <3>1
    <3>2. CASE i \in 1 .. e
      BY <1>3, <3>2
    <3> QED BY <3>1, <3>2
  <2> HIDE DEF next
  <2> QED BY <2>1
<1>5. pow = [i \in 0 .. e |-> next(pow, i)]
  <2> HIDE DEF next
  <2> QED BY <1>4
<1>6. Power(e) = pow[e]
  BY DEF Power
<1> HIDE DEF pow
<1>7. pow[0] = 1 /\ \A k \in 1 .. e : pow[k] = 2 * pow[k - 1]
  <2>1. 0 \in 0 .. e /\ \A k \in 1 .. e : k \in 0 .. e /\ k # 0
    OBVIOUS
  <2> QED BY <1>5, <2>1
<1>8. pow \in [0 .. e -> D]
  <2> DEFINE T == {k \in 0 .. e : pow[k] \in D}
  <2>1. 0 \in T
    BY <1>7
  <2>2. ASSUME NEW k \in 1 .. e, k - 1 \in T PROVE k \in T
    BY <1>7, <2>2
  <2> HIDE DEF T
  <2>3. 0 .. e \subseteq T
    BY <2>1, <2>2, RoundsInduction
  <2>4. \A k \in 0 .. e : pow[k] \in D
    BY <2>3 DEF T
  <2>5. pow = [k \in 0 .. e |-> pow[k]]
    BY <1>5
  <2> QED BY <2>4, <2>5
<1> QED BY <1>6, <1>7, <1>8

LEMMA PowerDoubles ==
    /\ Power(0) = 1
    /\ \A e \in Nat : Power(e) \in Nat \ {0} /\ Power(e + 1) = 2 * Power(e)
<1>1. \A e \in Nat : Power(e) \in Nat \ {0}
  <2> SUFFICES ASSUME NEW e \in Nat PROVE Power(e) \in Nat \ {0}
    OBVIOUS
  <2>1. PICK p \in [0 .. e -> Nat \ {0}] : Power(e) = p[e]
    BY PowerIs
  <2> QED BY <2>1
<1>2. Power(0) = 1
  BY PowerIs
<1>3. ASSUME NEW e \in Nat PROVE Power(e + 1) = 2 * Power(e)
  <2>1. PICK p \in [0 .. e -> Nat \ {0}] :
          p[0] = 1 /\ (\A k \in 1 .. e : p[k] = 2 * p[k - 1]) /\ Power(e) = p[e]
    BY PowerIs
  <2>2. PICK q \in [0 .. e + 1 -> Nat \ {0}] :
          q[0] = 1 /\ (\A k \in 1 .. e + 1 : q[k] = 2 * q[k - 1]) /\ Power(e + 1) = q[e + 1]
    <3>1. e + 1 \in Nat
      OBVIOUS
    <3> QED BY <3>1, PowerIs
  <2> DEFINE T == {k \in 0 .. e : p[k] = q[k]}
  <2>3. 0 \in T
    BY <2>1, <2>2
  <2>4. ASSUME NEW k \in 1 .. e, k - 1 \in T PROVE k \in T
    BY <2>1, <2>2, <2>4
  <2> HIDE DEF T
  <2>5. e \in T
    <3>1. 0 .. e \subseteq T
      BY <2>3, <2>4, RoundsInduction
    <3> QED BY <3>1
  <2>6. q[e + 1] = 2 * q[e]
    <3>1. e + 1 \in 1 .. e + 1 /\ (e + 1) - 1 = e
      OBVIOUS
    <3> QED BY <2>2, <3>1
  <2> QED BY <2>1, <2>2, <2>5, <2>6 DEF T
<1> QED BY <1>1, <1>2, <1>3

(* Complete induction up from the least of the first numbers, and down     *)
(* from the greatest.                                                      *)
LEMMA UpwardInduction ==
    ASSUME NEW n \in Nat, NEW T, \A k \in 0 .. n - 1 : (\A j \in 0 .. k - 1 : j \in T) => k \in T
    PROVE  0 .. n - 1 \subseteq T
<1> SUFFICES ASSUME (0 .. n - 1) \ T # {} PROVE FALSE
  OBVIOUS
<1>1. (0 .. n - 1) \ T \in SUBSET Nat
  OBVIOUS
<1>2. PICK k \in (0 .. n - 1) \ T : \A j \in (0 .. n - 1) \ T : k <= j
  BY <1>1, NatMinimum
<1>3. \A j \in 0 .. k - 1 : j \in T
  BY <1>2
<1> QED BY <1>2, <1>3

LEMMA DownwardInduction ==
    ASSUME NEW n \in Nat, NEW T, \A k \in 0 .. n - 1 : (\A j \in k + 1 .. n - 1 : j \in T) => k \in T
    PROVE  0 .. n - 1 \subseteq T
<1> DEFINE R == {k \in 0 .. n - 1 : (n - 1) - k \in T}
<1>1. ASSUME NEW k \in 0 .. n - 1, \A j \in 0 .. k - 1 : j \in R PROVE k \in R
  <2>1. (n - 1) - k \in 0 .. n - 1
    OBVIOUS
  <2>2. ASSUME NEW j \in ((n - 1) - k) + 1 .. n - 1 PROVE j \in T
    <3>1. (n - 1) - j \in 0 .. k - 1 /\ (n - 1) - ((n - 1) - j) = j
      OBVIOUS
    <3> QED BY <1>1, <3>1
  <2>3. (n - 1) - k \in T
    BY <2>1, <2>2
  <2> QED BY <2>3
<1> HIDE DEF R
<1>2. 0 .. n - 1 \subseteq R
  BY <1>1, UpwardInduction
<1>3. ASSUME NEW k \in 0 .. n - 1 PROVE k \in T
  <2>1. (n - 1) - k \in R /\ (n - 1) - ((n - 1) - k) = k
    BY <1>2
  <2> QED BY <2>1 DEF R
<1> QED BY <1>3

(* A function whose value somewhere depends on those in places of less     *)
(* rank only exists.                                                       *)
Ranked(step, rank, S, D) ==
    /\ step \in [S \X [S -> D] -> D]
    /\ \A x \in S : \A f, g \in [S -> D] :
         (\A y \in S : rank[y] < rank[x] => f[y] = g[y]) => step[<<x, f>>] = step[<<x, g>>]

Solution(f, step, S) == \A x \in S : f[x] = step[<<x, f>>]

LEMMA SolutionExists ==
    ASSUME NEW S, NEW D, NEW d \in D, NEW m \in Nat, NEW rank \in [S -> 0 .. m],
           NEW step, Ranked(step, rank, S, D)
    PROVE  \E f \in [S -> D] : Solution(f, step, S)
<1>0. step \in [S \X [S -> D] -> D]
  BY DEF Ranked
<1> DEFINE Solves(f, k) == \A x \in S : rank[x] < k => f[x] = step[<<x, f>>]
           T == {k \in 0 .. m + 1 : \E f \in [S -> D] : Solves(f, k)}
<1>1. 0 \in T
  <2>1. PICK f : f = [x \in S |-> d]
    OBVIOUS
  <2>2. f \in [S -> D] /\ \A x \in S : ~ (rank[x] < 0)
    BY <2>1
  <2>3. 0 \in 0 .. m + 1
    OBVIOUS
  <2> QED BY <2>2, <2>3
<1>2. ASSUME NEW k \in 1 .. m + 1, k - 1 \in T PROVE k \in T
  <2>1. PICK f \in [S -> D] : Solves(f, k - 1)
    BY <1>2
  <2> DEFINE g == [x \in S |-> IF rank[x] < k - 1 THEN f[x] ELSE step[<<x, f>>]]
  <2>2. g \in [S -> D]
    BY <1>0
  <2>3. ASSUME NEW x \in S, rank[x] < k PROVE g[x] = step[<<x, g>>]
    <3>1. rank[x] \in 0 .. m
      OBVIOUS
    <3>2. ASSUME NEW y \in S, rank[y] < rank[x] PROVE f[y] = g[y]
      <4>1. rank[y] \in 0 .. m
        OBVIOUS
      <4>2. rank[y] < k - 1
        BY <2>3, <3>1, <3>2, <4>1
      <4> QED BY <4>2
    <3>3. step[<<x, f>>] = step[<<x, g>>]
      <4> HIDE DEF g
      <4> QED BY <2>2, <3>2 DEF Ranked
    <3>4. g[x] = step[<<x, f>>]
      BY <2>1
    <3> HIDE DEF g
    <3> QED BY <3>3, <3>4
  <2> HIDE DEF g
  <2>4. Solves(g, k)
    BY <2>3
  <2> QED BY <2>2, <2>4
<1> HIDE DEF T
<1>3. 0 .. m + 1 \subseteq T
  <2>1. m + 1 \in Nat
    OBVIOUS
  <2> QED BY <1>1, <1>2, <2>1, RoundsInduction
<1>4. PICK f \in [S -> D] : Solves(f, m + 1)
  <2>1. m + 1 \in T
    BY <1>3
  <2> QED BY <2>1 DEF T
<1>5. \A x \in S : rank[x] < m + 1
  OBVIOUS
<1> QED BY <1>4, <1>5 DEF Solution

(* One of the first numbers is the greatest of a set of them.              *)
LEMMA GreatestExists ==
    ASSUME NEW n \in Nat, NEW s \in SUBSET (0 .. n), s # {}
    PROVE  \E x \in s : \A y \in s : x >= y
<1> DEFINE up == {n - x : x \in s}
<1>1. up \in SUBSET Nat /\ up # {}
  <2>1. \A x \in s : x \in Int /\ n - x \in Nat
    OBVIOUS
  <2>2. PICK x : x \in s
    OBVIOUS
  <2>3. n - x \in up
    BY <2>2
  <2> QED BY <2>1, <2>3
<1>2. PICK y \in up : \A z \in up : y <= z
  BY <1>1, NatMinimum
<1>3. PICK x \in s : y = n - x
  OBVIOUS
<1>4. ASSUME NEW z \in s PROVE x >= z
  <2>1. n - z \in up
    OBVIOUS
  <2>2. n - x <= n - z /\ x \in Int /\ z \in Int
    BY <1>2, <1>3, <2>1
  <2> QED BY <2>2
<1> QED BY <1>4
=============================================================================
