------------------------------- MODULE GaProofs -------------------------------
(***************************************************************************)
(* Theorems about Ga, for every population, every fitness and every        *)
(* setting of the parameters.                                              *)
(*                                                                         *)
(* That no snapshot is deleted while named needs the snapshot of the       *)
(* current evaluation to be none of those that the bests hold (NamesOld):  *)
(* an update deletes by comparing pointers.  That every simulation starts  *)
(* from the initial conditions, and that the fittest survives crossover,   *)
(* follow the population around the loop (PopInv).                         *)
(*                                                                         *)
(* Of Algorithms: that a couple keeps every gene of both parents, and that *)
(* the operations on blocks are those of the bits, for vectors of any      *)
(* length.                                                                 *)
(***************************************************************************)
EXTENDS Ga, Algorithms, Lemmas, SequenceTheorems

(***************************************************************************)
(* What the genetic operators of Population do to a population of any size *)
(***************************************************************************)
Positions == 1 .. PopSize
Truths == BOOLEAN
Grns == [genes : GeneAlleles, initial : ProteinAlleles, simulated : Truths]

LEMMA NewGrnIsFresh ==
    ASSUME NEW grn \in NewGrns
    PROVE  grn \in Grns /\ ~ grn.simulated
<1>1. PICK g \in GeneAlleles, p \in ProteinAlleles : grn = NewGrn(g, p)
  BY DEF NewGrns
<1>2. FALSE \in Truths
  BY DEF Truths
<1>3. \A t \in Truths : [genes |-> g, initial |-> p, simulated |-> t] \in Grns
  BY DEF Grns
<1>4. grn \in Grns
  BY <1>1, <1>2, <1>3 DEF NewGrn
<1>5. ~ grn.simulated
  BY <1>1 DEF NewGrn
<1> QED BY <1>4, <1>5

LEMMA CopiedIsNew ==
    ASSUME NEW grn \in Grns
    PROVE  Copied(grn) \in NewGrns /\ Genotype(Copied(grn)) = Genotype(grn)
<1>1. grn.genes \in GeneAlleles /\ grn.initial \in ProteinAlleles
  BY DEF Grns
<1>2. NewGrn(grn.genes, grn.initial) \in NewGrns
  BY <1>1 DEF NewGrns
<1>3. Genotype(NewGrn(grn.genes, grn.initial)) = Genotype(grn)
  BY DEF NewGrn, Genotype
<1> QED BY <1>2, <1>3 DEF Copied

LEMMA ResetIsNew ==
    ASSUME NEW grn \in Grns
    PROVE  Reset(grn) \in NewGrns /\ Genotype(Reset(grn)) = Genotype(grn)
<1> QED BY CopiedIsNew DEF Copied, Reset

(***************************************************************************)
(* The fittest                                                             *)
(***************************************************************************)
(* There is a fittest, and a first of them.                                *)
LEMMA FittestExists ==
    ASSUME NEW S \in SUBSET Nat, S # {}, NEW fit \in [S -> Nat]
    PROVE  Fittest(fit) \in S
<1> DEFINE smallest(i) == \A j \in S : fit[i] <= fit[j]
           T == {i \in S : smallest(i)}
<1>1. T # {}
  <2> DEFINE values == {fit[i] : i \in S}
  <2>1. values \in SUBSET Nat /\ values # {}
    OBVIOUS
  <2>2. PICK v \in values : \A w \in values : v <= w
    BY <2>1, NatMinimum
  <2> QED BY <2>2
<1>2. PICK i \in T : \A j \in T : i <= j
  BY <1>1, NatMinimum
<1>3. i \in S /\ \A j \in S : fit[i] < fit[j] \/ (fit[i] = fit[j] /\ i <= j)
  BY <1>2
<1>4. DOMAIN fit = S
  OBVIOUS
<1> QED BY <1>3, <1>4 DEF Fittest

(***************************************************************************)
(* Crossover                                                               *)
(***************************************************************************)
LEMMA CouplesFit ==
    ASSUME NEW cross_frac \in Int, cross_frac <= CrossUnit
    PROVE  NumCouples(cross_frac) \in Nat /\ 2 * NumCouples(cross_frac) <= PopSize
<1> USE PopulationAssumption
<1>1. CASE cross_frac <= 0
  BY <1>1 DEF NumCouples
<1>2. CASE cross_frac > 0
  <2> DEFINE q == (cross_frac * PopSize) \div CrossUnit
  <2>1. cross_frac \in Nat /\ cross_frac * PopSize \in Nat
    <3>1. \A x, y \in Nat : x * y \in Nat
      OBVIOUS
    <3> QED BY <1>2, <3>1
  <2>2. cross_frac * PopSize <= CrossUnit * PopSize
    <3>1. \A x, y, z \in Nat : x <= y => x * z <= y * z
      OBVIOUS
    <3> QED BY <2>1, <3>1
  <2>3. q \in Nat /\ CrossUnit * q <= cross_frac * PopSize
    <3>1. \A n \in Nat, d \in Nat \ {0} : n \div d \in Nat /\ d * (n \div d) <= n
      OBVIOUS
    <3> QED BY <2>1, <3>1
  <2>4. q <= PopSize
    <3> HIDE DEF q
    <3>1. \A x, y \in Nat, d \in Nat \ {0} : d * x <= d * y => x <= y
      OBVIOUS
    <3>2. CrossUnit * q <= CrossUnit * PopSize
      BY <2>1, <2>2, <2>3
    <3> QED BY <2>3, <3>1, <3>2
  <2>5. NumCouples(cross_frac) = q \div 2
    BY <1>2 DEF NumCouples
  <2> HIDE DEF q
  <2> QED BY <2>3, <2>4, <2>5
<1> QED BY <1>1, <1>2

LEMMA GroupsAreSequences ==
    ASSUME NEW size \in Nat, NEW group \in Groups(size)
    PROVE  group \in Seq(NewGrns) /\ Len(group) = size
<1> QED BY SeqDef DEF Groups

(* The elite is in the group, which is no larger than the population.      *)
LEMMA EliteGroup ==
    ASSUME NEW children \in Seq(NewGrns), Len(children) <= PopSize, NEW elite \in NewGrns
    PROVE  /\ WithElite(children, elite) \in Seq(NewGrns)
           /\ Len(WithElite(children, elite)) \in Positions
           /\ WithElite(children, elite)[Len(WithElite(children, elite))] = elite
<1> USE PopulationAssumption
<1>1. CASE Len(children) < PopSize
  BY <1>1, AppendProperties DEF WithElite, Positions
<1>2. CASE ~ (Len(children) < PopSize)
  <2>1. Len(children) = PopSize
    BY <1>2
  <2>2. Front(children) \in Seq(NewGrns) /\ Len(Front(children)) = PopSize - 1
    <3>1. \A i \in 1 .. PopSize - 1 : children[i] \in NewGrns
      BY <2>1
    <3>2. SubSeq(children, 1, PopSize - 1) \in Seq(NewGrns)
      BY <3>1, SubSeqProperties
    <3>3. Len(SubSeq(children, 1, PopSize - 1)) = PopSize - 1
      BY <3>1, SubSeqProperties
    <3> QED BY <2>1, <3>2, <3>3 DEF Front
  <2>3. WithElite(children, elite) = Append(Front(children), elite)
    BY <1>2 DEF WithElite
  <2> QED BY <2>2, <2>3, AppendProperties DEF Positions
<1> QED BY <1>1, <1>2

(* Crossover gives a population of the same size, of individuals that no   *)
(* simulation has touched, one of them with the fittest one's genes.       *)
LEMMA CrossAllGives ==
    ASSUME pop \in [Positions -> Grns], NEW fit \in [0 .. PopSize - 1 -> Nat],
           NEW cross_frac \in Int, cross_frac <= CrossUnit, CrossAll(fit, cross_frac)
    PROVE  /\ pop' \in [Positions -> NewGrns]
           /\ Len(pop') = PopSize
           /\ \E i \in Positions : Genotype(pop'[i]) = Genotype(pop[Fittest(fit) + 1])
<1> USE PopulationAssumption
<1> DEFINE elite == Copied(pop[Fittest(fit) + 1])
<1>1. PICK children \in Groups(2 * NumCouples(cross_frac)) :
        LET group == WithElite(children, elite)
        IN \E random \in Groups(NumRandom(group)) : pop' = group \o random
  BY DEF CrossAll
<1> DEFINE group == WithElite(children, elite)
<1>2. Fittest(fit) + 1 \in Positions
  <2>1. 0 .. PopSize - 1 \in SUBSET Nat /\ 0 .. PopSize - 1 # {}
    OBVIOUS
  <2>2. Fittest(fit) \in 0 .. PopSize - 1
    BY <2>1, FittestExists
  <2> QED BY <2>2 DEF Positions
<1>3. elite \in NewGrns /\ Genotype(elite) = Genotype(pop[Fittest(fit) + 1])
  BY <1>2, CopiedIsNew
<1>4. children \in Seq(NewGrns) /\ Len(children) <= PopSize
  BY CouplesFit, GroupsAreSequences
<1>5. PICK random \in Groups(NumRandom(group)) : pop' = group \o random
  BY <1>1
<1> HIDE DEF elite
<1>6. /\ group \in Seq(NewGrns) /\ Len(group) \in Positions
      /\ group[Len(group)] = elite
  BY <1>3, <1>4, EliteGroup
<1> HIDE DEF group
<1>7. NumRandom(group) \in Nat /\ Len(group) + NumRandom(group) = PopSize
  BY <1>6 DEF NumRandom, Positions
<1>8. random \in Seq(NewGrns) /\ Len(random) = NumRandom(group)
  BY <1>7, GroupsAreSequences
<1>9. /\ pop' \in Seq(NewGrns)
      /\ Len(pop') = PopSize
      /\ pop'[Len(group)] = elite
  BY <1>5, <1>6, <1>7, <1>8, ConcatProperties DEF Positions
<1>10. pop' \in [Positions -> NewGrns]
  BY <1>9, LenProperties DEF Positions
<1> QED BY <1>3, <1>6, <1>9, <1>10

(***************************************************************************)
(* Mutation keeps every individual's place and what happened to its store. *)
(***************************************************************************)
LEMMA MutateAllGives ==
    ASSUME pop \in [Positions -> Grns], NEW mut_prob \in Int, MutateAll(mut_prob)
    PROVE  /\ pop' \in [Positions -> Grns]
           /\ \A i \in Positions : pop'[i].simulated = pop[i].simulated
<1>1. pop' \in [Positions -> UNION {Mutants(pop[i], mut_prob) : i \in Positions}]
  BY DEF MutateAll, Positions
<1>2. \A i \in Positions : pop'[i] \in Mutants(pop[i], mut_prob)
  BY DEF MutateAll, Positions
<1>3. ASSUME NEW grn \in Grns, NEW mutant \in Mutants(grn, mut_prob)
      PROVE  mutant \in Grns /\ mutant.simulated = grn.simulated
  <2>1. CASE mut_prob <= 0
    BY <2>1 DEF Mutants
  <2>2. CASE ~ (mut_prob <= 0)
    <3>1. mutant \in {Mutant(grn, g, p) : g \in GeneAlleles, p \in ProteinAlleles}
      BY <2>2 DEF Mutants
    <3>2. \A g \in GeneAlleles, p \in ProteinAlleles :
            Mutant(grn, g, p) \in Grns /\ Mutant(grn, g, p).simulated = grn.simulated
      BY DEF Mutant, Grns
    <3> QED BY <3>1, <3>2
  <2> QED BY <2>1, <2>2
<1>4. \A i \in Positions : pop'[i] \in Grns /\ pop'[i].simulated = pop[i].simulated
  BY <1>2, <1>3
<1> QED BY <1>1, <1>4

(***************************************************************************)
(* The invariants of the loop                                              *)
(***************************************************************************)

(* The steps of the loop between an evaluation and the next ga_step.       *)
Evaluated == {"log", "reset", "adjust", "next"}

ControlOK ==
    /\ pc \in Evaluated \cup {"evaluate", "crossover", "mutate", "done"}
    /\ ga_step \in Int
    /\ index \in Individuals
    /\ fitnesses \in [Individuals -> Nat]

NamesOld ==
    \A name \in Held(reg_bests) :
        \/ name[1] < ga_step
        \/ name[1] = ga_step /\ pc = "evaluate" /\ name[2] < index
        \/ name[1] = ga_step /\ pc \in Evaluated

(* The first evaluation of all sets the bests.                             *)
BestsFollow ==
    /\ reg_bests.gen = Null \/ reg_bests.gen_over
    /\ reg_bests.run = Null => pc = "evaluate" /\ index = 0 /\ reg_bests.gen = Null /\ least = Unseen
    /\ reg_bests.run # Null =>
         reg_bests.run_fitness = least /\ reg_bests.run_iter = reg_bests.run[1]

BestsInv ==
    /\ ControlOK
    /\ reg_bests \in BestsType
    /\ least \in Nat
    /\ SnapshotsOwned
    /\ NamesOld
    /\ BestsFollow
-----------------------------------------------------------------------------
LEMMA NullIsNoName == \A s \in Names : s # Null
<1> QED BY GaAssumption DEF Names

(* No evaluation gives the fitness that stands for none.                   *)
LEMMA UnseenIsGreater == Unseen \in Nat /\ \A f \in Fitnesses : f < Unseen
<1> DEFINE most == CHOOSE f \in Fitnesses : \A other \in Fitnesses : other <= f
<1>1. most \in Fitnesses /\ \A other \in Fitnesses : other <= most
  BY GaAssumption
<1>2. Unseen = 1 + most
  BY DEF Unseen
<1> HIDE DEF most
<1> QED BY <1>1, <1>2, GaAssumption
-----------------------------------------------------------------------------
LEMMA BestsInit == Init => BestsInv
<1> SUFFICES ASSUME Init PROVE BestsInv
  OBVIOUS
<1>1. ControlOK
  BY PopulationAssumption DEF Init, ControlOK, Evaluated, Individuals
<1>2. reg_bests \in BestsType /\ Held(reg_bests) = {}
  <2>1. FALSE \in Flags
    BY DEF Flags
  <2>2. \A flag \in Flags :
          [gen |-> Null, gen_fitness |-> -1, gen_over |-> flag,
           run |-> Null, run_fitness |-> -1, run_iter |-> -1] \in BestsType
    BY DEF BestsType
  <2>3. reg_bests \in BestsType
    BY <2>1, <2>2 DEF Init, NoBests
  <2> QED BY <2>3 DEF Init, NoBests, Held
<1>3. SnapshotsOwned /\ NamesOld
  BY <1>2 DEF Init, SnapshotsOwned, NamesOld
<1>4. BestsFollow
  BY DEF Init, NoBests, BestsFollow
<1> QED BY <1>1, <1>2, <1>3, <1>4, UnseenIsGreater DEF BestsInv, Init

LEMMA EvaluateOneBests == BestsInv /\ EvaluateOne => BestsInv'
<1> SUFFICES ASSUME BestsInv, EvaluateOne PROVE BestsInv'
  OBVIOUS
<1> USE DEF BestsInv, ControlOK
<1> DEFINE s == <<ga_step, index>>
           last == index = PopSize - 1
           g(f) == UpdateGenBest(reg_bests, s, f)
           r(f) == UpdateRunBest(g(f).bests, s, f, ga_step)
<1>1. s \in Names /\ s \notin Held(reg_bests) /\ s # Null
  <2>1. s \in Names
    BY PopulationAssumption DEF Names, Individuals
  <2>2. s[1] = ga_step /\ s[2] = index /\ pc = "evaluate"
    BY DEF EvaluateOne
  <2>3. s \notin Held(reg_bests)
    BY <2>2, PopulationAssumption DEF NamesOld, Evaluated, Individuals
  <2> QED BY <2>1, <2>3, NullIsNoName
<1>2. PICK f \in Fitnesses :
        /\ reg_bests' = GenDone(IF g(f).updated THEN r(f).bests ELSE g(f).bests)
        /\ snapshots' = (snapshots \cup {s})
              \ (g(f).deleted \cup IF g(f).updated THEN r(f).deleted ELSE {s})
        /\ least' = Lesser(least, f)
        /\ fitnesses' = [fitnesses EXCEPT ![index] = f]
        /\ pc' = IF last THEN "log" ELSE "evaluate"
        /\ index' = IF last THEN 0 ELSE index + 1
        /\ ga_step' = ga_step
  BY DEF EvaluateOne
<1>3. f \in Nat /\ ReplacesGen(reg_bests, f)
  BY GaAssumption DEF BestsFollow, ReplacesGen
<1>4. /\ g(f).updated
      /\ g(f).bests \in BestsType
      /\ Held(g(f).bests) = (Held(reg_bests) \cup {s}) \ g(f).deleted
      /\ g(f).bests.gen = s
      /\ g(f).bests.run = reg_bests.run
      /\ g(f).bests.run_fitness = reg_bests.run_fitness
      /\ g(f).bests.run_iter = reg_bests.run_iter
  <2>1. reg_bests \in BestsType
    OBVIOUS
  <2> HIDE DEF BestsInv, ControlOK, s
  <2> QED BY <2>1, <1>1, <1>3, GenUpdate
<1>5. g(f).bests.run # s
  BY <1>1, <1>4 DEF Held
<1>6. /\ r(f).bests \in BestsType
      /\ Held(r(f).bests) = Held(g(f).bests) \ r(f).deleted
      /\ r(f).bests.gen = s
      /\ IF ReplacesRun(g(f).bests, f)
         THEN /\ r(f).bests.run = s
              /\ r(f).bests.run_fitness = f
              /\ r(f).bests.run_iter = ga_step
         ELSE r(f).bests = g(f).bests
  <2> HIDE DEF g, s
  <2> QED BY <1>1, <1>3, <1>4, <1>5, RunUpdate
<1>7. reg_bests' = GenDone(r(f).bests)
  BY <1>2, <1>4
<1>8. /\ reg_bests' \in BestsType
      /\ Held(reg_bests') = Held(r(f).bests)
      /\ reg_bests'.gen = s
      /\ reg_bests'.gen_over
      /\ reg_bests'.run = r(f).bests.run
      /\ reg_bests'.run_fitness = r(f).bests.run_fitness
      /\ reg_bests'.run_iter = r(f).bests.run_iter
  BY <1>6, <1>7, GenDoneKeeps
<1>9. SnapshotsOwned'
  <2>1. snapshots' = (snapshots \cup {s}) \ (g(f).deleted \cup r(f).deleted)
    BY <1>2, <1>4
  <2> HIDE DEF g, r, s
  <2> QED BY <2>1, <1>4, <1>6, <1>8 DEF SnapshotsOwned
<1>10. NamesOld'
  <2>1. Held(reg_bests') \subseteq Held(reg_bests) \cup {s}
    BY <1>4, <1>6, <1>8
  <2>2. ASSUME NEW name \in Held(reg_bests)
        PROVE  name[1] < ga_step \/ (name[1] = ga_step /\ name[2] < index)
    BY DEF EvaluateOne, NamesOld, Evaluated
  <2>3. ASSUME NEW name \in Held(reg_bests)
        PROVE  name \in Names
    BY DEF Held, BestsType
  <2> HIDE DEF g, r
  <2> QED BY <1>2, <2>1, <2>2, <2>3 DEF NamesOld, Evaluated, Individuals, Names
<1>11. BestsFollow'
  <2>1. reg_bests'.run # Null
    BY <1>1, <1>4, <1>6, <1>8 DEF ReplacesRun
  <2>2. f < Unseen /\ Unseen \in Nat
    BY UnseenIsGreater
  <2>3. reg_bests'.run_fitness = least' /\ reg_bests'.run_iter = reg_bests'.run[1]
    <3>1. CASE reg_bests.run = Null
      <4>1. ReplacesRun(g(f).bests, f) /\ least = Unseen
        BY <1>4, <3>1 DEF ReplacesRun, BestsFollow
      <4>2. least' = f
        BY <1>2, <1>3, <2>2, <4>1 DEF Lesser
      <4> HIDE DEF g, r
      <4> QED BY <1>6, <1>8, <4>1, <4>2
    <3>2. CASE reg_bests.run # Null
      <4>1. /\ ReplacesRun(g(f).bests, f) <=> f < least
            /\ reg_bests.run_fitness = least
            /\ reg_bests.run_iter = reg_bests.run[1]
        BY <1>4, <3>2 DEF ReplacesRun, BestsFollow
      <4>2. least' = IF f < least THEN f ELSE least
        BY <1>2, <1>3 DEF Lesser
      <4> HIDE DEF g, r
      <4> QED BY <1>4, <1>6, <1>8, <4>1, <4>2
    <3> QED BY <3>1, <3>2
  <2> QED BY <1>8, <2>1, <2>3 DEF BestsFollow
<1>12. ControlOK'
  BY <1>2, <1>3, PopulationAssumption DEF Individuals, Evaluated
<1>13. least' \in Nat
  BY <1>2, <1>3 DEF Lesser
<1> QED BY <1>8, <1>9, <1>10, <1>11, <1>12, <1>13

(* Every other action leaves the bests alone; ga_step grows only once what *)
(* they hold is of an earlier step.                                        *)
LEMMA RestBests ==
    ASSUME BestsInv, UNCHANGED evaluation,
           \/ pc' = pc /\ ga_step' = ga_step
           \/ pc \in Evaluated /\ pc' \in Evaluated /\ ga_step' = ga_step
           \/ pc \in Evaluated /\ pc' \in {"crossover", "done"} /\ ga_step' = ga_step + 1
           \/ pc \in {"crossover", "mutate"} /\ pc' \in {"mutate", "evaluate"} /\ ga_step' = ga_step
    PROVE  BestsInv'
<1> USE DEF BestsInv, evaluation
<1>1. ControlOK'
  BY DEF ControlOK, Evaluated
<1>2. SnapshotsOwned' /\ least' \in Nat /\ reg_bests' \in BestsType
  BY DEF SnapshotsOwned
<1>3. NamesOld'
  <2>1. Held(reg_bests)' = Held(reg_bests)
    OBVIOUS
  <2>2. \A name \in Held(reg_bests) : name \in Names
    BY DEF Held, BestsType
  <2> QED BY <2>1, <2>2 DEF NamesOld, ControlOK, Evaluated, Names
<1>4. BestsFollow'
  BY DEF BestsFollow, Evaluated
<1> QED BY <1>1, <1>2, <1>3, <1>4

LEMMA BestsNext == BestsInv /\ [Next]_vars => BestsInv'
<1> SUFFICES ASSUME BestsInv, [Next]_vars PROVE BestsInv'
  OBVIOUS
<1>1. CASE LogFitnesses
  BY <1>1, RestBests DEF LogFitnesses, AfterLog, Evaluated
<1>2. CASE ResetProteins
  BY <1>2, RestBests DEF ResetProteins, Evaluated
<1>3. CASE AdjustParams
  BY <1>3, RestBests DEF AdjustParams, Evaluated
<1>4. CASE Iterate
  BY <1>4, RestBests DEF Iterate, NextStep, Evaluated
<1>5. CASE Crossover
  BY <1>5, RestBests DEF Crossover
<1>6. CASE Mutate
  BY <1>6, RestBests DEF Mutate
<1>7. CASE UNCHANGED vars
  BY <1>7, RestBests DEF vars
<1> QED BY <1>1, <1>2, <1>3, <1>4, <1>5, <1>6, <1>7, EvaluateOneBests DEF Next

LEMMA BestsSpec == Spec => []BestsInv
<1> QED BY BestsInit, BestsNext, PTL DEF Spec

(* The snapshots on the heap are those that RegSim's bests name: none is   *)
(* deleted while it is named, none is lost (reg_sim.cpp:55-69).            *)
THEOREM SnapshotsAreOwned == Spec => []SnapshotsOwned
<1>1. BestsInv => SnapshotsOwned
  BY DEF BestsInv
<1> QED BY <1>1, BestsSpec, PTL

(* RegSim's run best has the least fitness of all evaluations, and the     *)
(* step it is recorded with is the one its snapshot was taken in.          *)
THEOREM RunBestIsTheLeast == Spec => []RunBestIsLeast
<1>1. BestsInv => RunBestIsLeast
  BY DEF BestsInv, BestsFollow, RunBestIsLeast
<1> QED BY <1>1, BestsSpec, PTL
-----------------------------------------------------------------------------
(***************************************************************************)
(* The Logger's bests.  Its two pointers name the same copy, so that none  *)
(* is ever deleted by the first update; before the loop, when every        *)
(* individual is offered, no generation is over.                           *)
(***************************************************************************)
Logs == [bests : BestsType, copies : SUBSET Names]

LogBestsFollow ==
    /\ log_bests.gen = log_bests.run /\ log_bests.gen_fitness = log_bests.run_fitness
    /\ IF log_bests.run = Null
       THEN /\ ga_step = -1 /\ pc \in {"evaluate", "log"}
            /\ least_sampled = Unseen /\ ~ log_bests.gen_over
       ELSE /\ log_bests.run_fitness = least_sampled
            /\ ga_step = -1 => pc \in Evaluated \ {"log"}
            /\ \/ log_bests.run[1] < ga_step
               \/ log_bests.run[1] = ga_step /\ pc \in Evaluated \ {"log"}

LogInv ==
    /\ ControlOK /\ ga_step >= -1
    /\ log_bests \in BestsType /\ copies \in SUBSET Names
    /\ least_sampled \in Nat
    /\ \A i \in Individuals : fitnesses[i] < Unseen
    /\ LogBestsFollow
    /\ CopiesOwned
    /\ LoggedBestIsLeast

(* What holds of the bests and the copies after the first k individuals of *)
(* a step were looked at.                                                  *)
LogAfter(log, k) ==
    /\ log.bests.gen = log.bests.run /\ log.bests.gen_fitness = log.bests.run_fitness
    /\ Held(log.bests) \subseteq log.copies
    /\ \A copy \in log.copies \ Held(log.bests) : copy[1] = -1
    /\ ga_step = -1 => ~ log.bests.gen_over
    /\ IF log.bests.run = Null
       THEN k = 0 /\ ga_step = -1 /\ least_sampled = Unseen
       ELSE /\ \/ log.bests.run_fitness = least_sampled
               \/ \E i \in 0 .. k - 1 : log.bests.run_fitness = fitnesses[i]
            /\ log.bests.run_fitness <= least_sampled
            /\ \A i \in 0 .. k - 1 : log.bests.run_fitness <= fitnesses[i]
            /\ \/ log.bests.run[1] < ga_step
               \/ log.bests.run[1] = ga_step /\ log.bests.run[2] < k

LEMMA OfferedTyped ==
    ASSUME ControlOK, NEW log \in Logs, NEW i \in Individuals
    PROVE  Offered(log, i) \in Logs
<1> DEFINE f == fitnesses[i]
           s == <<ga_step, i>>
           g == UpdateGenBest(log.bests, s, f)
           r == UpdateRunBest(g.bests, s, f, ga_step)
<1>1. f \in Int /\ s \in Names /\ ga_step \in Int
  BY DEF ControlOK, Individuals, Names
<1>2. log.bests \in BestsType /\ log.copies \in SUBSET Names
  BY DEF Logs
<1>3. g.bests \in BestsType
  BY <1>1, <1>2, UpdatesTyped DEF UpdateGenBest
<1>4. r.bests \in BestsType
  <2> HIDE DEF g, f, s
  <2> QED BY <1>1, <1>3, UpdatesTyped DEF UpdateRunBest
<1>5. Offered(log, i) = IF IsOffered(log.bests, f)
                        THEN [bests |-> r.bests,
                              copies |-> (log.copies \cup {s}) \ (g.deleted \cup r.deleted)]
                        ELSE log
  BY DEF Offered
<1> HIDE DEF f, s, g, r
<1> QED BY <1>1, <1>2, <1>4, <1>5 DEF Logs

(* An individual that is offered is either taken by both or by neither.    *)
LEMMA OfferedKeeps ==
    ASSUME ControlOK, least_sampled \in Nat, \A i \in Individuals : fitnesses[i] < Unseen,
           NEW k \in 1 .. PopSize, NEW log \in Logs, LogAfter(log, k - 1)
    PROVE  LogAfter(Offered(log, k - 1), k)
<1> DEFINE f == fitnesses[k - 1]
           s == <<ga_step, k - 1>>
           b == log.bests
           g == UpdateGenBest(b, s, f)
           r == UpdateRunBest(g.bests, s, f, ga_step)
<1>1. /\ k - 1 \in Individuals /\ k - 1 \in Nat /\ k \in Nat
      /\ f \in Nat /\ f < Unseen /\ s \in Names /\ s # Null /\ ga_step \in Int
      /\ s[1] = ga_step /\ s[2] = k - 1
  BY PopulationAssumption, NullIsNoName DEF ControlOK, Individuals, Names
<1>2. /\ b \in BestsType /\ log.copies \in SUBSET Names
      /\ b.run_fitness \in Int /\ b.run \in Names \cup {Null}
  BY DEF Logs, BestsType
<1>3. Held(b) = {b.run} \ {Null}
  BY DEF LogAfter, Held
<1>4. s \notin Held(b)
  BY <1>1, <1>3 DEF LogAfter
<1>5. Offered(log, k - 1) = IF IsOffered(b, f)
                            THEN [bests |-> r.bests,
                                  copies |-> (log.copies \cup {s}) \ (g.deleted \cup r.deleted)]
                            ELSE log
  BY DEF Offered
<1> HIDE DEF s
<1>6. \A i \in 0 .. k - 1 : i \in 0 .. (k - 1) - 1 \/ i = k - 1
  BY <1>1
<1>7. CASE ~ IsOffered(b, f)
  <2>1. b.run # Null /\ f >= b.run_fitness
    BY <1>1, <1>2, <1>7 DEF IsOffered, LogAfter
  <2>2. \A i \in 0 .. k - 1 : b.run_fitness <= fitnesses[i]
    BY <1>6, <2>1, <1>1, <1>2 DEF LogAfter
  <2>3. Offered(log, k - 1) = log
    BY <1>5, <1>7
  <2> HIDE DEF f, g, r
  <2> QED BY <1>1, <2>1, <2>2, <2>3, <1>2, UnseenIsGreater DEF LogAfter, Names
<1>8. CASE IsOffered(b, f) /\ ~ (b.run = Null \/ f < b.run_fitness)
  <2>1. ga_step = -1 /\ ~ ReplacesGen(b, f) /\ ~ ReplacesRun(b, f)
    BY <1>8 DEF IsOffered, LogAfter, ReplacesGen, ReplacesRun
  <2>2. g.bests = b /\ g.deleted = {} /\ r.bests = b /\ r.deleted = {}
    BY <2>1 DEF UpdateGenBest, UpdateRunBest
  <2>3. Offered(log, k - 1) = [bests |-> b, copies |-> log.copies \cup {s}]
    BY <1>5, <1>8, <2>2
  <2>4. b.run # Null /\ f >= b.run_fitness
    BY <1>1, <1>2, <1>8
  <2>5. \A i \in 0 .. k - 1 : b.run_fitness <= fitnesses[i]
    BY <1>6, <2>4, <1>1, <1>2 DEF LogAfter
  <2> HIDE DEF f, g, r
  <2> QED BY <1>1, <1>2, <2>1, <2>3, <2>4, <2>5 DEF LogAfter, Names
<1>9. CASE IsOffered(b, f) /\ (b.run = Null \/ f < b.run_fitness)
  <2>1. ReplacesGen(b, f)
    BY <1>9 DEF LogAfter, ReplacesGen
  <2>2. /\ g.bests \in BestsType
        /\ g.bests.gen = s /\ g.bests.gen_fitness = f /\ ~ g.bests.gen_over
        /\ g.bests.run = b.run /\ g.bests.run_fitness = b.run_fitness
        /\ g.deleted = {}
    <3>1. /\ g.bests \in BestsType
          /\ g.bests.gen = s /\ g.bests.gen_fitness = f /\ ~ g.bests.gen_over
          /\ g.bests.run = b.run /\ g.bests.run_fitness = b.run_fitness
          /\ g.deleted = GenDeleted(b)
      <4> HIDE DEF b, f
      <4> QED BY <1>1, <1>2, <1>4, <2>1, GenUpdate
    <3>2. GenDeleted(b) = {}
      BY DEF LogAfter, GenDeleted
    <3> QED BY <3>1, <3>2
  <2>3. ReplacesRun(g.bests, f) /\ g.bests.run # s
    BY <1>1, <1>4, <1>9, <2>2 DEF ReplacesRun, Held
  <2>4. /\ r.bests \in BestsType /\ r.bests.gen = s /\ r.bests.gen_fitness = f
        /\ ~ r.bests.gen_over
        /\ r.bests.run = s /\ r.bests.run_fitness = f
        /\ r.deleted = {b.run} \ {Null}
    <3>1. /\ r.bests \in BestsType /\ r.bests.gen = s /\ r.bests.gen_fitness = g.bests.gen_fitness
          /\ r.bests.gen_over = g.bests.gen_over
          /\ r.bests.run = s /\ r.bests.run_fitness = f
          /\ r.deleted = RunDeleted(g.bests)
      <4> HIDE DEF g, f, b
      <4> QED BY <1>1, <2>2, <2>3, RunUpdate
    <3>2. RunDeleted(g.bests) = {b.run} \ {Null}
      BY <1>4, <2>2 DEF RunDeleted, Held
    <3> HIDE DEF g, f, b, r
    <3> QED BY <2>2, <3>1, <3>2
  <2>5. Offered(log, k - 1) = [bests |-> r.bests, copies |-> (log.copies \cup {s}) \ ({b.run} \ {Null})]
    BY <1>5, <1>9, <2>2, <2>4
  <2>6. Held(r.bests) = {s}
    BY <1>1, <2>4 DEF Held
  <2>7. f <= least_sampled /\ \A i \in 0 .. k - 1 : f <= fitnesses[i]
    <3>1. \A i \in Individuals : fitnesses[i] \in Nat
      BY DEF ControlOK
    <3>2. \A i \in 0 .. (k - 1) - 1 : i \in Individuals
      BY PopulationAssumption DEF Individuals
    <3>3. CASE b.run = Null
      BY <1>1, <1>6, <3>3, UnseenIsGreater DEF LogAfter
    <3>4. CASE b.run # Null
      <4>1. f < b.run_fitness /\ b.run_fitness <= least_sampled
        BY <1>9, <3>4 DEF LogAfter
      <4>2. \A i \in 0 .. (k - 1) - 1 : b.run_fitness <= fitnesses[i]
        BY <3>4 DEF LogAfter
      <4> HIDE DEF b
      <4>3. \A i \in 0 .. (k - 1) - 1 : f <= fitnesses[i]
        BY <1>1, <1>2, <3>1, <3>2, <4>1, <4>2
      <4>4. f <= least_sampled
        BY <1>1, <1>2, <4>1
      <4> QED BY <1>1, <1>6, <4>3, <4>4
    <3> QED BY <3>3, <3>4
  <2>8. \A copy \in log.copies : copy \in {s} \cup ({b.run} \ {Null}) \/ copy[1] = -1
    BY <1>3 DEF LogAfter
  <2>9. k - 1 \in 0 .. k - 1 /\ k - 1 < k /\ fitnesses[k - 1] = f
    BY <1>1
  <2> DEFINE now == Offered(log, k - 1)
  <2>10. now.bests = r.bests /\ now.copies = (log.copies \cup {s}) \ ({b.run} \ {Null})
    BY <2>5
  <2>11. s \notin {b.run} \ {Null}
    BY <1>3, <1>4
  <2> HIDE DEF f, g, r, b, now
  <2>12. /\ Held(now.bests) \subseteq now.copies
         /\ \A copy \in now.copies \ Held(now.bests) : copy[1] = -1
    BY <2>6, <2>8, <2>10, <2>11
  <2>13. LogAfter(now, k)
    BY <1>1, <2>4, <2>7, <2>9, <2>10, <2>12 DEF LogAfter
  <2> QED BY <2>13 DEF now
<1> QED BY <1>7, <1>8, <1>9

LEMMA AfterLoggingIs ==
    ASSUME ControlOK, [bests |-> log_bests, copies |-> copies] \in Logs
    PROVE  \E after \in [0 .. PopSize -> Logs] :
               /\ after[0] = [bests |-> log_bests, copies |-> copies]
               /\ \A k \in 1 .. PopSize : after[k] = Offered(after[k - 1], k - 1)
               /\ AfterLogging = after[PopSize]
<1> DEFINE start == [bests |-> log_bests, copies |-> copies]
           body(f) == [k \in 0 .. PopSize |-> IF k = 0 THEN start ELSE Offered(f[k - 1], k - 1)]
           step == [x \in (1 .. PopSize) \X Logs |-> Offered(x[2], x[1] - 1)]
           after == CHOOSE f : f = body(f)
<1>1. step \in [(1 .. PopSize) \X Logs -> Logs]
  <2>1. ASSUME NEW k \in 1 .. PopSize, NEW log \in Logs PROVE Offered(log, k - 1) \in Logs
    <3>1. k - 1 \in Individuals
      BY PopulationAssumption DEF Individuals
    <3> QED BY <3>1, OfferedTyped
  <2> QED BY <2>1
<1>2. PICK run \in [0 .. PopSize -> Logs] : Rounds(PopSize, start, step, run)
  <2> HIDE DEF step, start
  <2> QED BY <1>1, RunExists, PopulationAssumption DEF start
<1>3. run[0] = start /\ \A k \in 1 .. PopSize : run[k] = Offered(run[k - 1], k - 1)
  <2>1. \A k \in 1 .. PopSize : run[k - 1] \in Logs
    BY PopulationAssumption
  <2>2. \A k \in 1 .. PopSize : step[<<k, run[k - 1]>>] = Offered(run[k - 1], k - 1)
    BY <2>1
  <2> HIDE DEF step, start
  <2> QED BY <1>2, <2>2 DEF Rounds
<1>4. run = body(run)
  <2> HIDE DEF start
  <2>1. \A k \in 0 .. PopSize : run[k] = body(run)[k]
    BY <1>3
  <2> QED BY <2>1
<1>5. after = body(after)
  BY <1>4
<1>6. AfterLogging = after[PopSize]
  BY DEF AfterLogging
<1> HIDE DEF after, start
<1>7. ASSUME NEW k \in 0 .. PopSize PROVE after[k] = run[k]
  <2> DEFINE T == {j \in 0 .. PopSize : after[j] = run[j]}
  <2>1. 0 \in T
    BY <1>3, <1>5, PopulationAssumption
  <2>2. ASSUME NEW j \in 1 .. PopSize, j - 1 \in T PROVE j \in T
    BY <1>3, <1>5, <2>2
  <2> HIDE DEF T
  <2>3. 0 .. PopSize \subseteq T
    BY <2>1, <2>2, RoundsInduction, PopulationAssumption
  <2> QED BY <2>3 DEF T
<1>8. PopSize \in 0 .. PopSize
  BY PopulationAssumption
<1> QED BY <1>3, <1>6, <1>7, <1>8 DEF start

LEMMA LeastOfIs ==
    ASSUME NEW values \in SUBSET Nat, NEW v \in values, \A w \in values : v <= w
    PROVE  LeastOf(values) = v
<1>1. LeastOf(values) \in values /\ \A w \in values : LeastOf(values) <= w
  BY DEF LeastOf
<1>2. LeastOf(values) \in Nat /\ v \in Nat /\ LeastOf(values) <= v /\ v <= LeastOf(values)
  BY <1>1
<1> QED BY <1>2

LEMMA LogInit == Init => LogInv
<1> SUFFICES ASSUME Init PROVE LogInv
  OBVIOUS
<1>1. ControlOK
  BY BestsInit DEF BestsInv
<1>2. log_bests \in BestsType /\ Held(log_bests) = {} /\ copies = {}
  <2>1. FALSE \in Flags
    BY DEF Flags
  <2>2. \A flag \in Flags :
          [gen |-> Null, gen_fitness |-> -1, gen_over |-> flag,
           run |-> Null, run_fitness |-> -1, run_iter |-> -1] \in BestsType
    BY DEF BestsType
  <2>3. log_bests \in BestsType
    BY <2>1, <2>2 DEF Init, NoBests
  <2> QED BY <2>3 DEF Init, NoBests, Held
<1>3. least_sampled \in Nat /\ \A i \in Individuals : fitnesses[i] < Unseen
  <2>1. 0 < Unseen
    BY UnseenIsGreater, GaAssumption
  <2> QED BY <2>1, UnseenIsGreater DEF Init
<1>4. LogBestsFollow
  BY DEF Init, NoBests, LogBestsFollow
<1>5. CopiesOwned /\ LoggedBestIsLeast /\ ga_step >= -1
  BY <1>2 DEF Init, CopiesOwned, LoggedBestIsLeast
<1> QED BY <1>1, <1>2, <1>3, <1>4, <1>5 DEF LogInv

LEMMA LogFitnessesLog == LogInv /\ LogFitnesses => LogInv'
<1> SUFFICES ASSUME LogInv, LogFitnesses PROVE LogInv'
  OBVIOUS
<1> USE DEF LogInv
<1>1. /\ pc = "log" /\ pc' = AfterLog /\ UNCHANGED <<ga_step, index, fitnesses>>
  BY DEF LogFitnesses, evaluation
<1>2. pc' \in Evaluated \ {"log"} /\ ControlOK'
  BY <1>1 DEF AfterLog, Evaluated, ControlOK
<1>3. ga_step \in Int
  BY DEF ControlOK
<1>4. CASE ~ ShouldSample(ga_step)
  <2>1. UNCHANGED <<log_bests, copies, least_sampled>>
    BY <1>4 DEF LogFitnesses, logger
  <2>2. ga_step # -1 /\ log_bests.run # Null
    BY <1>1, <1>3, <1>4 DEF ShouldSample, LogBestsFollow, Evaluated
  <2>3. LogBestsFollow' /\ LoggedBestIsLeast'
    BY <1>1, <1>2, <2>1, <2>2 DEF LogBestsFollow, LoggedBestIsLeast, Evaluated
  <2> QED BY <1>1, <1>2, <2>1, <2>3 DEF CopiesOwned
<1>5. CASE ShouldSample(ga_step)
  <2> DEFINE start == [bests |-> log_bests, copies |-> copies]
  <2>1. /\ log_bests' = GenDone(AfterLogging.bests) /\ copies' = AfterLogging.copies
        /\ least_sampled' = Lesser(least_sampled, LeastOf({fitnesses[i] : i \in Individuals}))
    BY <1>5 DEF LogFitnesses
  <2>2. start \in Logs
    BY DEF Logs
  <2>3. PICK after \in [0 .. PopSize -> Logs] :
           /\ after[0] = start
           /\ \A k \in 1 .. PopSize : after[k] = Offered(after[k - 1], k - 1)
           /\ AfterLogging = after[PopSize]
    BY <2>2, AfterLoggingIs
  <2>4. LogAfter(after[0], 0)
    <3>1. after[0].bests = log_bests /\ after[0].copies = copies
      BY <2>3
    <3>2. /\ log_bests.run_fitness \in Int
          /\ 0 .. 0 - 1 = {}
      BY DEF BestsType
    <3> QED BY <1>1, <3>1, <3>2, <1>3 DEF LogAfter, LogBestsFollow, CopiesOwned, Evaluated
  <2> DEFINE T == {k \in 0 .. PopSize : LogAfter(after[k], k)}
  <2>5. 0 \in T
    BY <2>4, PopulationAssumption
  <2>6. ASSUME NEW k \in 1 .. PopSize, k - 1 \in T PROVE k \in T
    <3>1. after[k - 1] \in Logs /\ k \in 0 .. PopSize /\ LogAfter(after[k - 1], k - 1)
      BY <2>6, PopulationAssumption
    <3> QED BY <3>1, <2>3, OfferedKeeps
  <2> HIDE DEF T
  <2>7. PopSize \in T
    <3>1. 0 .. PopSize \subseteq T
      BY <2>5, <2>6, RoundsInduction, PopulationAssumption
    <3> QED BY <3>1, PopulationAssumption
  <2> DEFINE log == AfterLogging
  <2>8. log \in Logs /\ LogAfter(log, PopSize)
    BY <2>3, <2>7, PopulationAssumption DEF T
  <2>9. log.bests \in BestsType /\ log.copies \in SUBSET Names
    BY <2>8 DEF Logs
  <2> HIDE DEF log
  <2>10. /\ log_bests' \in BestsType /\ Held(log_bests') = Held(log.bests)
         /\ log_bests'.gen = log.bests.gen /\ log_bests'.gen_fitness = log.bests.gen_fitness
         /\ log_bests'.run = log.bests.run /\ log_bests'.run_fitness = log.bests.run_fitness
    BY <2>1, <2>9, GenDoneKeeps DEF log
  <2>11. log.bests.run # Null
    BY <2>8, PopulationAssumption DEF LogAfter
  <2>12. least_sampled' = log.bests.run_fitness /\ least_sampled' \in Nat
    <3> DEFINE values == {fitnesses[i] : i \in Individuals}
               v == log.bests.run_fitness
               m == LeastOf(values)
    <3>1. values \in SUBSET Nat /\ values # {}
      BY PopulationAssumption DEF ControlOK, Individuals
    <3>2. PICK w \in values : \A u \in values : w <= u
      BY <3>1, NatMinimum
    <3>3. m = w
      BY <3>1, <3>2, LeastOfIs
    <3>4. /\ v = least_sampled \/ v \in values
          /\ v <= least_sampled /\ \A u \in values : v <= u
      BY <2>8, <2>11, PopulationAssumption DEF LogAfter, Individuals
    <3>5. least_sampled' = Lesser(least_sampled, m)
      BY <2>1
    <3> HIDE DEF values, v, m
    <3>6. least_sampled' = v /\ v \in Nat
      <4>1. m = w /\ w \in Nat /\ v \in Nat /\ v <= w /\ least_sampled \in Nat
        BY <3>1, <3>2, <3>3, <3>4
      <4>2. CASE v = least_sampled
        BY <3>5, <4>1, <4>2 DEF Lesser
      <4>3. CASE v \in values
        <5>1. v = w /\ v <= least_sampled
          BY <3>2, <3>4, <4>1, <4>3
        <5> QED BY <3>5, <4>1, <5>1 DEF Lesser
      <4> QED BY <3>4, <4>2, <4>3
    <3> QED BY <3>6 DEF v
  <2>13. LogBestsFollow'
    BY <1>1, <1>2, <1>3, <2>8, <2>10, <2>11, <2>12 DEF LogBestsFollow, LogAfter
  <2>14. CopiesOwned'
    BY <2>1, <2>8, <2>10 DEF CopiesOwned, LogAfter, log
  <2>15. LoggedBestIsLeast'
    BY <1>2, <2>10, <2>12 DEF LoggedBestIsLeast, Evaluated
  <2>16. copies' \in SUBSET Names
    BY <2>1, <2>9 DEF log
  <2>17. ga_step' >= -1 /\ \A i \in Individuals : fitnesses'[i] < Unseen
    BY <1>1
  <2> QED BY <1>2, <2>10, <2>12, <2>13, <2>14, <2>15, <2>16, <2>17
<1> QED BY <1>4, <1>5

LEMMA EvaluateOneLog == LogInv /\ EvaluateOne => LogInv'
<1> SUFFICES ASSUME LogInv, EvaluateOne PROVE LogInv'
  OBVIOUS
<1> USE DEF LogInv
<1>1. PICK f \in Fitnesses :
        /\ fitnesses' = [fitnesses EXCEPT ![index] = f]
        /\ pc' = IF index = PopSize - 1 THEN "log" ELSE "evaluate"
        /\ index' = IF index = PopSize - 1 THEN 0 ELSE index + 1
  BY DEF EvaluateOne
<1>2. /\ pc = "evaluate" /\ pc' \in {"evaluate", "log"}
      /\ UNCHANGED <<ga_step, log_bests, copies, least_sampled>>
  BY <1>1 DEF EvaluateOne, logger
<1>3. ControlOK' /\ \A i \in Individuals : fitnesses'[i] < Unseen
  <2>1. f \in Nat /\ f < Unseen
    BY GaAssumption, UnseenIsGreater
  <2> QED BY <1>1, <1>2, <2>1, PopulationAssumption DEF ControlOK, Individuals, Evaluated
<1>4. LogBestsFollow'
  BY <1>2 DEF LogBestsFollow, Evaluated
<1> QED BY <1>2, <1>3, <1>4 DEF CopiesOwned, LoggedBestIsLeast

(* The other actions leave the Logger alone, and crossover is entered only *)
(* when its least fitness is above the cutoff.                             *)
LEMMA RestLog ==
    ASSUME LogInv, UNCHANGED <<index, fitnesses, log_bests, copies, least_sampled>>,
           \/ pc' = pc /\ ga_step' = ga_step
           \/ pc \in {"reset", "adjust"} /\ pc' \in {"adjust", "next"} /\ ga_step' = ga_step
           \/ /\ pc = "next" /\ ga_step' = ga_step + 1
              /\ \/ pc' = "done"
                 \/ pc' = "crossover" /\ log_bests.run_fitness > TermCutoff
           \/ pc \in {"crossover", "mutate"} /\ pc' \in {"mutate", "evaluate"} /\ ga_step' = ga_step
    PROVE  LogInv'
<1> USE DEF LogInv
<1>1. ControlOK'
  BY DEF ControlOK, Evaluated
<1>2. log_bests.run \in Names \cup {Null} /\ ga_step \in Int
  BY DEF BestsType, ControlOK
<1>3. LogBestsFollow'
  <2>1. log_bests.run # Null => log_bests.run[1] \in Int
    BY <1>2 DEF Names
  <2>2. pc' = pc /\ ga_step' = ga_step => LogBestsFollow'
    BY DEF LogBestsFollow, Evaluated
  <2>3. CASE ga_step' = ga_step
    <3>1. CASE pc \in {"reset", "adjust"} /\ pc' \in {"adjust", "next"}
      BY <2>3, <3>1 DEF LogBestsFollow, Evaluated
    <3>2. CASE pc \in {"crossover", "mutate"} /\ pc' \in {"mutate", "evaluate"}
      BY <2>3, <3>2 DEF LogBestsFollow, Evaluated
    <3> QED BY <1>2, <2>2, <2>3, <3>1, <3>2
  <2>4. CASE pc = "next" /\ ga_step' = ga_step + 1
    <3>1. log_bests.run # Null /\ log_bests.run[1] <= ga_step /\ ga_step' # ga_step
      BY <1>2, <2>1, <2>4 DEF LogBestsFollow
    <3>2. log_bests.run[1] < ga_step'
      BY <1>2, <2>1, <2>4, <3>1
    <3>3. ga_step' # -1
      BY <1>2, <2>4
    <3> QED BY <2>4, <3>1, <3>2, <3>3 DEF LogBestsFollow
  <2> QED BY <2>3, <2>4
<1>4. LoggedBestIsLeast'
  BY <1>3 DEF LogBestsFollow, LoggedBestIsLeast, Evaluated
<1>5. ga_step' >= -1
  BY <1>2
<1> QED BY <1>1, <1>3, <1>4, <1>5 DEF CopiesOwned

LEMMA LogNext == LogInv /\ [Next]_vars => LogInv'
<1> SUFFICES ASSUME LogInv, [Next]_vars PROVE LogInv'
  OBVIOUS
<1>1. CASE ResetProteins
  BY <1>1, RestLog DEF ResetProteins, evaluation, logger
<1>2. CASE AdjustParams
  BY <1>2, RestLog DEF AdjustParams, evaluation, logger
<1>3. CASE Iterate
  BY <1>3, RestLog DEF Iterate, NextStep, Continues, evaluation, logger
<1>4. CASE Crossover
  BY <1>4, RestLog DEF Crossover, evaluation, logger
<1>5. CASE Mutate
  BY <1>5, RestLog DEF Mutate, evaluation, logger
<1>6. CASE UNCHANGED vars
  BY <1>6, RestLog DEF vars, evaluation, logger
<1> QED BY <1>1, <1>2, <1>3, <1>4, <1>5, <1>6, EvaluateOneLog, LogFitnessesLog DEF Next

LEMMA LogSpec == Spec => []LogInv
<1> QED BY LogInit, LogNext, PTL DEF Spec

(* No copy of the Logger's is deleted while a best names it.  The copies   *)
(* on the heap are those that its two bests name and, it may be, refused   *)
(* copies of the initial population, which nobody deletes: of step -1, and *)
(* of no other, a copy may be lost (logger.cpp:370-378).                   *)
THEOREM CopiesAreOwned == Spec => []CopiesOwned
<1>1. LogInv => CopiesOwned
  BY DEF LogInv
<1> QED BY <1>1, LogSpec, PTL

(* The Logger knows the least fitness of the sampled steps, and no new     *)
(* population is made once that has reached the cutoff (ga.cpp:58).        *)
THEOREM TheLoggerKnowsTheLeast == Spec => []LoggedBestIsLeast
<1>1. LogInv => LoggedBestIsLeast
  BY DEF LogInv
<1> QED BY <1>1, LogSpec, PTL
-----------------------------------------------------------------------------
(* The population around the loop: who was simulated, who is the champion. *)
PopInv ==
    /\ ControlOK
    /\ pc # "evaluate" => index = 0
    /\ pop \in [Positions -> Grns]
    /\ params \in [mut_prob : Int, cross_frac : Int]
    /\ params.cross_frac <= CrossUnit
    /\ EvaluatedFresh
    /\ pc = "mutate" => \A i \in Positions : ~ pop[i].simulated
    /\ pc \in Evaluated \cup {"crossover"} => champion = Genotype(pop[Fittest(fitnesses) + 1])
    /\ EliteSurvivesCrossover

LEMMA FittestIsOne ==
    ASSUME NEW fit \in [Individuals -> Nat]
    PROVE  Fittest(fit) \in Individuals /\ Fittest(fit) + 1 \in Positions
<1>1. Individuals \in SUBSET Nat /\ Individuals # {}
  BY PopulationAssumption DEF Individuals
<1>2. Fittest(fit) \in Individuals
  BY <1>1, FittestExists
<1> QED BY <1>2, PopulationAssumption DEF Individuals, Positions

LEMMA PopInit == Init => PopInv
<1> SUFFICES ASSUME Init PROVE PopInv
  OBVIOUS
<1>1. ControlOK /\ index = 0
  BY PopulationAssumption DEF Init, ControlOK, Evaluated, Individuals
<1>2. pop \in [Positions -> NewGrns]
  BY DEF Init, NewPopulation, Groups, Positions
<1>3. pop \in [Positions -> Grns] /\ \A i \in Positions : ~ pop[i].simulated
  BY <1>2, NewGrnIsFresh
<1>4. EvaluatedFresh
  BY <1>1, <1>3 DEF EvaluatedFresh, Positions
<1>5. params \in [mut_prob : Int, cross_frac : Int] /\ params.cross_frac <= CrossUnit
  BY GaAssumption DEF Init
<1>6. pc = "evaluate"
  BY DEF Init
<1> QED BY <1>1, <1>3, <1>4, <1>5, <1>6 DEF PopInv, EliteSurvivesCrossover, Evaluated

LEMMA EvaluateOnePop == PopInv /\ EvaluateOne => PopInv'
<1> SUFFICES ASSUME PopInv, EvaluateOne PROVE PopInv'
  OBVIOUS
<1> USE PopulationAssumption DEF PopInv
<1> DEFINE last == index = PopSize - 1
<1>1. PICK f \in Fitnesses :
        /\ fitnesses' = [fitnesses EXCEPT ![index] = f]
        /\ pc' = IF last THEN "log" ELSE "evaluate"
        /\ index' = IF last THEN 0 ELSE index + 1
        /\ champion' = IF last THEN Genotype(pop[Fittest(fitnesses') + 1]) ELSE champion
  BY DEF EvaluateOne
<1>2. /\ pc = "evaluate"
      /\ pop' = [pop EXCEPT ![index + 1].simulated = TRUE]
      /\ ga_step' = ga_step /\ params' = params
  BY DEF EvaluateOne, Simulated
<1>3. ControlOK' /\ f \in Nat
  <2>1. f \in Nat
    BY GaAssumption
  <2>2. fitnesses' \in [Individuals -> Nat] /\ index' \in Individuals
    BY <1>1, <2>1 DEF ControlOK, Individuals
  <2> QED BY <1>1, <1>2, <2>1, <2>2 DEF ControlOK, Evaluated
<1>4. index + 1 \in Positions
  BY DEF ControlOK, Individuals, Positions
<1>5. /\ pop' \in [Positions -> Grns]
      /\ \A i \in Positions : Genotype(pop'[i]) = Genotype(pop[i])
      /\ \A i \in Positions : i # index + 1 => pop'[i] = pop[i]
      /\ pop'[index + 1].simulated
  <2> DEFINE now == [pop[index + 1] EXCEPT !.simulated = TRUE]
  <2>1. pop[index + 1] \in Grns
    BY <1>4
  <2>2. TRUE \in Truths
    BY DEF Truths
  <2>3. \A t \in Truths : [pop[index + 1] EXCEPT !.simulated = t] \in Grns
    BY <2>1 DEF Grns
  <2>4. now \in Grns
    BY <2>2, <2>3
  <2>5. /\ now.genes = pop[index + 1].genes /\ now.initial = pop[index + 1].initial
        /\ now.simulated
    BY <2>1 DEF Grns
  <2>6. Genotype(now) = Genotype(pop[index + 1])
    BY <2>5 DEF Genotype
  <2>7. pop' = [pop EXCEPT ![index + 1] = now]
    BY <1>2
  <2> HIDE DEF now
  <2> QED BY <1>4, <2>4, <2>5, <2>6, <2>7
<1>6. EvaluatedFresh'
  <2> SUFFICES ASSUME pc' = "evaluate", NEW i \in Positions
               PROVE  pop'[i].simulated <=> i <= index'
    BY DEF EvaluatedFresh, Positions
  <2>1. index' = index + 1 /\ index \in Nat
    BY <1>1 DEF ControlOK, Individuals
  <2>2. pop[i].simulated <=> i <= index
    BY <1>2 DEF EvaluatedFresh, Positions
  <2>3. CASE i = index + 1
    BY <2>1, <2>3, <1>5
  <2>4. CASE i # index + 1
    <3>1. i <= index <=> i <= index + 1
      BY <2>1, <2>4 DEF Positions
    <3>2. pop'[i] = pop[i]
      BY <2>4, <1>5
    <3> QED BY <2>1, <2>2, <3>1, <3>2
  <2> QED BY <2>3, <2>4
<1>7. pc' \in Evaluated \cup {"crossover"} => champion' = Genotype(pop'[Fittest(fitnesses') + 1])
  <2> SUFFICES ASSUME last
               PROVE  champion' = Genotype(pop'[Fittest(fitnesses') + 1])
    BY <1>1 DEF Evaluated
  <2>1. Fittest(fitnesses') + 1 \in Positions
    BY <1>3, FittestIsOne DEF ControlOK
  <2> QED BY <1>1, <1>5, <2>1
<1> QED BY <1>1, <1>2, <1>3, <1>5, <1>6, <1>7 DEF EliteSurvivesCrossover, Evaluated

LEMMA ResetProteinsPop == PopInv /\ ResetProteins => PopInv'
<1> SUFFICES ASSUME PopInv, ResetProteins PROVE PopInv'
  OBVIOUS
<1> USE DEF PopInv
<1>1. pop' \in [Positions -> Grns] /\ \A i \in Positions : Genotype(pop'[i]) = Genotype(pop[i])
  <2>1. pop' = [i \in Positions |-> Reset(pop[i])]
    BY DEF ResetProteins, ResetAll, Positions
  <2>2. \A i \in Positions : Reset(pop[i]) \in Grns /\ Genotype(Reset(pop[i])) = Genotype(pop[i])
    BY ResetIsNew, NewGrnIsFresh
  <2> QED BY <2>1, <2>2
<1>2. /\ pc = "reset" /\ pc' = "adjust"
      /\ UNCHANGED <<ga_step, index, fitnesses, params, champion>>
  BY DEF ResetProteins, evaluation
<1>3. ControlOK'
  BY <1>2 DEF ControlOK, Evaluated
<1>4. champion' = Genotype(pop'[Fittest(fitnesses') + 1])
  BY <1>1, <1>2, FittestIsOne DEF ControlOK, Evaluated
<1> QED BY <1>1, <1>2, <1>3, <1>4 DEF EvaluatedFresh, EliteSurvivesCrossover

LEMMA CrossoverPop == PopInv /\ Crossover => PopInv'
<1> SUFFICES ASSUME PopInv, Crossover PROVE PopInv'
  OBVIOUS
<1> USE DEF PopInv
<1>1. /\ pc = "crossover" /\ pc' = "mutate" /\ CrossAll(fitnesses, params.cross_frac)
      /\ UNCHANGED <<ga_step, index, fitnesses, params, champion>>
  BY DEF Crossover, evaluation
<1>2. params.cross_frac \in Int /\ fitnesses \in [0 .. PopSize - 1 -> Nat]
  BY DEF ControlOK, Individuals
<1>3. /\ pop' \in [Positions -> NewGrns]
      /\ Len(pop') = PopSize
      /\ \E i \in Positions : Genotype(pop'[i]) = Genotype(pop[Fittest(fitnesses) + 1])
  BY <1>1, <1>2, CrossAllGives
<1>4. pop' \in [Positions -> Grns] /\ \A i \in Positions : ~ pop'[i].simulated
  BY <1>3, NewGrnIsFresh
<1>5. EliteSurvivesCrossover'
  BY <1>1, <1>3 DEF EliteSurvivesCrossover, Positions
<1>6. ControlOK'
  BY <1>1 DEF ControlOK
<1> QED BY <1>1, <1>4, <1>5, <1>6 DEF EvaluatedFresh, Evaluated

LEMMA MutatePop == PopInv /\ Mutate => PopInv'
<1> SUFFICES ASSUME PopInv, Mutate PROVE PopInv'
  OBVIOUS
<1> USE DEF PopInv
<1>1. /\ pc = "mutate" /\ pc' = "evaluate" /\ MutateAll(params.mut_prob)
      /\ UNCHANGED <<ga_step, index, fitnesses, params, champion>>
  BY DEF Mutate, evaluation
<1>2. params.mut_prob \in Int
  OBVIOUS
<1>3. /\ pop' \in [Positions -> Grns]
      /\ \A i \in Positions : pop'[i].simulated = pop[i].simulated
  BY <1>1, <1>2, MutateAllGives
<1>4. EvaluatedFresh'
  BY <1>1, <1>3 DEF EvaluatedFresh, Positions
<1>5. ControlOK'
  BY <1>1 DEF ControlOK
<1> QED BY <1>1, <1>3, <1>4, <1>5 DEF EliteSurvivesCrossover, Evaluated

(* However often it is adjusted, the fraction that is crossed stays one.   *)
LEMMA ClampKeeps ==
    ASSUME NEW value \in Int, NEW step \in Int, NEW limit \in Int
    PROVE  /\ ClampParam(value, step, limit) \in Int
           /\ value <= CrossUnit /\ limit <= CrossUnit =>
                ClampParam(value, step, limit) <= CrossUnit
<1> USE PopulationAssumption DEF ClampParam, Lesser
<1>1. CASE step > 0
  BY <1>1
<1>2. CASE step < 0
  BY <1>2
<1>3. CASE step = 0
  BY <1>3
<1> QED BY <1>1, <1>2, <1>3

LEMMA AdjustParamsPop == PopInv /\ AdjustParams => PopInv'
<1> SUFFICES ASSUME PopInv, AdjustParams PROVE PopInv'
  OBVIOUS
<1> USE DEF PopInv
<1>1. /\ pc = "adjust" /\ pc' = "next"
      /\ UNCHANGED <<ga_step, index, fitnesses, pop, champion>>
  BY DEF AdjustParams, evaluation
<1>2. params' \in [mut_prob : Int, cross_frac : Int] /\ params'.cross_frac <= CrossUnit
  <2>1. /\ MutStep \in Int /\ MutProbLimit \in Int
        /\ CrossStep \in Int /\ CrossFracLimit \in Int /\ CrossFracLimit <= CrossUnit
    BY GaAssumption
  <2>2. CASE params' = params
    BY <2>2
  <2>3. CASE params' = [mut_prob |-> ClampParam(params.mut_prob, MutStep, MutProbLimit),
                        cross_frac |-> ClampParam(params.cross_frac, CrossStep, CrossFracLimit)]
    BY <2>1, <2>3, ClampKeeps
  <2> QED BY <2>2, <2>3 DEF AdjustParams
<1>3. ControlOK'
  BY <1>1 DEF ControlOK, Evaluated
<1> QED BY <1>1, <1>2, <1>3 DEF EvaluatedFresh, EliteSurvivesCrossover, Evaluated

(* The other actions leave the population alone.                           *)
LEMMA RestPop ==
    ASSUME PopInv, UNCHANGED <<index, fitnesses, pop, params, champion>>, ga_step' \in Int,
           pc' = pc \/ (pc \in Evaluated /\ pc' \in Evaluated \cup {"crossover", "done"})
    PROVE  PopInv'
<1> USE DEF PopInv
<1>1. ControlOK'
  BY DEF ControlOK
<1>2. EvaluatedFresh' /\ EliteSurvivesCrossover'
  BY DEF EvaluatedFresh, EliteSurvivesCrossover, Evaluated
<1> QED BY <1>1, <1>2 DEF Evaluated

LEMMA PopNext == PopInv /\ [Next]_vars => PopInv'
<1> SUFFICES ASSUME PopInv, [Next]_vars PROVE PopInv'
  OBVIOUS
<1>1. ga_step \in Int /\ ga_step + 1 \in Int
  BY DEF PopInv, ControlOK
<1>2. CASE LogFitnesses
  BY <1>1, <1>2, RestPop DEF LogFitnesses, AfterLog, Evaluated, evaluation
<1>3. CASE Iterate
  BY <1>1, <1>3, RestPop DEF Iterate, NextStep, Evaluated, evaluation
<1>4. CASE UNCHANGED vars
  BY <1>1, <1>4, RestPop DEF vars, evaluation
<1> QED BY <1>2, <1>3, <1>4, EvaluateOnePop, ResetProteinsPop, AdjustParamsPop,
           CrossoverPop, MutatePop DEF Next

LEMMA PopSpec == Spec => []PopInv
<1> QED BY PopInit, PopNext, PTL DEF Spec

(* No individual is simulated with what an earlier simulation left in it,  *)
(* although nothing is reset after the evaluation before the loop          *)
(* (ga.cpp:54-70).                                                         *)
THEOREM EverySimulationIsFresh == Spec => []EvaluatedFresh
<1>1. PopInv => EvaluatedFresh
  BY DEF PopInv
<1> QED BY <1>1, PopSpec, PTL

(* The fittest individual of an evaluation is in the population after      *)
(* crossover, and the population has the size it had, for every size and   *)
(* every fraction that the adjusting comes to (crossover.cpp:58-76).       *)
THEOREM TheFittestSurvives == Spec => []EliteSurvivesCrossover
<1>1. PopInv => EliteSurvivesCrossover
  BY DEF PopInv
<1> QED BY <1>1, PopSpec, PTL

(***************************************************************************)
(* The genes of two children, a place being a parent and an index, or a    *)
(* child and an index                                                      *)
(***************************************************************************)

PutTogether(child, left, right, mix) ==
    /\ DOMAIN child = 1 .. Len(left) + Len(right)
    /\ \A k \in 1 .. Len(left) + Len(right) :
         /\ child[k].pos = k - 1
         /\ k <= mix => child[k].first = left[k] /\ child[k].second = right[k]
         /\ mix < k /\ k <= 2 * mix =>
              child[k].first = right[k - mix] /\ child[k].second = left[k - mix]
         /\ 2 * mix < k /\ Len(left) > Len(right) =>
              child[k].first = left[k - mix] /\ child[k].second = left[k - mix]
         /\ 2 * mix < k /\ ~ (Len(left) > Len(right)) =>
              child[k].first = right[k - mix] /\ child[k].second = right[k - mix]

LEMMA BuildChildIs ==
    ASSUME NEW D, NEW left \in Seq(D), NEW right \in Seq(D), NEW mix,
           mix = IF Len(left) < Len(right) THEN Len(left) ELSE Len(right)
    PROVE  PutTogether(BuildChild(left, right), left, right, mix)
<1> DEFINE a == Len(left)
           b == Len(right)
           longer == IF a > b THEN left ELSE right
           child == BuildChild(left, right)
<1>1. a \in Nat /\ b \in Nat
  OBVIOUS
<1> HIDE DEF a, b
<1>2. mix \in Nat
  BY <1>1 DEF a, b
<1>3. child = [k \in 1 .. a + b |->
          IF k <= mix THEN [first |-> left[k], second |-> right[k], pos |-> k - 1]
          ELSE IF k <= 2 * mix
               THEN [first |-> right[k - mix], second |-> left[k - mix], pos |-> mix + (k - mix - 1)]
          ELSE [first |-> longer[mix + (k - 2 * mix)], second |-> longer[mix + (k - 2 * mix)],
                pos |-> 2 * mix + ((k - 2 * mix) - 1)]]
  BY DEF BuildChild, Cross, CopyOf, a, b
<1>4. ASSUME NEW k \in 1 .. a + b
      PROVE  mix + (k - mix - 1) = k - 1 /\ mix + (k - 2 * mix) = k - mix
             /\ 2 * mix + ((k - 2 * mix) - 1) = k - 1 /\ (mix < k => ~ (k <= mix))
             /\ (2 * mix < k => ~ (k <= 2 * mix) /\ ~ (k <= mix))
             /\ (k <= mix \/ (mix < k /\ k <= 2 * mix) \/ 2 * mix < k)
  BY <1>1, <1>2
<1> HIDE DEF child, longer
<1>5. ASSUME NEW k \in 1 .. a + b
      PROVE  /\ child[k].pos = k - 1
             /\ k <= mix => child[k].first = left[k] /\ child[k].second = right[k]
             /\ mix < k /\ k <= 2 * mix =>
                  child[k].first = right[k - mix] /\ child[k].second = left[k - mix]
             /\ 2 * mix < k => child[k].first = longer[k - mix] /\ child[k].second = longer[k - mix]
  <2>1. CASE k <= mix
    <3>1. child[k] = [first |-> left[k], second |-> right[k], pos |-> k - 1]
      BY <1>3, <2>1
    <3>2. ~ (mix < k) /\ ~ (2 * mix < k)
      BY <1>4, <2>1
    <3> QED BY <3>1, <3>2
  <2>2. CASE mix < k /\ k <= 2 * mix
    <3>1. ~ (k <= mix) /\ ~ (2 * mix < k)
      BY <1>4, <2>2
    <3>2. child[k] = [first |-> right[k - mix], second |-> left[k - mix], pos |-> mix + (k - mix - 1)]
      BY <1>3, <2>2, <3>1
    <3> QED BY <1>4, <3>1, <3>2
  <2>3. CASE 2 * mix < k
    <3>1. ~ (k <= mix) /\ ~ (k <= 2 * mix)
      BY <1>4, <2>3
    <3>2. child[k] = [first |-> longer[mix + (k - 2 * mix)], second |-> longer[mix + (k - 2 * mix)],
                      pos |-> 2 * mix + ((k - 2 * mix) - 1)]
      BY <1>3, <3>1
    <3> QED BY <1>4, <3>1, <3>2
  <2> QED BY <1>4, <2>1, <2>2, <2>3
<1>6. DOMAIN child = 1 .. a + b
  BY <1>3
<1> QED BY <1>5, <1>6 DEF longer, child, a, b, PutTogether

GenePlaces(n) == {0, 1} \X (1 .. n)
Mix(n, split) == IF split < n - split THEN split ELSE n - split

(* Where the genes are from that the children's genes begin and end with.  *)
RestFrom(c, k, n, split) ==
    IF split > n - split THEN <<c, k - Mix(n, split)>> ELSE <<1 - c, split + (k - Mix(n, split))>>
FirstFrom(c, k, n, split) ==
    IF k <= Mix(n, split) THEN <<c, k>>
    ELSE IF k <= 2 * Mix(n, split) THEN <<1 - c, split + (k - Mix(n, split))>>
    ELSE RestFrom(c, k, n, split)
SecondFrom(c, k, n, split) ==
    IF k <= Mix(n, split) THEN <<1 - c, split + k>>
    ELSE IF k <= 2 * Mix(n, split) THEN <<c, k - Mix(n, split)>>
    ELSE RestFrom(c, k, n, split)

(* Where the gene of a parent has come to.                                 *)
FirstTo(p, i, n, split) ==
    IF i <= Mix(n, split) THEN <<p, i>>
    ELSE IF i <= split THEN <<p, i + Mix(n, split)>>
    ELSE <<1 - p, (i - split) + Mix(n, split)>>
SecondTo(p, i, n, split) ==
    IF i <= split THEN <<p, i + Mix(n, split)>>
    ELSE IF i <= split + Mix(n, split) THEN <<1 - p, i - split>>
    ELSE <<1 - p, (i - split) + Mix(n, split)>>

LEMMA MixIs ==
    ASSUME NEW n \in Nat, NEW split \in 1 .. n
    PROVE  /\ Mix(n, split) \in Nat /\ Mix(n, split) <= split /\ Mix(n, split) <= n - split
           /\ split > n - split => Mix(n, split) = n - split
           /\ ~ (split > n - split) => Mix(n, split) = split
<1> QED BY DEF Mix

LEMMA FirstPlaces ==
    ASSUME NEW n \in Nat, NEW split \in 1 .. n, NEW c \in {0, 1}, NEW k \in 1 .. n
    PROVE  LET from == FirstFrom(c, k, n, split)
               to == FirstTo(c, k, n, split)
           IN /\ from \in GenePlaces(n) /\ FirstTo(from[1], from[2], n, split) = <<c, k>>
              /\ to \in GenePlaces(n) /\ FirstFrom(to[1], to[2], n, split) = <<c, k>>
<1>1. PICK m : m = Mix(n, split)
  OBVIOUS
<1>2. /\ m \in Nat /\ m <= split /\ m <= n - split
      /\ split > n - split => m = n - split
      /\ ~ (split > n - split) => m = split
  BY <1>1, MixIs
<1>3. 1 - c \in {0, 1} /\ 1 - (1 - c) = c
  OBVIOUS
<1>4. /\ FirstFrom(c, k, n, split) \in GenePlaces(n)
      /\ FirstTo(FirstFrom(c, k, n, split)[1], FirstFrom(c, k, n, split)[2], n, split) = <<c, k>>
  BY <1>1, <1>2, <1>3 DEF FirstFrom, FirstTo, RestFrom, GenePlaces
<1>5. /\ FirstTo(c, k, n, split) \in GenePlaces(n)
      /\ FirstFrom(FirstTo(c, k, n, split)[1], FirstTo(c, k, n, split)[2], n, split) = <<c, k>>
  BY <1>1, <1>2, <1>3 DEF FirstFrom, FirstTo, RestFrom, GenePlaces
<1> QED BY <1>4, <1>5

LEMMA SecondPlaces ==
    ASSUME NEW n \in Nat, NEW split \in 1 .. n, NEW c \in {0, 1}, NEW k \in 1 .. n
    PROVE  LET from == SecondFrom(c, k, n, split)
               to == SecondTo(c, k, n, split)
           IN /\ from \in GenePlaces(n) /\ SecondTo(from[1], from[2], n, split) = <<c, k>>
              /\ to \in GenePlaces(n) /\ SecondFrom(to[1], to[2], n, split) = <<c, k>>
<1>1. PICK m : m = Mix(n, split)
  OBVIOUS
<1>2. /\ m \in Nat /\ m <= split /\ m <= n - split
      /\ split > n - split => m = n - split
      /\ ~ (split > n - split) => m = split
  BY <1>1, MixIs
<1>3. 1 - c \in {0, 1} /\ 1 - (1 - c) = c
  OBVIOUS
<1>4. /\ SecondFrom(c, k, n, split) \in GenePlaces(n)
      /\ SecondTo(SecondFrom(c, k, n, split)[1], SecondFrom(c, k, n, split)[2], n, split) = <<c, k>>
  BY <1>1, <1>2, <1>3 DEF SecondFrom, SecondTo, RestFrom, GenePlaces
<1>5. /\ SecondTo(c, k, n, split) \in GenePlaces(n)
      /\ SecondFrom(SecondTo(c, k, n, split)[1], SecondTo(c, k, n, split)[2], n, split) = <<c, k>>
  BY <1>1, <1>2, <1>3 DEF SecondFrom, SecondTo, RestFrom, GenePlaces
<1> QED BY <1>4, <1>5

LEMMA InverseIs ==
    ASSUME NEW S, NEW f \in [S -> S], NEW g \in [S -> S],
           \A x \in S : g[f[x]] = x /\ f[g[x]] = x
    PROVE  f \in Bijection(S, S)
<1>1. \A x, y \in S : f[x] = f[y] => x = y
  OBVIOUS
<1>2. \A x \in S : \E y \in S : f[y] = x
  OBVIOUS
<1> QED BY <1>1, <1>2 DEF Bijection, Injection, Surjection, IsInjective

FirstOf(n, split) == [at \in GenePlaces(n) |-> FirstFrom(at[1], at[2], n, split)]
SecondOf(n, split) == [at \in GenePlaces(n) |-> SecondFrom(at[1], at[2], n, split)]

LEMMA FirstsAreAll ==
    ASSUME NEW n \in Nat, NEW split \in 1 .. n
    PROVE  FirstOf(n, split) \in Bijection(GenePlaces(n), GenePlaces(n))
<1> DEFINE from == FirstOf(n, split)
           to == [at \in GenePlaces(n) |-> FirstTo(at[1], at[2], n, split)]
<1>1. ASSUME NEW at \in GenePlaces(n)
      PROVE  /\ from[at] \in GenePlaces(n) /\ FirstTo(from[at][1], from[at][2], n, split) = at
             /\ to[at] \in GenePlaces(n) /\ FirstFrom(to[at][1], to[at][2], n, split) = at
  <2>1. PICK c \in {0, 1}, k \in 1 .. n : at = <<c, k>>
    BY DEF GenePlaces
  <2>2. from[at] = FirstFrom(c, k, n, split) /\ to[at] = FirstTo(c, k, n, split)
    BY <2>1 DEF FirstOf
  <2> HIDE DEF from, to
  <2> QED BY <2>1, <2>2, FirstPlaces
<1>2. from \in [GenePlaces(n) -> GenePlaces(n)] /\ to \in [GenePlaces(n) -> GenePlaces(n)]
  BY <1>1 DEF FirstOf
<1>3. \A at \in GenePlaces(n) : to[from[at]] = at /\ from[to[at]] = at
  BY <1>1 DEF FirstOf
<1> HIDE DEF from, to
<1>4. from \in Bijection(GenePlaces(n), GenePlaces(n))
  BY <1>2, <1>3, InverseIs
<1> QED BY <1>4 DEF from

LEMMA SecondsAreAll ==
    ASSUME NEW n \in Nat, NEW split \in 1 .. n
    PROVE  SecondOf(n, split) \in Bijection(GenePlaces(n), GenePlaces(n))
<1> DEFINE from == SecondOf(n, split)
           to == [at \in GenePlaces(n) |-> SecondTo(at[1], at[2], n, split)]
<1>1. ASSUME NEW at \in GenePlaces(n)
      PROVE  /\ from[at] \in GenePlaces(n) /\ SecondTo(from[at][1], from[at][2], n, split) = at
             /\ to[at] \in GenePlaces(n) /\ SecondFrom(to[at][1], to[at][2], n, split) = at
  <2>1. PICK c \in {0, 1}, k \in 1 .. n : at = <<c, k>>
    BY DEF GenePlaces
  <2>2. from[at] = SecondFrom(c, k, n, split) /\ to[at] = SecondTo(c, k, n, split)
    BY <2>1 DEF SecondOf
  <2> HIDE DEF from, to
  <2> QED BY <2>1, <2>2, SecondPlaces
<1>2. from \in [GenePlaces(n) -> GenePlaces(n)] /\ to \in [GenePlaces(n) -> GenePlaces(n)]
  BY <1>1 DEF SecondOf
<1>3. \A at \in GenePlaces(n) : to[from[at]] = at /\ from[to[at]] = at
  BY <1>1 DEF SecondOf
<1> HIDE DEF from, to
<1>4. from \in Bijection(GenePlaces(n), GenePlaces(n))
  BY <1>2, <1>3, InverseIs
<1> QED BY <1>4 DEF from

GenesFrom(child, parents, c, n, split) ==
    /\ DOMAIN child = 1 .. n
    /\ \A k \in 1 .. n :
         LET first == FirstFrom(c, k, n, split)
             second == SecondFrom(c, k, n, split)
         IN /\ child[k].pos = k - 1
            /\ child[k].first = parents[first[1]][first[2]]
            /\ child[k].second = parents[second[1]][second[2]]

(* One child: parent c's slice on the left, the other's on the right.      *)
LEMMA ChildGenesAre ==
    ASSUME NEW D, NEW n \in Nat, NEW split \in 1 .. n,
           NEW own \in Seq(D), Len(own) = n, NEW other \in Seq(D), Len(other) = n,
           NEW c \in {0, 1}, NEW parents, parents[c] = own, parents[1 - c] = other,
           NEW child, child = BuildChild(LeftSlice(own, split), RightSlice(other, split))
    PROVE  GenesFrom(child, parents, c, n, split)
<1> DEFINE left == LeftSlice(own, split)
           right == RightSlice(other, split)
<1>1. PICK m : m = Mix(n, split)
  OBVIOUS
<1>2. /\ m \in Nat /\ m <= split /\ m <= n - split
      /\ split > n - split => m = n - split
      /\ ~ (split > n - split) => m = split
  BY <1>1, MixIs
<1>3. /\ left \in Seq(D) /\ Len(left) = split
      /\ \A i \in 1 .. split : left[i] = own[i]
  <2>1. left = SubSeq(own, 1, split)
    BY DEF LeftSlice
  <2>2. 1 \in Int /\ split \in Int /\ \A i \in 1 .. split : own[i] \in D
    OBVIOUS
  <2> HIDE DEF left
  <2>3. /\ SubSeq(own, 1, split) \in Seq(D)
        /\ Len(SubSeq(own, 1, split)) = IF 1 <= split THEN split - 1 + 1 ELSE 0
        /\ \A i \in 1 .. split - 1 + 1 : SubSeq(own, 1, split)[i] = own[1 + i - 1]
    BY <2>2, SubSeqProperties
  <2>4. split - 1 + 1 = split /\ 1 <= split /\ \A i \in 1 .. split : 1 + i - 1 = i
    OBVIOUS
  <2> QED BY <2>1, <2>3, <2>4
<1>4. /\ right \in Seq(D) /\ Len(right) = n - split
      /\ \A i \in 1 .. n - split : right[i] = other[split + i]
  <2>1. right = SubSeq(other, split + 1, n)
    BY DEF RightSlice
  <2>2. split + 1 \in Int /\ n \in Int /\ \A i \in split + 1 .. n : other[i] \in D
    OBVIOUS
  <2> HIDE DEF right
  <2>3. /\ SubSeq(other, split + 1, n) \in Seq(D)
        /\ Len(SubSeq(other, split + 1, n)) = IF split + 1 <= n THEN n - (split + 1) + 1 ELSE 0
        /\ \A i \in 1 .. n - (split + 1) + 1 : SubSeq(other, split + 1, n)[i] = other[split + 1 + i - 1]
    BY <2>2, SubSeqProperties
  <2>4. /\ n - (split + 1) + 1 = n - split /\ (~ (split + 1 <= n) => n - split = 0)
        /\ \A i \in 1 .. n - split : split + 1 + i - 1 = split + i
    OBVIOUS
  <2> QED BY <2>1, <2>3, <2>4
<1> HIDE DEF left, right
<1>5. m = IF Len(left) < Len(right) THEN Len(left) ELSE Len(right)
  BY <1>2, <1>3, <1>4
<1>6. split + (n - split) = n
  OBVIOUS
<1>7. /\ DOMAIN child = 1 .. n
      /\ \A k \in 1 .. n :
           /\ child[k].pos = k - 1
           /\ k <= m => child[k].first = left[k] /\ child[k].second = right[k]
           /\ m < k /\ k <= 2 * m => child[k].first = right[k - m] /\ child[k].second = left[k - m]
           /\ 2 * m < k /\ split > n - split =>
                child[k].first = left[k - m] /\ child[k].second = left[k - m]
           /\ 2 * m < k /\ ~ (split > n - split) =>
                child[k].first = right[k - m] /\ child[k].second = right[k - m]
  <2>1. child = BuildChild(left, right)
    BY DEF left, right
  <2>2. /\ left \in Seq(D) /\ right \in Seq(D) /\ Len(left) = split /\ Len(right) = n - split
        /\ m = IF Len(left) < Len(right) THEN Len(left) ELSE Len(right)
    BY <1>3, <1>4, <1>5
  <2>3. PutTogether(BuildChild(left, right), left, right, m)
    BY ONLY <2>2, BuildChildIs
  <2> QED BY ONLY <1>6, <2>1, <2>2, <2>3 DEF PutTogether
<1> SUFFICES ASSUME NEW k \in 1 .. n
             PROVE  LET first == FirstFrom(c, k, n, split)
                        second == SecondFrom(c, k, n, split)
                    IN /\ child[k].first = parents[first[1]][first[2]]
                       /\ child[k].second = parents[second[1]][second[2]]
  BY <1>7 DEF GenesFrom
<1>8. CASE k <= m
  <2>1. FirstFrom(c, k, n, split) = <<c, k>> /\ SecondFrom(c, k, n, split) = <<1 - c, split + k>>
    BY <1>1, <1>8 DEF FirstFrom, SecondFrom
  <2>2. k \in 1 .. split /\ k \in 1 .. n - split
    BY <1>2, <1>8
  <2>3. child[k].first = left[k] /\ child[k].second = right[k]
    BY <1>7, <1>8
  <2>4. left[k] = own[k] /\ right[k] = other[split + k]
    BY <1>3, <1>4, <2>2
  <2> QED BY <2>1, <2>3, <2>4
<1>9. CASE m < k /\ k <= 2 * m
  <2>1. ~ (k <= m)
    BY <1>2, <1>9
  <2>2. /\ FirstFrom(c, k, n, split) = <<1 - c, split + (k - m)>>
        /\ SecondFrom(c, k, n, split) = <<c, k - m>>
    BY <1>1, <1>9, <2>1 DEF FirstFrom, SecondFrom
  <2>3. k - m \in 1 .. split /\ k - m \in 1 .. n - split
    BY <1>2, <1>9
  <2>4. child[k].first = right[k - m] /\ child[k].second = left[k - m]
    BY <1>7, <1>9
  <2>5. right[k - m] = other[split + (k - m)] /\ left[k - m] = own[k - m]
    BY <1>3, <1>4, <2>3
  <2> QED BY <2>2, <2>4, <2>5
<1>10. CASE 2 * m < k
  <2>1. ~ (k <= m) /\ ~ (k <= 2 * m)
    BY <1>2, <1>10
  <2>2. FirstFrom(c, k, n, split) = RestFrom(c, k, n, split) /\ SecondFrom(c, k, n, split) = RestFrom(c, k, n, split)
    BY <1>1, <2>1 DEF FirstFrom, SecondFrom
  <2>3. CASE split > n - split
    <3>1. RestFrom(c, k, n, split) = <<c, k - m>> /\ k - m \in 1 .. split
      BY <1>1, <1>2, <1>10, <2>3 DEF RestFrom
    <3>2. child[k].first = left[k - m] /\ child[k].second = left[k - m]
      BY <1>7, <1>10, <2>3
    <3>3. left[k - m] = own[k - m]
      BY <1>3, <3>1
    <3> QED BY <2>2, <3>1, <3>2, <3>3
  <2>4. CASE ~ (split > n - split)
    <3>1. RestFrom(c, k, n, split) = <<1 - c, split + (k - m)>> /\ k - m \in 1 .. n - split
      BY <1>1, <1>2, <1>10, <2>4 DEF RestFrom
    <3>2. child[k].first = right[k - m] /\ child[k].second = right[k - m]
      BY <1>7, <1>10, <2>4
    <3>3. right[k - m] = other[split + (k - m)]
      BY <1>4, <3>1
    <3> QED BY <2>2, <3>1, <3>2, <3>3
  <2> QED BY <2>3, <2>4
<1>11. k <= m \/ (m < k /\ k <= 2 * m) \/ 2 * m < k
  BY <1>2
<1> QED BY <1>8, <1>9, <1>10, <1>11

KeepsEveryGene(children, parents, n) ==
    LET child(c) == children[c + 1]
    IN /\ \A c \in {0, 1} : DOMAIN child(c) = 1 .. n /\ \A k \in 1 .. n : child(c)[k].pos = k - 1
       /\ \E first \in Bijection(GenePlaces(n), GenePlaces(n)) : \A at \in GenePlaces(n) :
            child(at[1])[at[2]].first = parents[first[at][1]][first[at][2]]
       /\ \E second \in Bijection(GenePlaces(n), GenePlaces(n)) : \A at \in GenePlaces(n) :
            child(at[1])[at[2]].second = parents[second[at][1]][second[at][2]]

(* Between them the two children of a couple have every gene of both       *)
(* parents once as the one that a gene begins with and once as the one it  *)
(* ends with, wherever the parents are split and whatever their genes, and *)
(* every child's genes are numbered by their place (crossover.cpp:31-51,   *)
(* 153-181): the modules that index genes by pos rely on it.               *)
THEOREM CouplesKeepEveryGene ==
    ASSUME NEW D, NEW n \in Nat, NEW split \in 1 .. n,
           NEW parents \in [{0, 1} -> [1 .. n -> D]]
    PROVE  KeepsEveryGene(ChildGenes(parents[0], parents[1], split), parents, n)
<1> DEFINE child(c) == ChildGenes(parents[0], parents[1], split)[c + 1]
           built(c) == BuildChild(LeftSlice(parents[c], split), RightSlice(parents[1 - c], split))
<1>1. \A c \in {0, 1} : child(c) = built(c)
  <2>1. 0 + 1 = 1 /\ 1 + 1 = 2 /\ 1 - 0 = 1 /\ 1 - 1 = 0
    OBVIOUS
  <2>2. child(0) = BuildChild(LeftSlice(parents[0], split), RightSlice(parents[1], split))
    BY <2>1 DEF ChildGenes
  <2>3. child(1) = BuildChild(LeftSlice(parents[1], split), RightSlice(parents[0], split))
    BY <2>1 DEF ChildGenes
  <2> QED BY <2>1, <2>2, <2>3
<1>2. ASSUME NEW c \in {0, 1} PROVE parents[c] \in Seq(D) /\ Len(parents[c]) = n
  <2>1. parents[c] \in [1 .. n -> D]
    OBVIOUS
  <2> QED BY <2>1
<1> HIDE DEF child
<1>3. ASSUME NEW c \in {0, 1}, NEW k \in 1 .. n
      PROVE  LET first == FirstFrom(c, k, n, split)
                 second == SecondFrom(c, k, n, split)
             IN /\ DOMAIN child(c) = 1 .. n /\ child(c)[k].pos = k - 1
                /\ child(c)[k].first = parents[first[1]][first[2]]
                /\ child(c)[k].second = parents[second[1]][second[2]]
  <2>1. 1 - c \in {0, 1}
    OBVIOUS
  <2>2. PICK own, other, x : own = parents[c] /\ other = parents[1 - c] /\ x = child(c)
    OBVIOUS
  <2>3. own \in Seq(D) /\ Len(own) = n /\ other \in Seq(D) /\ Len(other) = n
    BY <1>2, <2>1, <2>2
  <2>4. x = BuildChild(LeftSlice(own, split), RightSlice(other, split))
    BY <1>1, <2>2
  <2>5. GenesFrom(x, parents, c, n, split)
    BY ONLY <2>1, <2>2, <2>3, <2>4, ChildGenesAre, n \in Nat, split \in 1 .. n, c \in {0, 1}
  <2> QED BY <2>2, <2>5 DEF GenesFrom
<1>4. n \in 1 .. n
  OBVIOUS
<1>5. \A c \in {0, 1} : DOMAIN child(c) = 1 .. n /\ \A k \in 1 .. n : child(c)[k].pos = k - 1
  BY <1>3, <1>4
<1>6. ASSUME NEW at \in GenePlaces(n)
      PROVE  /\ child(at[1])[at[2]].first =
                  parents[FirstOf(n, split)[at][1]][FirstOf(n, split)[at][2]]
             /\ child(at[1])[at[2]].second =
                  parents[SecondOf(n, split)[at][1]][SecondOf(n, split)[at][2]]
  <2>1. at[1] \in {0, 1} /\ at[2] \in 1 .. n
    BY DEF GenePlaces
  <2>2. /\ FirstOf(n, split)[at] = FirstFrom(at[1], at[2], n, split)
        /\ SecondOf(n, split)[at] = SecondFrom(at[1], at[2], n, split)
    BY DEF FirstOf, SecondOf
  <2> QED BY <1>3, <2>1, <2>2
<1>7. FirstOf(n, split) \in Bijection(GenePlaces(n), GenePlaces(n))
  BY FirstsAreAll
<1>8. SecondOf(n, split) \in Bijection(GenePlaces(n), GenePlaces(n))
  BY SecondsAreAll
<1>9. \E first \in Bijection(GenePlaces(n), GenePlaces(n)) : \A at \in GenePlaces(n) :
         child(at[1])[at[2]].first = parents[first[at][1]][first[at][2]]
  BY <1>6, <1>7
<1>10. \E second \in Bijection(GenePlaces(n), GenePlaces(n)) : \A at \in GenePlaces(n) :
         child(at[1])[at[2]].second = parents[second[at][1]][second[at][2]]
  BY <1>6, <1>8
<1> QED BY <1>5, <1>9, <1>10 DEF child, KeepsEveryGene

(* In a couple of any size, split anywhere, every gene of both parents is  *)
(* once the first and once the second source of a child's gene, and every  *)
(* child's genes are numbered by their place (crossover.cpp:31-51,         *)
(* 153-181).                                                               *)
THEOREM EveryGeneIsInAPair ==
    ASSUME input.size \in Nat, input.split_pt \in 1 .. input.size
    PROVE  PairKeepsEveryGene
<1> DEFINE n == input.size
           split == input.split_pt
           places == {0, 1} \X (1 .. n)
           children == ChildGenes(ParentOf(0), ParentOf(1), split)
           parents == [c \in {0, 1} |-> ParentOf(c)]
           child(at) == children[at[1] + 1][at[2]]
<1>1. parents \in [{0, 1} -> [1 .. n -> places]]
  BY DEF ParentOf
<1>2. parents[0] = ParentOf(0) /\ parents[1] = ParentOf(1)
  OBVIOUS
<1>3. ASSUME NEW gene \in places PROVE parents[gene[1]][gene[2]] = gene
  BY DEF ParentOf
<1>4. places = GenePlaces(n)
  BY DEF GenePlaces
<1>5. /\ \A c \in {0, 1} : \A k \in 1 .. n : children[c + 1][k].pos = k - 1
      /\ \E first \in Bijection(places, places) : \A at \in places :
           child(at).first = parents[first[at][1]][first[at][2]]
      /\ \E second \in Bijection(places, places) : \A at \in places :
           child(at).second = parents[second[at][1]][second[at][2]]
  <2>1. PICK D : D = places
    OBVIOUS
  <2>2. parents \in [{0, 1} -> [1 .. n -> D]] /\ n \in Nat /\ split \in 1 .. n
    BY <1>1, <2>1
  <2> HIDE DEF parents, places, n, split
  <2>3. KeepsEveryGene(ChildGenes(parents[0], parents[1], split), parents, n)
    BY <2>2, CouplesKeepEveryGene
  <2>4. children = ChildGenes(parents[0], parents[1], split)
    BY <1>2 DEF split
  <2> HIDE DEF children
  <2>5. KeepsEveryGene(children, parents, n)
    BY <2>3, <2>4
  <2> QED BY <1>4, <2>5 DEF KeepsEveryGene
<1> HIDE DEF parents, children
<1>6. ASSUME NEW perm \in Bijection(places, places), NEW gene \in places
      PROVE  \E at \in places : perm[at] = gene /\ {other \in places : perm[other] = gene} = {at}
  <2>1. /\ perm \in [places -> places] /\ \A a, b \in places : perm[a] = perm[b] => a = b
        /\ \E at \in places : perm[at] = gene
    BY DEF Bijection, Injection, Surjection, IsInjective
  <2> HIDE DEF places
  <2> QED BY <2>1
<1>7. ASSUME NEW gene \in places PROVE Cardinality({at \in places : child(at).first = gene}) = 1
  <2>1. PICK perm \in Bijection(places, places) : \A at \in places :
           child(at).first = parents[perm[at][1]][perm[at][2]]
    BY <1>5
  <2>2. \A at \in places : perm[at] \in places
    BY DEF Bijection, Injection
  <2> HIDE DEF places, child
  <2>3. \A at \in places : child(at).first = perm[at]
    BY <1>3, <2>1, <2>2
  <2>4. PICK at \in places : {other \in places : perm[other] = gene} = {at}
    BY <1>6
  <2>5. {other \in places : child(other).first = gene} = {at}
    BY <2>3, <2>4
  <2> QED BY <2>5, FS_Singleton
<1>8. ASSUME NEW gene \in places PROVE Cardinality({at \in places : child(at).second = gene}) = 1
  <2>1. PICK perm \in Bijection(places, places) : \A at \in places :
           child(at).second = parents[perm[at][1]][perm[at][2]]
    BY <1>5
  <2>2. \A at \in places : perm[at] \in places
    BY DEF Bijection, Injection
  <2> HIDE DEF places, child
  <2>3. \A at \in places : child(at).second = perm[at]
    BY <1>3, <2>1, <2>2
  <2>4. PICK at \in places : {other \in places : perm[other] = gene} = {at}
    BY <1>6
  <2>5. {other \in places : child(other).second = gene} = {at}
    BY <2>3, <2>4
  <2> QED BY <2>5, FS_Singleton
<1>9. ASSUME NEW gene \in places PROVE child(gene).pos = gene[2] - 1
  <2>1. gene[1] \in {0, 1} /\ gene[2] \in 1 .. n
    OBVIOUS
  <2> QED BY <1>5, <2>1
<1> HIDE DEF places, child
<1>10. \A gene \in places : /\ Cardinality({at \in places : child(at).first = gene}) = 1
                            /\ Cardinality({at \in places : child(at).second = gene}) = 1
                            /\ child(gene).pos = gene[2] - 1
  BY <1>7, <1>8, <1>9
<1> QED BY <1>10 DEF places, child, children, PairKeepsEveryGene

(***************************************************************************)
(* Bit vectors: bit m of a vector is the i-th of its k-th block            *)
(***************************************************************************)
At(k, i) == (k - 1) * BlockBits + i

(* A block has some bits.                                                  *)
LEMMA BlockBitsAre == BlockBits \in Nat /\ BlockBits >= 1 /\ BitPos = 1 .. BlockBits
BY BitVecAssumption DEF BitPos

(* The block and the place in it of a bit are what / and % give back ...   *)
LEMMA PlaceOfBit ==
    ASSUME NEW k \in Int, NEW i \in BitPos
    PROVE  /\ At(k, i) \in Int
           /\ (At(k, i) - 1) \div BlockBits = k - 1
           /\ (At(k, i) - 1) % BlockBits = i - 1
<1>1. BlockBits \in Nat /\ BlockBits >= 1 /\ i \in 1 .. BlockBits
  BY BitVecAssumption DEF BitPos
<1> QED BY <1>1 DEF At

(* ... and every bit has a place.                                          *)
LEMMA BitOfPlace ==
    ASSUME NEW m \in Int
    PROVE  /\ ((m - 1) \div BlockBits) + 1 \in Int
           /\ ((m - 1) % BlockBits) + 1 \in BitPos
           /\ At(((m - 1) \div BlockBits) + 1, ((m - 1) % BlockBits) + 1) = m
<1>1. BlockBits \in Nat /\ BlockBits >= 1
  BY BitVecAssumption
<1> QED BY <1>1 DEF At, BitPos

(* The blocks of n bits hold them all, and every block but the last is full.*)
LEMMA BlocksReach ==
    ASSUME NEW n \in Nat
    PROVE  /\ NumBlocks(n) \in Nat
           /\ \A k \in Int, i \in BitPos : At(k, i) \in 1 .. n => k \in 1 .. NumBlocks(n)
           /\ \A k \in 1 .. NumBlocks(n) - 1, i \in BitPos : At(k, i) \in 1 .. n
           /\ \A k \in Int, i \in BitPos : k <= 0 => At(k, i) <= 0
           /\ \A k \in Int, i \in BitPos : 1 <= k => 1 <= At(k, i)
<1>1. BlockBits \in Nat /\ BlockBits >= 1 /\ BitPos = 1 .. BlockBits
  BY BitVecAssumption DEF BitPos
<1> QED BY <1>1 DEF At, NumBlocks

BitAt(n, b, m) == IF m \in 1 .. n THEN b[m] ELSE 0

(* The blocks of n bits, each place of which has the bit there or a 0.     *)
Blocks(n) == [1 .. NumBlocks(n) -> [BitPos -> {0, 1}]]

(* What OfBits makes: a 0 at every place beyond the length.                *)
LEMMA BitsFillBlocks ==
    ASSUME NEW n \in Nat, NEW b \in [1 .. n -> {0, 1}]
    PROVE  /\ OfBits(b) = [len |-> n, blocks |-> OfBits(b).blocks]
           /\ OfBits(b).blocks \in Blocks(n)
           /\ DOMAIN OfBits(b).blocks = 1 .. NumBlocks(n)
           /\ Len(OfBits(b).blocks) = NumBlocks(n)
           /\ \A k \in 1 .. NumBlocks(n), i \in BitPos : OfBits(b).blocks[k][i] = BitAt(n, b, At(k, i))
<1>1. Len(b) = n /\ NumBlocks(n) \in Nat
  BY BlocksReach
<1> DEFINE bl == [k \in 1 .. NumBlocks(n) |-> [i \in BitPos |-> BitAt(n, b, At(k, i))]]
<1>2. OfBits(b) = [len |-> n, blocks |-> bl]
  <2>1. \A k \in 1 .. NumBlocks(n), i \in BitPos :
          (IF At(k, i) <= n THEN b[At(k, i)] ELSE 0) = BitAt(n, b, At(k, i))
    <3> SUFFICES ASSUME NEW k \in 1 .. NumBlocks(n), NEW i \in BitPos
                 PROVE  At(k, i) <= n <=> At(k, i) \in 1 .. n
      BY DEF BitAt
    <3>1. k \in Int /\ 1 <= k
      BY <1>1
    <3>2. At(k, i) \in Int /\ 1 <= At(k, i)
      BY <3>1, PlaceOfBit, BlocksReach
    <3> QED BY <3>2
  <2>2. \A k \in 1 .. NumBlocks(n) :
          [i \in BitPos |-> IF At(k, i) <= n THEN b[At(k, i)] ELSE 0] = [i \in BitPos |-> BitAt(n, b, At(k, i))]
    BY <2>1
  <2>3. [k \in 1 .. NumBlocks(n) |-> [i \in BitPos |-> IF At(k, i) <= n THEN b[At(k, i)] ELSE 0]] = bl
    BY <2>2
  <2> HIDE DEF bl
  <2> QED BY <1>1, <2>3 DEF OfBits, At
<1>3. bl \in Blocks(n)
  BY DEF Blocks, BitAt
<1> QED BY <1>1, <1>2, <1>3

(* A vector that holds the bits is that of the bits.                       *)
Hold(bl, n, b) ==
    /\ DOMAIN bl = 1 .. NumBlocks(n) /\ bl = [k \in DOMAIN bl |-> bl[k]]
    /\ \A k \in 1 .. NumBlocks(n) : bl[k] = [i \in BitPos |-> bl[k][i]]
    /\ \A k \in 1 .. NumBlocks(n), i \in BitPos : bl[k][i] = BitAt(n, b, At(k, i))

(* An operation that replaces the blocks keeps the length.                 *)
LEMMA WithBlocks ==
    ASSUME NEW v, NEW n, NEW bl, v = [len |-> n, blocks |-> bl]
    PROVE  \A other : [v EXCEPT !.blocks = other] = [len |-> n, blocks |-> other]
<1> QED OBVIOUS

LEMMA VectorOfBits ==
    ASSUME NEW n \in Nat, NEW b \in [1 .. n -> {0, 1}], NEW bl, Hold(bl, n, b)
    PROVE  [len |-> n, blocks |-> bl] = OfBits(b)
<1> DEFINE bs == OfBits(b).blocks
<1>1. /\ OfBits(b) = [len |-> n, blocks |-> bs] /\ bs \in Blocks(n)
      /\ \A k \in 1 .. NumBlocks(n), i \in BitPos : bs[k][i] = BitAt(n, b, At(k, i))
  BY BitsFillBlocks
<1> HIDE DEF bs
<1>2. ASSUME NEW k \in 1 .. NumBlocks(n) PROVE bl[k] = bs[k]
  <2>1. bs[k] = [i \in BitPos |-> bs[k][i]]
    BY <1>1 DEF Blocks
  <2>2. bl[k] = [i \in BitPos |-> bl[k][i]] /\ \A i \in BitPos : bl[k][i] = bs[k][i]
    BY <1>1 DEF Hold
  <2> QED BY <2>1, <2>2
<1>3. bs = [k \in 1 .. NumBlocks(n) |-> bs[k]]
  BY <1>1 DEF Blocks
<1>4. bl = bs
  BY <1>2, <1>3 DEF Hold
<1> QED BY <1>1, <1>4

(* The string of a vector is the one it was made of.                       *)
LEMMA BitsComeBack ==
    ASSUME NEW n \in Nat, NEW b \in [1 .. n -> {0, 1}]
    PROVE  ToBits(OfBits(b)) = b
<1> DEFINE bs == OfBits(b).blocks
<1>1. /\ OfBits(b) = [len |-> n, blocks |-> bs]
      /\ \A k \in 1 .. NumBlocks(n), i \in BitPos : bs[k][i] = BitAt(n, b, At(k, i))
  BY BitsFillBlocks
<1> HIDE DEF bs
<1>2. ASSUME NEW m \in 1 .. n PROVE bs[((m - 1) \div BlockBits) + 1][((m - 1) % BlockBits) + 1] = b[m]
  <2>1. PICK k, i : k = ((m - 1) \div BlockBits) + 1 /\ i = ((m - 1) % BlockBits) + 1
    OBVIOUS
  <2>2. k \in Int /\ i \in BitPos /\ At(k, i) = m
    <3>1. m \in Int
      OBVIOUS
    <3>2. /\ ((m - 1) \div BlockBits) + 1 \in Int /\ ((m - 1) % BlockBits) + 1 \in BitPos
          /\ At(((m - 1) \div BlockBits) + 1, ((m - 1) % BlockBits) + 1) = m
      BY <3>1, BitOfPlace
    <3> QED BY <2>1, <3>2
  <2>3. k \in 1 .. NumBlocks(n)
    BY <2>2, BlocksReach
  <2> QED BY <1>1, <2>1, <2>2, <2>3 DEF BitAt
<1>3. ToBits(OfBits(b)) = [m \in 1 .. n |-> bs[((m - 1) \div BlockBits) + 1][((m - 1) % BlockBits) + 1]]
  BY <1>1 DEF ToBits
<1>4. b = [m \in 1 .. n |-> b[m]]
  OBVIOUS
<1> QED BY <1>2, <1>3, <1>4

(* The bits beyond the length are zeroed, and only those.                  *)
LEMMA ExtraAreZeroed ==
    ASSUME NEW n \in Nat, NEW bl \in Blocks(n)
    PROVE  ZeroExtraBits([len |-> n, blocks |-> bl])
             = [len |-> n, blocks |-> [k \in 1 .. NumBlocks(n) |->
                  [i \in BitPos |-> IF At(k, i) <= n THEN bl[k][i] ELSE 0]]]
<1> DEFINE B == BlockBits
           N == NumBlocks(n)
           over == n % B
           mask == NotBlock(MakeBlockMask(over, B))
           kept == [k \in 1 .. N |-> [i \in BitPos |-> IF At(k, i) <= n THEN bl[k][i] ELSE 0]]
<1>1. /\ N \in Nat /\ DOMAIN bl = 1 .. N /\ Len(bl) = N /\ bl = [k \in 1 .. N |-> bl[k]]
      /\ \A k \in 1 .. N : bl[k] = [i \in BitPos |-> bl[k][i]] /\ \A i \in BitPos : bl[k][i] \in {0, 1}
  <2>1. N \in Nat
    BY BlocksReach
  <2> HIDE DEF N
  <2>2. bl \in [1 .. N -> [BitPos -> {0, 1}]]
    BY DEF Blocks, N
  <2> QED BY <2>1, <2>2
<1>2. B \in Nat /\ B >= 1 /\ BitPos = 1 .. B
  BY BitVecAssumption DEF BitPos
<1>3. CASE over = 0
  <2>1. ASSUME NEW k \in 1 .. N, NEW i \in BitPos PROVE At(k, i) <= n
    BY <1>2, <1>3 DEF At, NumBlocks
  <2>2. \A k \in 1 .. N : [i \in BitPos |-> IF At(k, i) <= n THEN bl[k][i] ELSE 0] = bl[k]
    BY <1>1, <2>1
  <2>3. kept = bl
    <3> HIDE DEF N
    <3> QED BY <1>1, <2>2
  <2> HIDE DEF kept, N
  <2> QED BY <1>3, <2>3 DEF ZeroExtraBits, kept, N
<1>4. CASE over # 0
  <2>1. N \in 1 .. N
    BY <1>2, <1>4 DEF NumBlocks
  <2>2. ASSUME NEW k \in 1 .. N, k # N, NEW i \in BitPos PROVE At(k, i) <= n
    BY <1>2, <1>4, <2>2 DEF At, NumBlocks
  <2>3. ASSUME NEW i \in BitPos PROVE At(N, i) <= n <=> i <= over
    <3>1. PICK q \in Nat : q = n \div B
      BY <1>2
    <3>2. n = q * B + over /\ over \in Nat
      BY <1>2, <3>1
    <3>3. N = q + 1
      BY <1>4, <3>1, <3>2 DEF NumBlocks
    <3>4. At(N, i) = q * B + i
      <4> HIDE DEF N
      <4> QED BY <1>2, <3>3 DEF At
    <3>5. q * B \in Nat /\ i \in Int
      BY <1>2
    <3> HIDE DEF N, over
    <3> QED BY <3>2, <3>4, <3>5
  <2>4. \A i \in BitPos : mask[i] = IF i <= over THEN 1 ELSE 0
    <3>1. over \in Int
      BY <1>2
    <3> HIDE DEF over
    <3> QED BY <1>2, <3>1 DEF NotBlock, MakeBlockMask
  <2> HIDE DEF mask, over, N
  <2>5. AndBlock(bl[N], mask) = [i \in BitPos |-> IF At(N, i) <= n THEN bl[N][i] ELSE 0]
    <3>1. ASSUME NEW i \in BitPos PROVE bl[N][i] * mask[i] = IF At(N, i) <= n THEN bl[N][i] ELSE 0
      <4>1. bl[N][i] \in {0, 1}
        BY <1>1, <2>1
      <4>2. mask[i] = IF At(N, i) <= n THEN 1 ELSE 0
        BY <2>3, <2>4
      <4> QED BY <4>1, <4>2
    <3> QED BY <3>1 DEF AndBlock
  <2>6. \A k \in 1 .. N : k # N => bl[k] = [i \in BitPos |-> IF At(k, i) <= n THEN bl[k][i] ELSE 0]
    BY <1>1, <2>2
  <2>7. [bl EXCEPT ![N] = AndBlock(bl[N], mask)] = kept
    BY <1>1, <2>1, <2>5, <2>6
  <2>8. ZeroExtraBits([len |-> n, blocks |-> bl])
          = [len |-> n, blocks |-> [bl EXCEPT ![N] = AndBlock(bl[N], mask)]]
    BY <1>1, <1>4 DEF ZeroExtraBits, mask, over
  <2> HIDE DEF kept
  <2> QED BY <2>7, <2>8 DEF kept, N
<1> QED BY <1>3, <1>4

(* Whatever the blocks hold within the length are the bits of the result,  *)
(* once the others are zeroed.                                             *)
LEMMA ZeroedIsVector ==
    ASSUME NEW n \in Nat, NEW b \in [1 .. n -> {0, 1}], NEW bl \in Blocks(n),
           \A k \in 1 .. NumBlocks(n), i \in BitPos : At(k, i) <= n => bl[k][i] = BitAt(n, b, At(k, i))
    PROVE  ZeroExtraBits([len |-> n, blocks |-> bl]) = OfBits(b)
<1> DEFINE kept == [k \in 1 .. NumBlocks(n) |-> [i \in BitPos |-> IF At(k, i) <= n THEN bl[k][i] ELSE 0]]
<1>1. ZeroExtraBits([len |-> n, blocks |-> bl]) = [len |-> n, blocks |-> kept]
  BY ExtraAreZeroed
<1>2. \A k \in 1 .. NumBlocks(n), i \in BitPos : kept[k][i] = BitAt(n, b, At(k, i))
  <2> SUFFICES ASSUME NEW k \in 1 .. NumBlocks(n), NEW i \in BitPos
               PROVE  (IF At(k, i) <= n THEN bl[k][i] ELSE 0) = BitAt(n, b, At(k, i))
    OBVIOUS
  <2>1. NumBlocks(n) \in Nat /\ k \in Int
    BY BlocksReach
  <2>2. At(k, i) \in Int
    BY <2>1, PlaceOfBit
  <2>3. ~ (At(k, i) <= n) => ~ (At(k, i) \in 1 .. n)
    BY <2>2
  <2> QED BY <2>3 DEF BitAt
<1>3. /\ DOMAIN kept = 1 .. NumBlocks(n) /\ kept = [k \in DOMAIN kept |-> kept[k]]
      /\ \A k \in 1 .. NumBlocks(n) : kept[k] = [i \in BitPos |-> kept[k][i]]
  OBVIOUS
<1> HIDE DEF kept
<1>4. Hold(kept, n, b)
  BY <1>2, <1>3 DEF Hold
<1>5. [len |-> n, blocks |-> kept] = OfBits(b)
  BY ONLY <1>4, n \in Nat, b \in [1 .. n -> {0, 1}], VectorOfBits
<1> QED BY <1>1, <1>5

(* Not turns the bits beyond the length to 1 and zeroes them again.        *)
LEMMA NotOfBits ==
    ASSUME NEW n \in Nat, NEW b \in [1 .. n -> {0, 1}]
    PROVE  Not(OfBits(b)) = OfBits([m \in 1 .. n |-> 1 - b[m]])
<1> DEFINE c == [m \in 1 .. n |-> 1 - b[m]]
           bs == OfBits(b).blocks
           bl == [k \in 1 .. NumBlocks(n) |-> NotBlock(bs[k])]
<1>1. /\ OfBits(b) = [len |-> n, blocks |-> bs] /\ bs \in Blocks(n) /\ DOMAIN bs = 1 .. NumBlocks(n)
      /\ \A k \in 1 .. NumBlocks(n), i \in BitPos : bs[k][i] = BitAt(n, b, At(k, i))
  BY BitsFillBlocks
<1> HIDE DEF bs
<1>2. \A k \in 1 .. NumBlocks(n), i \in BitPos : bs[k][i] \in {0, 1}
  BY <1>1 DEF Blocks
<1>3. bl \in Blocks(n)
  BY <1>2 DEF Blocks, NotBlock
<1>4. c \in [1 .. n -> {0, 1}]
  OBVIOUS
<1>5. ASSUME NEW k \in 1 .. NumBlocks(n), NEW i \in BitPos, At(k, i) <= n
      PROVE  bl[k][i] = BitAt(n, c, At(k, i))
  <2>1. k \in Int /\ 1 <= k
    BY BlocksReach
  <2>2. At(k, i) \in 1 .. n
    BY <1>5, <2>1, PlaceOfBit, BlocksReach
  <2>3. bl[k][i] = 1 - bs[k][i]
    BY DEF NotBlock
  <2> HIDE DEF bl
  <2> QED BY <1>1, <2>2, <2>3 DEF BitAt
<1>6. Not(OfBits(b)) = ZeroExtraBits([len |-> n, blocks |-> bl])
  <2>1. [k \in DOMAIN OfBits(b).blocks |-> NotBlock(OfBits(b).blocks[k])] = bl
    BY <1>1 DEF bs
  <2> HIDE DEF bl
  <2>2. Not(OfBits(b)) = ZeroExtraBits([OfBits(b) EXCEPT !.blocks = bl])
    BY <2>1 DEF Not
  <2> QED BY <1>1, <2>2, WithBlocks
<1> HIDE DEF bl, c
<1>7. ZeroExtraBits([len |-> n, blocks |-> bl]) = OfBits(c)
  BY <1>3, <1>4, <1>5, ZeroedIsVector
<1> QED BY <1>6, <1>7 DEF c

(* The operations on two vectors of one length work block by block.        *)
LEMMA LogicOfBits ==
    ASSUME NEW n \in Nat, NEW b \in [1 .. n -> {0, 1}], NEW c \in [1 .. n -> {0, 1}]
    PROVE  /\ Or(OfBits(b), OfBits(c)) = OfBits([m \in 1 .. n |-> IF b[m] = 1 \/ c[m] = 1 THEN 1 ELSE 0])
           /\ And(OfBits(b), OfBits(c)) = OfBits([m \in 1 .. n |-> b[m] * c[m]])
           /\ Xor(OfBits(b), OfBits(c)) = OfBits([m \in 1 .. n |-> IF b[m] = c[m] THEN 0 ELSE 1])
<1> DEFINE bs == OfBits(b).blocks
           cs == OfBits(c).blocks
           N == NumBlocks(n)
           ors == [m \in 1 .. n |-> IF b[m] = 1 \/ c[m] = 1 THEN 1 ELSE 0]
           ands == [m \in 1 .. n |-> b[m] * c[m]]
           xors == [m \in 1 .. n |-> IF b[m] = c[m] THEN 0 ELSE 1]
           orbl == [k \in 1 .. N |-> OrBlock(bs[k], cs[k])]
           andbl == [k \in 1 .. N |-> AndBlock(bs[k], cs[k])]
           xorbl == [k \in 1 .. N |-> XorBlock(bs[k], cs[k])]
<1>1. /\ OfBits(b) = [len |-> n, blocks |-> bs] /\ DOMAIN bs = 1 .. N
      /\ OfBits(c) = [len |-> n, blocks |-> cs] /\ DOMAIN cs = 1 .. N
      /\ \A k \in 1 .. N, i \in BitPos : bs[k][i] = BitAt(n, b, At(k, i)) /\ cs[k][i] = BitAt(n, c, At(k, i))
  BY BitsFillBlocks
<1> HIDE DEF bs, cs
<1>2. /\ Or(OfBits(b), OfBits(c)) = [len |-> n, blocks |-> orbl]
      /\ And(OfBits(b), OfBits(c)) = [len |-> n, blocks |-> andbl]
      /\ Xor(OfBits(b), OfBits(c)) = [len |-> n, blocks |-> xorbl]
  <2>1. [k \in DOMAIN OfBits(b).blocks |-> OrBlock(OfBits(b).blocks[k], OfBits(c).blocks[k])] = orbl
    BY <1>1 DEF bs, cs
  <2>2. [k \in DOMAIN OfBits(b).blocks |-> AndBlock(OfBits(b).blocks[k], OfBits(c).blocks[k])] = andbl
    BY <1>1 DEF bs, cs
  <2>3. [k \in DOMAIN OfBits(b).blocks |-> XorBlock(OfBits(b).blocks[k], OfBits(c).blocks[k])] = xorbl
    BY <1>1 DEF bs, cs
  <2> HIDE DEF orbl, andbl, xorbl
  <2>4. /\ Or(OfBits(b), OfBits(c)) = [OfBits(b) EXCEPT !.blocks = orbl]
        /\ And(OfBits(b), OfBits(c)) = [OfBits(b) EXCEPT !.blocks = andbl]
        /\ Xor(OfBits(b), OfBits(c)) = [OfBits(b) EXCEPT !.blocks = xorbl]
    BY <2>1, <2>2, <2>3 DEF Or, And, Xor
  <2> QED BY <1>1, <2>4, WithBlocks
<1>3. ors \in [1 .. n -> {0, 1}] /\ ands \in [1 .. n -> {0, 1}] /\ xors \in [1 .. n -> {0, 1}]
  <2>1. \A m \in 1 .. n : b[m] * c[m] \in {0, 1}
    <3> SUFFICES ASSUME NEW m \in 1 .. n PROVE b[m] * c[m] \in {0, 1}
      OBVIOUS
    <3>1. b[m] \in {0, 1} /\ c[m] \in {0, 1}
      OBVIOUS
    <3> QED BY <3>1
  <2> QED BY <2>1
<1>4. ASSUME NEW k \in 1 .. N, NEW i \in BitPos
      PROVE  /\ orbl[k][i] = BitAt(n, ors, At(k, i))
             /\ andbl[k][i] = BitAt(n, ands, At(k, i))
             /\ xorbl[k][i] = BitAt(n, xors, At(k, i))
  <2>1. /\ orbl[k][i] = (IF bs[k][i] = 1 \/ cs[k][i] = 1 THEN 1 ELSE 0)
        /\ andbl[k][i] = bs[k][i] * cs[k][i]
        /\ xorbl[k][i] = (IF bs[k][i] = cs[k][i] THEN 0 ELSE 1)
    BY DEF OrBlock, AndBlock, XorBlock
  <2>2. PICK m : m = At(k, i)
    OBVIOUS
  <2>3. bs[k][i] = BitAt(n, b, m) /\ cs[k][i] = BitAt(n, c, m)
    BY <1>1, <2>2
  <2>4. BitAt(n, ands, m) = BitAt(n, b, m) * BitAt(n, c, m)
    BY DEF BitAt
  <2>5. /\ BitAt(n, ors, m) = IF BitAt(n, b, m) = 1 \/ BitAt(n, c, m) = 1 THEN 1 ELSE 0
        /\ BitAt(n, xors, m) = IF BitAt(n, b, m) = BitAt(n, c, m) THEN 0 ELSE 1
    BY DEF BitAt
  <2> HIDE DEF orbl, andbl, xorbl, ors, ands, xors
  <2> QED BY <2>1, <2>2, <2>3, <2>4, <2>5
<1>5. /\ DOMAIN orbl = 1 .. N /\ orbl = [k \in DOMAIN orbl |-> orbl[k]]
      /\ \A k \in 1 .. N : orbl[k] = [i \in BitPos |-> orbl[k][i]]
  BY DEF OrBlock
<1>6. /\ DOMAIN andbl = 1 .. N /\ andbl = [k \in DOMAIN andbl |-> andbl[k]]
      /\ \A k \in 1 .. N : andbl[k] = [i \in BitPos |-> andbl[k][i]]
  BY DEF AndBlock
<1>7. /\ DOMAIN xorbl = 1 .. N /\ xorbl = [k \in DOMAIN xorbl |-> xorbl[k]]
      /\ \A k \in 1 .. N : xorbl[k] = [i \in BitPos |-> xorbl[k][i]]
  BY DEF XorBlock
<1> HIDE DEF orbl, andbl, xorbl, ors, ands, xors
<1>8. [len |-> n, blocks |-> orbl] = OfBits(ors)
  <2>1. Hold(orbl, n, ors)
    BY <1>4, <1>5 DEF Hold
  <2> QED BY ONLY <2>1, <1>3, n \in Nat, VectorOfBits
<1>9. [len |-> n, blocks |-> andbl] = OfBits(ands)
  <2>1. Hold(andbl, n, ands)
    BY <1>4, <1>6 DEF Hold
  <2> QED BY ONLY <2>1, <1>3, n \in Nat, VectorOfBits
<1>10. [len |-> n, blocks |-> xorbl] = OfBits(xors)
  <2>1. Hold(xorbl, n, xors)
    BY <1>4, <1>7 DEF Hold
  <2> QED BY ONLY <2>1, <1>3, n \in Nat, VectorOfBits
<1> QED BY <1>2, <1>8, <1>9, <1>10 DEF ors, ands, xors

(* A mask of one bit sets that bit or clears it, and no other.             *)
LEMMA SetOneBit ==
    ASSUME NEW n \in Nat, NEW b \in [1 .. n -> {0, 1}], NEW m \in 1 .. n, NEW val \in {0, 1}
    PROVE  SetBit(OfBits(b), m - 1, val) = OfBits([b EXCEPT ![m] = val])
<1> DEFINE bs == OfBits(b).blocks
           N == NumBlocks(n)
           c == [b EXCEPT ![m] = val]
           K == ((m - 1) \div BlockBits) + 1
           J == ((m - 1) % BlockBits) + 1
           mask == MakeBlockMask((m - 1) % BlockBits, ((m - 1) % BlockBits) + 1)
           one == IF val = 1 THEN OrBlock(bs[K], mask) ELSE AndBlock(bs[K], NotBlock(mask))
           bl == [bs EXCEPT ![K] = one]
<1>1. /\ OfBits(b) = [len |-> n, blocks |-> bs] /\ bs \in Blocks(n) /\ DOMAIN bs = 1 .. N
      /\ \A k \in 1 .. N, i \in BitPos : bs[k][i] = BitAt(n, b, At(k, i))
  BY BitsFillBlocks
<1> HIDE DEF bs
<1>2. K \in Int /\ J \in BitPos /\ At(K, J) = m
  <2>1. m \in Int
    OBVIOUS
  <2> QED BY <2>1, BitOfPlace
<1>3. K \in 1 .. N
  BY <1>2, BlocksReach
<1>4. \A i \in BitPos : mask[i] = IF i = J THEN 1 ELSE 0
  <2>1. BitPos \subseteq Int /\ (m - 1) % BlockBits \in Int
    BY BitVecAssumption DEF BitPos
  <2> QED BY <2>1 DEF MakeBlockMask
<1>5. /\ one = [i \in BitPos |-> one[i]]
      /\ \A i \in BitPos : one[i] = IF i = J THEN val ELSE bs[K][i]
  <2>1. \A i \in BitPos : bs[K][i] \in {0, 1}
    BY <1>1, <1>3 DEF Blocks
  <2>2. ASSUME NEW i \in BitPos PROVE bs[K][i] * (1 - mask[i]) = IF i = J THEN 0 ELSE bs[K][i]
    <3> HIDE DEF mask, K, J
    <3> QED BY <1>4, <2>1
  <2> HIDE DEF mask, K, J
  <2> QED BY <1>4, <2>1, <2>2 DEF OrBlock, AndBlock, NotBlock
<1>6. SetBit(OfBits(b), m - 1, val) = [len |-> n, blocks |-> bl]
  BY <1>1 DEF SetBit
<1>7. c \in [1 .. n -> {0, 1}]
  OBVIOUS
<1> HIDE DEF mask, one, K, J
<1>8. /\ DOMAIN bl = 1 .. N /\ bl = [k \in DOMAIN bl |-> bl[k]]
      /\ \A k \in 1 .. N : bl[k] = [i \in BitPos |-> bl[k][i]]
  BY <1>1, <1>3, <1>5 DEF Blocks
<1>9. ASSUME NEW k \in 1 .. N, NEW i \in BitPos PROVE bl[k][i] = BitAt(n, c, At(k, i))
  <2>1. N \in Nat /\ k \in Int
    BY BlocksReach
  <2>2. At(k, i) = m => k = K /\ i = J
    <3>1. /\ (At(k, i) - 1) \div BlockBits = k - 1 /\ (At(k, i) - 1) % BlockBits = i - 1
          /\ BitPos \subseteq Int
      BY <2>1, PlaceOfBit DEF BitPos
    <3>2. ASSUME At(k, i) = m PROVE (m - 1) \div BlockBits = k - 1 /\ (m - 1) % BlockBits = i - 1
      BY <3>1, <3>2
    <3> QED BY <2>1, <3>1, <3>2 DEF K, J
  <2>3. bl[k][i] = IF k = K /\ i = J THEN val ELSE bs[k][i]
    BY <1>1, <1>3, <1>5
  <2>4. BitAt(n, c, At(k, i)) = IF At(k, i) = m THEN val ELSE BitAt(n, b, At(k, i))
    BY DEF BitAt
  <2> HIDE DEF bl, c
  <2> QED BY <1>1, <1>2, <2>2, <2>3, <2>4
<1> HIDE DEF bl, c
<1>10. [len |-> n, blocks |-> bl] = OfBits(c)
  <2>1. Hold(bl, n, c)
    BY <1>8, <1>9 DEF Hold
  <2> QED BY ONLY <2>1, <1>7, n \in Nat, VectorOfBits
<1> QED BY <1>6, <1>10 DEF c

(* Shifted to the left, every bit moves by the distance, across the blocks.*)
LEMMA LeftShiftOfBits ==
    ASSUME NEW n \in Nat, NEW b \in [1 .. n -> {0, 1}], NEW d \in Nat
    PROVE  ShiftLeft(OfBits(b), d) = OfBits([m \in 1 .. n |-> BitAt(n, b, m + d)])
<1> DEFINE bs == OfBits(b).blocks
           N == NumBlocks(n)
           c == [m \in 1 .. n |-> BitAt(n, b, m + d)]
           s == d \div BlockBits
           o == d % BlockBits
           carry(k) == IF k = N THEN ZeroBlock ELSE ShrBlock(bs[k + 1], BlockBits - o)
           bl == [k \in 1 .. N |->
                    IF k + s > N THEN ZeroBlock ELSE OrBlock(ShlBlock(bs[k + s], o), carry(k + s))]
<1>1. /\ OfBits(b) = [len |-> n, blocks |-> bs] /\ bs \in Blocks(n) /\ DOMAIN bs = 1 .. N /\ Len(bs) = N
      /\ \A k \in 1 .. N, i \in BitPos : bs[k][i] = BitAt(n, b, At(k, i))
  BY BitsFillBlocks
<1> HIDE DEF bs
<1>2. /\ BlockBits \in Nat /\ BlockBits >= 1 /\ BitPos = 1 .. BlockBits
      /\ s \in Nat /\ o \in 0 .. BlockBits - 1 /\ d = s * BlockBits + o
  BY BitVecAssumption DEF BitPos
<1>3. N \in Nat /\ \A k \in Int, i \in BitPos : At(k, i) \in 1 .. n => k \in 1 .. N
  BY BlocksReach
<1>4. ShiftLeft(OfBits(b), d) = [len |-> n, blocks |-> bl]
  <2>1. PICK v : v = OfBits(b)
    OBVIOUS
  <2>2. v = [len |-> n, blocks |-> bs] /\ v.blocks = bs /\ DOMAIN bs = 1 .. N /\ Len(bs) = N
    BY <1>1, <2>1
  <2>3. ShiftLeft(v, d) = [v EXCEPT !.blocks = bl]
    BY <2>2 DEF ShiftLeft
  <2> HIDE DEF bl
  <2> QED BY <2>1, <2>2, <2>3, WithBlocks
<1>5. c \in [1 .. n -> {0, 1}]
  BY DEF BitAt
<1> HIDE DEF s, o, N
<1>6. ASSUME NEW k \in 1 .. N, NEW i \in BitPos PROVE bl[k][i] = BitAt(n, b, At(k, i) + d)
  <2>1. CASE k + s > N
    <3>1. At(k, i) + d = IF i + o <= BlockBits THEN At(k + s, i + o) ELSE At(k + s + 1, i + o - BlockBits)
      BY <1>2 DEF At
    <3>2. ~ (At(k, i) + d \in 1 .. n)
      <4>1. CASE i + o <= BlockBits
        <5>1. i + o \in BitPos /\ k + s \in Int /\ ~ (k + s \in 1 .. N)
          BY <1>2, <1>3, <2>1, <4>1
        <5> QED BY <1>3, <3>1, <4>1, <5>1
      <4>2. CASE ~ (i + o <= BlockBits)
        <5>1. i + o - BlockBits \in BitPos /\ k + s + 1 \in Int /\ ~ (k + s + 1 \in 1 .. N)
          BY <1>2, <1>3, <2>1, <4>2
        <5> QED BY <1>3, <3>1, <4>2, <5>1
      <4> QED BY <4>1, <4>2
    <3>3. bl[k][i] = 0
      BY <2>1 DEF ZeroBlock
    <3> QED BY <3>2, <3>3 DEF BitAt
  <2>2. CASE ~ (k + s > N)
    <3>1. PICK K \in 1 .. N : K = k + s
      BY <1>2, <1>3, <2>2
    <3>2. bl[k] = OrBlock(ShlBlock(bs[K], o), carry(K))
      BY <2>2, <3>1
    <3> HIDE DEF bl
    <3>3. CASE i + o <= BlockBits
      <4>1. At(k, i) + d = At(K, i + o) /\ i + o \in BitPos
        BY <1>2, <3>1, <3>3 DEF At
      <4>2. ShlBlock(bs[K], o)[i] = bs[K][i + o]
        BY <3>3 DEF ShlBlock
      <4>3. carry(K)[i] = 0
        <5>1. ~ (i > BlockBits - o)
          BY <1>2, <3>3
        <5> QED BY <5>1 DEF ZeroBlock, ShrBlock
      <4>4. bs[K][i + o] = BitAt(n, b, At(k, i) + d)
        BY <1>1, <4>1
      <4>5. BitAt(n, b, At(k, i) + d) \in {0, 1}
        BY DEF BitAt
      <4> HIDE DEF carry
      <4> QED BY <3>2, <4>2, <4>3, <4>4, <4>5 DEF OrBlock
    <3>4. CASE ~ (i + o <= BlockBits)
      <4>1. At(k, i) + d = At(K + 1, i + o - BlockBits) /\ i + o - BlockBits \in BitPos
        BY <1>2, <3>1, <3>4 DEF At
      <4>2. ShlBlock(bs[K], o)[i] = 0
        BY <3>4 DEF ShlBlock
      <4>3. carry(K)[i] = BitAt(n, b, At(k, i) + d)
        <5>1. CASE K = N
          <6>1. ~ (K + 1 \in 1 .. N) /\ K + 1 \in Int
            BY <1>3, <5>1
          <6>2. ~ (At(k, i) + d \in 1 .. n)
            BY <1>3, <4>1, <6>1
          <6> QED BY <5>1, <6>2 DEF ZeroBlock, BitAt
        <5>2. CASE K # N
          <6>1. K + 1 \in 1 .. N
            BY <1>3, <5>2
          <6>2. i > BlockBits - o /\ i - (BlockBits - o) = i + o - BlockBits
            BY <1>2, <3>4
          <6>3. carry(K)[i] = bs[K + 1][i + o - BlockBits]
            BY <5>2, <6>2 DEF ShrBlock
          <6> QED BY <1>1, <4>1, <6>1, <6>3
        <5> QED BY <5>1, <5>2
      <4>5. BitAt(n, b, At(k, i) + d) \in {0, 1}
        BY DEF BitAt
      <4> HIDE DEF carry
      <4> QED BY <3>2, <4>2, <4>3, <4>5 DEF OrBlock
    <3> QED BY <3>3, <3>4
  <2> QED BY <2>1, <2>2
<1>7. /\ DOMAIN bl = 1 .. N /\ bl = [k \in DOMAIN bl |-> bl[k]]
      /\ \A k \in 1 .. N : bl[k] = [i \in BitPos |-> bl[k][i]]
  BY DEF OrBlock, ZeroBlock
<1>8. ASSUME NEW k \in 1 .. N, NEW i \in BitPos PROVE BitAt(n, b, At(k, i) + d) = BitAt(n, c, At(k, i))
  <2>1. k \in Int /\ 1 <= k
    BY <1>3
  <2>2. At(k, i) \in Int /\ 1 <= At(k, i)
    BY <2>1, PlaceOfBit, BlocksReach
  <2>3. ~ (At(k, i) \in 1 .. n) => ~ (At(k, i) + d \in 1 .. n)
    BY <2>2
  <2> QED BY <2>3 DEF BitAt
<1> HIDE DEF bl, c
<1>9. Hold(bl, n, c)
  BY <1>6, <1>7, <1>8 DEF Hold, N
<1>10. [len |-> n, blocks |-> bl] = OfBits(c)
  BY ONLY <1>5, <1>9, n \in Nat, VectorOfBits
<1> QED BY <1>4, <1>10 DEF c

(* To the right it does so for a distance below a block.                   *)
LEMMA RightShiftOfBits ==
    ASSUME NEW n \in Nat, NEW b \in [1 .. n -> {0, 1}], NEW d \in 0 .. BlockBits - 1
    PROVE  ShiftRight(OfBits(b), d) = OfBits([m \in 1 .. n |-> BitAt(n, b, m - d)])
<1> DEFINE bs == OfBits(b).blocks
           N == NumBlocks(n)
           c == [m \in 1 .. n |-> BitAt(n, b, m - d)]
           carry(k) == IF k = 0 + 1 THEN ZeroBlock ELSE ShlBlock(bs[k - 1], BlockBits - d)
           bl == [k \in 1 .. N |-> IF k <= 0 THEN ZeroBlock ELSE OrBlock(ShrBlock(bs[k], d), carry(k))]
<1>1. /\ OfBits(b) = [len |-> n, blocks |-> bs] /\ bs \in Blocks(n) /\ DOMAIN bs = 1 .. N /\ Len(bs) = N
      /\ \A k \in 1 .. N, i \in BitPos : bs[k][i] = BitAt(n, b, At(k, i))
  BY BitsFillBlocks
<1> HIDE DEF bs
<1>2. /\ BlockBits \in Nat /\ BlockBits >= 1 /\ BitPos = 1 .. BlockBits
      /\ d \div BlockBits = 0 /\ d % BlockBits = d
  BY BitVecAssumption DEF BitPos
<1>3. N \in Nat /\ \A k \in Int, i \in BitPos : /\ At(k, i) \in 1 .. n => k \in 1 .. N
                                                /\ k <= 0 => At(k, i) <= 0
  BY BlocksReach
<1>4. ShiftRight(OfBits(b), d) = ZeroExtraBits([len |-> n, blocks |-> bl])
  <2>1. PICK v : v = OfBits(b)
    OBVIOUS
  <2>2. v = [len |-> n, blocks |-> bs] /\ v.blocks = bs /\ DOMAIN bs = 1 .. N
    BY <1>1, <2>1
  <2>3. ShiftRight(v, d) = ZeroExtraBits([v EXCEPT !.blocks = bl])
    BY <1>2, <2>2 DEF ShiftRight
  <2> HIDE DEF bl
  <2> QED BY <2>1, <2>2, <2>3, WithBlocks
<1>5. c \in [1 .. n -> {0, 1}]
  BY DEF BitAt
<1> HIDE DEF N
<1>6. ASSUME NEW k \in 1 .. N, NEW i \in BitPos PROVE bl[k][i] = BitAt(n, b, At(k, i) - d)
  <2>1. bl[k] = OrBlock(ShrBlock(bs[k], d), carry(k))
    BY <1>3
  <2> HIDE DEF bl
  <2>2. BitAt(n, b, At(k, i) - d) \in {0, 1}
    BY DEF BitAt
  <2>3. CASE i > d
    <3>1. At(k, i) - d = At(k, i - d) /\ i - d \in BitPos
      BY <1>2, <1>3, <2>3 DEF At
    <3>2. ShrBlock(bs[k], d)[i] = bs[k][i - d]
      BY <2>3 DEF ShrBlock
    <3>3. carry(k)[i] = 0
      <4>1. ~ (i + (BlockBits - d) <= BlockBits)
        BY <1>2, <2>3
      <4> QED BY <4>1 DEF ZeroBlock, ShlBlock
    <3>4. bs[k][i - d] = BitAt(n, b, At(k, i) - d)
      BY <1>1, <3>1
    <3> HIDE DEF carry
    <3> QED BY <2>1, <2>2, <3>2, <3>3, <3>4 DEF OrBlock
  <2>4. CASE ~ (i > d)
    <3>1. At(k, i) - d = At(k - 1, i + (BlockBits - d)) /\ i + (BlockBits - d) \in BitPos
      BY <1>2, <1>3, <2>4 DEF At
    <3>2. ShrBlock(bs[k], d)[i] = 0
      BY <2>4 DEF ShrBlock
    <3>3. carry(k)[i] = BitAt(n, b, At(k, i) - d)
      <4>1. CASE k = 1
        <5>1. k - 1 \in Int /\ k - 1 <= 0
          BY <4>1
        <5>2. At(k - 1, i + (BlockBits - d)) <= 0
          BY <1>3, <3>1, <5>1
        <5>3. ~ (At(k, i) - d \in 1 .. n)
          BY <3>1, <5>2
        <5> QED BY <4>1, <5>3 DEF ZeroBlock, BitAt
      <4>2. CASE k # 1
        <5>1. k - 1 \in 1 .. N
          BY <1>3, <4>2
        <5>2. i + (BlockBits - d) <= BlockBits
          BY <1>2, <2>4
        <5>3. carry(k)[i] = bs[k - 1][i + (BlockBits - d)]
          BY <4>2, <5>2 DEF ShlBlock
        <5> QED BY <1>1, <3>1, <5>1, <5>3
      <4> QED BY <4>1, <4>2
    <3> HIDE DEF carry
    <3> QED BY <2>1, <2>2, <3>2, <3>3 DEF OrBlock
  <2> QED BY <2>3, <2>4
<1>7. bl \in Blocks(n)
  <2>1. \A k \in 1 .. N : ~ (k <= 0) /\ bl[k] = OrBlock(ShrBlock(bs[k], d), carry(k))
    BY <1>3
  <2>2. \A k \in 1 .. N : OrBlock(ShrBlock(bs[k], d), carry(k)) \in [BitPos -> {0, 1}]
    BY DEF OrBlock
  <2>3. bl = [k \in 1 .. N |-> bl[k]]
    OBVIOUS
  <2> HIDE DEF bl, carry
  <2> QED BY <2>1, <2>2, <2>3 DEF Blocks, N
<1>8. ASSUME NEW k \in 1 .. N, NEW i \in BitPos, At(k, i) <= n PROVE bl[k][i] = BitAt(n, c, At(k, i))
  <2>1. k \in Int /\ 1 <= k
    BY <1>3
  <2>2. At(k, i) \in 1 .. n
    BY <1>8, <2>1, PlaceOfBit, BlocksReach
  <2>3. BitAt(n, c, At(k, i)) = BitAt(n, b, At(k, i) - d)
    BY <2>2 DEF BitAt
  <2> HIDE DEF bl, c
  <2> QED BY <1>6, <2>3
<1> HIDE DEF bl, c
<1>9. ZeroExtraBits([len |-> n, blocks |-> bl]) = OfBits(c)
  <2>1. \A k \in 1 .. NumBlocks(n), i \in BitPos : At(k, i) <= n => bl[k][i] = BitAt(n, c, At(k, i))
    BY <1>8 DEF N
  <2> QED BY ONLY <1>5, <1>7, <2>1, n \in Nat, ZeroedIsVector
<1> QED BY <1>4, <1>9 DEF c

(***************************************************************************)
(* The numbers of bits                                                     *)
(***************************************************************************)
(* Pow2 is what it says.                                                   *)
LEMMA PowDoubles ==
    /\ Pow2(0) = 1
    /\ \A e \in Nat : Pow2(e) \in Nat \ {0} /\ Pow2(e + 1) = 2 * Pow2(e)
<1>1. \A e : Pow2(e) = Power(e)
  BY DEF Pow2, Power
<1> QED BY <1>1, PowerDoubles

(* The greatest of a set of the first numbers.                             *)
LEMMA GreatestIs ==
    ASSUME NEW n \in Nat, NEW s \in SUBSET (1 .. n), s # {}
    PROVE  Max(s) \in s /\ \A x \in s : Max(s) >= x
<1> DEFINE up == {n - x : x \in s}
<1>1. up \in SUBSET Nat /\ up # {}
  <2>1. \A x \in s : x \in Int /\ n - x \in Nat
    OBVIOUS
  <2>2. PICK x : x \in s
    OBVIOUS
  <2>3. n - x \in up
    BY <2>2
  <2> QED BY <2>1, <2>3
<1>2. PICK y \in up : \A z \in up : y <= z
  BY <1>1, NatMinimum
<1>3. PICK x \in s : y = n - x
  OBVIOUS
<1>4. ASSUME NEW z \in s PROVE x >= z
  <2>1. n - z \in up
    OBVIOUS
  <2>2. n - x <= n - z /\ x \in Int /\ z \in Int
    BY <1>2, <1>3, <2>1
  <2> QED BY <2>2
<1> QED BY <1>4 DEF Max

(* The number is read digit by digit; runs[k] is that of the first k bits. *)
Reads(v, n, b) == v[0] = 0 /\ \A k \in 1 .. n : v[k] = 2 * v[k - 1] + b[k]

(* The fold over the bits goes through their prefixes.                     *)
LEMMA NumberIs ==
    ASSUME NEW n \in Nat, NEW b \in [1 .. n -> {0, 1}]
    PROVE  \E v \in [0 .. n -> Nat] : Reads(v, n, b) /\ NumberOf(b) = v[n]
<1> DEFINE S == 1 .. n
           op(value, bit) == 2 * value + bit
           next(f, s) == IF s = {} THEN 0 ELSE op(f[s \ {Max(s)}], b[Max(s)])
           c == [s \in (SUBSET S) \ {{}} |-> Max(s)]
           step == [at \in S \X Nat |-> op(at[2], b[at[1]])]
           F == CHOOSE f : f = [s \in SUBSET S |-> next(f, s)]
<1>1. DOMAIN b = S /\ \A i \in S : b[i] \in Nat
  OBVIOUS
<1>2. NumberOf(b) = F[S]
  BY <1>1 DEF NumberOf, FoldLeft, MapThenFoldSet
<1>3. \A s \in (SUBSET S) \ {{}} : c[s] = Max(s) /\ c[s] \in s
  BY <1>1, GreatestIs
<1>4. step \in [S \X Nat -> Nat]
  BY <1>1
<1>5. PICK G \in [SUBSET S -> Nat] : Folds(G, S, 0, step, c)
  <2>1. IsFiniteSet(S)
    BY FS_Interval
  <2> HIDE DEF c, step, S
  <2> QED BY <1>3, <1>4, <2>1, FoldExists
<1>6. ASSUME NEW s \in SUBSET S PROVE G[s] = next(G, s)
  <2>1. CASE s = {}
    BY <1>5, <2>1 DEF Folds
  <2>2. CASE s # {}
    <3>1. PICK x : x = c[s] /\ x \in s /\ x = Max(s)
      BY <1>3, <2>2
    <3>2. G[s] = step[<<x, G[s \ {x}]>>]
      BY <1>5, <2>2, <3>1 DEF Folds
    <3>3. PICK v \in Nat : v = G[s \ {x}]
      <4>1. s \ {x} \in SUBSET S
        OBVIOUS
      <4> QED BY <4>1
    <3>4. step[<<x, v>>] = op(v, b[x])
      <4> HIDE DEF op
      <4> QED BY <3>1
    <3> HIDE DEF op, step
    <3> QED BY <2>2, <3>1, <3>2, <3>3, <3>4
  <2> QED BY <2>1, <2>2
<1>7. F = [s \in SUBSET S |-> next(F, s)]
  <2>1. G = [s \in SUBSET S |-> next(G, s)]
    <3>1. G = [s \in SUBSET S |-> G[s]]
      BY <1>5
    <3> HIDE DEF next
    <3> QED BY <1>6, <3>1
  <2> HIDE DEF next
  <2> QED BY <2>1
<1> HIDE DEF F
<1>8. F[{}] = 0 /\ \A k \in S : F[1 .. k] = op(F[1 .. k - 1], b[k])
  <2>1. ASSUME NEW k \in S PROVE F[1 .. k] = op(F[1 .. k - 1], b[k])
    <3>1. 1 .. k \in SUBSET S /\ 1 .. k # {} /\ k \in 1 .. k
      OBVIOUS
    <3>2. Max(1 .. k) = k
      <4>1. Max(1 .. k) \in 1 .. k /\ Max(1 .. k) >= k
        BY <3>1, GreatestIs
      <4> QED BY <4>1
    <3>3. (1 .. k) \ {k} = 1 .. k - 1
      OBVIOUS
    <3>4. F[1 .. k] = next(F, 1 .. k)
      <4> HIDE DEF next
      <4> QED BY <1>7, <3>1
    <3> HIDE DEF op
    <3> QED BY <3>1, <3>2, <3>3, <3>4
  <2>2. F[{}] = 0
    BY <1>7
  <2> QED BY <2>1, <2>2
<1> DEFINE v == [k \in 0 .. n |-> F[1 .. k]]
<1>9. Reads(v, n, b)
  <2>1. v[0] = 0
    <3>1. 1 .. 0 = {}
      OBVIOUS
    <3> QED BY <1>8, <3>1
  <2>2. ASSUME NEW k \in 1 .. n PROVE v[k] = 2 * v[k - 1] + b[k]
    <3>1. k \in 0 .. n /\ k - 1 \in 0 .. n
      OBVIOUS
    <3> QED BY <1>8, <3>1
  <2> HIDE DEF v
  <2> QED BY <2>1, <2>2 DEF Reads
<1>10. v \in [0 .. n -> Nat]
  <2> HIDE DEF v
  <2> DEFINE T == {k \in 0 .. n : v[k] \in Nat}
  <2>1. 0 \in T
    BY <1>9 DEF Reads
  <2>2. ASSUME NEW k \in 1 .. n, k - 1 \in T PROVE k \in T
    <3>1. v[k] = 2 * v[k - 1] + b[k] /\ b[k] \in Nat /\ v[k - 1] \in Nat
      BY <1>1, <1>9, <2>2 DEF Reads
    <3> QED BY <3>1
  <2> HIDE DEF T
  <2>3. 0 .. n \subseteq T
    BY <2>1, <2>2, RoundsInduction
  <2>4. \A k \in 0 .. n : v[k] \in Nat
    BY <2>3 DEF T
  <2> QED BY <2>4 DEF v
<1>11. v[n] = NumberOf(b)
  BY <1>2
<1> HIDE DEF v
<1> QED BY <1>9, <1>10, <1>11

(* Reading on by j bits multiplies by 2 ^ j and adds less than that, so    *)
(* that dividing by it gives the bits read before.                         *)
LEMMA ReadsOn ==
    ASSUME NEW n \in Nat, NEW b \in [1 .. n -> {0, 1}], NEW v \in [0 .. n -> Nat], Reads(v, n, b),
           NEW m \in 0 .. n
    PROVE  \A j \in 0 .. n - m : \E r \in 0 .. Pow2(j) - 1 : v[m + j] = v[m] * Pow2(j) + r
<1> DEFINE Goes(j) == \E r \in 0 .. Pow2(j) - 1 : v[m + j] = v[m] * Pow2(j) + r
           T == {j \in 0 .. n - m : Goes(j)}
<1>1. 0 \in T
  <2>1. v[m] \in Nat /\ m + 0 = m
    OBVIOUS
  <2>2. 0 \in 0 .. Pow2(0) - 1 /\ v[m + 0] = v[m] * Pow2(0) + 0
    <3>1. Pow2(0) = 1
      BY PowDoubles
    <3>2. PICK x \in Nat : x = v[m]
      BY <2>1
    <3>3. x = x * 1 + 0
      OBVIOUS
    <3> QED BY <2>1, <3>1, <3>2, <3>3
  <2> QED BY <2>2
<1>2. ASSUME NEW j \in 1 .. n - m, j - 1 \in T PROVE j \in T
  <2>1. PICK r \in 0 .. Pow2(j - 1) - 1 : v[m + (j - 1)] = v[m] * Pow2(j - 1) + r
    BY <1>2
  <2>2. PICK p \in Nat \ {0} : p = Pow2(j - 1) /\ Pow2(j) = 2 * p
    <3>1. j - 1 \in Nat /\ (j - 1) + 1 = j
      OBVIOUS
    <3> QED BY <3>1, PowDoubles
  <2>3. m + j \in 1 .. n /\ (m + j) - 1 = m + (j - 1)
    OBVIOUS
  <2>4. v[m + j] = 2 * v[m + (j - 1)] + b[m + j]
    BY <2>3 DEF Reads
  <2>5. PICK x \in Nat, d \in {0, 1} : x = v[m] /\ d = b[m + j]
    BY <2>3
  <2>6. r \in 0 .. p - 1 /\ v[m + (j - 1)] = x * p + r
    BY <2>1, <2>2, <2>5
  <2>7. v[m + j] = 2 * (x * p + r) + d
    BY <2>4, <2>5, <2>6
  <2>8. 2 * r + d \in 0 .. 2 * p - 1 /\ 2 * (x * p + r) + d = x * (2 * p) + (2 * r + d)
    BY <2>6
  <2>9. Goes(j)
    <3>1. 2 * r + d \in 0 .. Pow2(j) - 1 /\ v[m + j] = v[m] * Pow2(j) + (2 * r + d)
      BY <2>2, <2>5, <2>7, <2>8
    <3> QED BY <3>1
  <2> QED BY <2>9
<1>3. 0 .. n - m \subseteq T
  <2>1. n - m \in Nat
    OBVIOUS
  <2> HIDE DEF T
  <2> QED BY <1>1, <1>2, <2>1, RoundsInduction
<1> QED BY <1>3

(* A number less than the divisor is lost in the division.                 *)
LEMMA DividedBack ==
    ASSUME NEW x \in Nat, NEW p \in Nat \ {0}, NEW r \in 0 .. p - 1
    PROVE  (x * p + r) \div p = x
<1>1. PICK y \in Nat : y = x * p + r
  OBVIOUS
<1>2. PICK q \in Int, rem \in 0 .. p - 1 : q = y \div p /\ y = p * q + rem
  OBVIOUS
<1>3. p * (q - x) = r - rem
  BY <1>1, <1>2
<1>4. q - x = 0
  <2>1. CASE q - x >= 1
    <3>1. p * (q - x) >= p
      BY <2>1
    <3> QED BY <1>3, <3>1
  <2>2. CASE q - x <= 0 - 1
    <3>1. p * (q - x) <= 0 - p
      BY <2>2
    <3> QED BY <1>3, <3>1
  <2> QED BY <2>1, <2>2
<1> QED BY <1>1, <1>2, <1>4

(* Shifting the number of m bits to the right drops its last bits ...      *)
LEMMA DividedNumber ==
    ASSUME NEW n \in Nat, NEW b \in [1 .. n -> {0, 1}], NEW v \in [0 .. n -> Nat], Reads(v, n, b),
           NEW m \in 0 .. n, NEW l \in 0 .. m
    PROVE  v[m] \div Pow2(m - l) = v[l]
<1>1. m - l \in 0 .. n - l /\ l + (m - l) = m /\ l \in 0 .. n /\ m - l \in Nat
  OBVIOUS
<1>2. PICK r \in 0 .. Pow2(m - l) - 1 : v[l + (m - l)] = v[l] * Pow2(m - l) + r
  BY <1>1, ReadsOn
<1>3. PICK p \in Nat \ {0}, x \in Nat : p = Pow2(m - l) /\ x = v[l]
  BY <1>1, PowDoubles
<1>4. (x * p + r) \div p = x
  <2>1. r \in 0 .. p - 1
    BY <1>2, <1>3
  <2> QED BY <2>1, DividedBack
<1> QED BY <1>1, <1>2, <1>3, <1>4

(* ... and the last one that is left is its remainder.                     *)
LEMMA LastBit ==
    ASSUME NEW n \in Nat, NEW b \in [1 .. n -> {0, 1}], NEW v \in [0 .. n -> Nat], Reads(v, n, b),
           NEW m \in 1 .. n
    PROVE  v[m] % 2 = b[m]
<1>1. v[m] = 2 * v[m - 1] + b[m] /\ v[m - 1] \in Nat /\ b[m] \in {0, 1}
  <2>1. m - 1 \in 0 .. n
    OBVIOUS
  <2> QED BY <2>1 DEF Reads
<1> QED BY <1>1

(* The number of a block is that of its bits, whatever was read before it. *)
LEMMA BlockNumberIs ==
    ASSUME NEW blk \in [BitPos -> {0, 1}]
    PROVE  \E u \in [0 .. BlockBits -> Nat] :
             u[0] = 0 /\ (\A i \in BitPos : u[i] = 2 * u[i - 1] + blk[i]) /\ BlockToUint(blk) = u[BlockBits]
<1> DEFINE B == BlockBits
           next(f, i) == IF i = 0 THEN 0 ELSE 2 * f[i - 1] + blk[i]
           val == CHOOSE f : f = [i \in 0 .. B |-> next(f, i)]
<1>1. B \in Nat /\ BitPos = 1 .. B
  BY BitVecAssumption DEF BitPos
<1>2. PICK u \in [0 .. B -> Nat] : Reads(u, B, blk)
  <2>1. blk \in [1 .. B -> {0, 1}]
    BY <1>1
  <2> QED BY <1>1, <2>1, NumberIs
<1>3. u = [i \in 0 .. B |-> next(u, i)]
  <2>1. ASSUME NEW i \in 0 .. B PROVE u[i] = next(u, i)
    <3>1. CASE i = 0
      BY <1>2, <3>1 DEF Reads
    <3>2. CASE i \in 1 .. B
      BY <1>2, <3>2 DEF Reads
    <3> QED BY <1>1, <3>1, <3>2
  <2> HIDE DEF next
  <2> QED BY <2>1
<1>4. val = [i \in 0 .. B |-> next(val, i)]
  <2> HIDE DEF next
  <2> QED BY <1>3
<1>5. BlockToUint(blk) = val[B]
  BY DEF BlockToUint
<1> HIDE DEF val
<1>6. Reads(val, B, blk)
  <2>1. 0 \in 0 .. B /\ \A k \in 1 .. B : k \in 0 .. B /\ k # 0
    BY <1>1
  <2> QED BY <1>4, <2>1 DEF Reads
<1>7. val = u
  <2> DEFINE T == {k \in 0 .. B : val[k] = u[k]}
  <2>1. 0 \in T
    BY <1>1, <1>2, <1>6 DEF Reads
  <2>2. ASSUME NEW k \in 1 .. B, k - 1 \in T PROVE k \in T
    BY <1>1, <1>2, <1>6, <2>2 DEF Reads
  <2> HIDE DEF T
  <2>3. 0 .. B \subseteq T
    BY <1>1, <2>1, <2>2, RoundsInduction
  <2>4. \A k \in 0 .. B : val[k] = u[k]
    BY <2>3 DEF T
  <2> QED BY <1>3, <1>4, <2>4
<1> QED BY <1>1, <1>2, <1>5, <1>7 DEF Reads

(* Shifting a block by 0 leaves it.                                        *)
LEMMA ShiftsByNothing ==
    ASSUME NEW blk \in [BitPos -> {0, 1}]
    PROVE  ShrBlock(blk, 0) = blk /\ ShlBlock(blk, 0) = blk
<1>1. BitPos = 1 .. BlockBits /\ BlockBits \in Nat
  BY BitVecAssumption DEF BitPos
<1> QED BY <1>1 DEF ShrBlock, ShlBlock

(* A vector of whole blocks is read block by block.                        *)
LEMMA WholeBlocksNumber ==
    ASSUME NEW n \in Nat, NEW b \in [1 .. n -> {0, 1}], n % BlockBits = 0
    PROVE  ToUint(OfBits(b)) = NumberOf(b)
<1> DEFINE B == BlockBits
           N == NumBlocks(n)
           bs == OfBits(b).blocks
           next(f, k) == IF k = 0 THEN 0
                         ELSE f[k - 1] * Pow2(B) + BlockToUint(ShrBlock(bs[k], UnusedBits(n)))
           val == CHOOSE f : f = [k \in 0 .. N |-> next(f, k)]
<1>1. /\ OfBits(b) = [len |-> n, blocks |-> bs] /\ bs \in Blocks(n) /\ Len(bs) = N
      /\ \A k \in 1 .. N, i \in BitPos : bs[k][i] = BitAt(n, b, At(k, i))
  BY BitsFillBlocks
<1>2. B \in Nat /\ B >= 1 /\ BitPos = 1 .. B /\ N \in Nat /\ N * B = n
  BY BitVecAssumption DEF BitPos, NumBlocks
<1>3. ToUint(OfBits(b)) = val[N]
  <2>1. OfBits(b).len = n /\ Len(OfBits(b).blocks) = N
    BY <1>1
  <2> QED BY <2>1 DEF ToUint
<1> HIDE DEF bs, N
<1>4. PICK v \in [0 .. n -> Nat] : Reads(v, n, b) /\ NumberOf(b) = v[n]
  BY NumberIs
<1>5. ASSUME NEW k \in 1 .. N
      PROVE  /\ k * B \in 0 .. n /\ (k - 1) * B \in 0 .. n
             /\ v[k * B] = v[(k - 1) * B] * Pow2(B) + BlockToUint(ShrBlock(bs[k], UnusedBits(n)))
  <2>1. k * B \in 0 .. n /\ (k - 1) * B \in 0 .. n /\ \A i \in 0 .. B : (k - 1) * B + i \in 0 .. n
    BY <1>2
  <2>2. bs[k] \in [BitPos -> {0, 1}]
    BY <1>1 DEF Blocks, N
  <2>3. ShrBlock(bs[k], UnusedBits(n)) = bs[k]
    BY <2>2, ShiftsByNothing DEF UnusedBits
  <2>4. PICK u \in [0 .. B -> Nat] :
          u[0] = 0 /\ (\A i \in BitPos : u[i] = 2 * u[i - 1] + bs[k][i]) /\ BlockToUint(bs[k]) = u[B]
    BY <2>2, BlockNumberIs
  <2>5. PICK x \in Nat, at \in 0 .. n : x = v[at] /\ at = (k - 1) * B
    BY <2>1
  <2>6. \A i \in BitPos : at + i \in 1 .. n /\ bs[k][i] = b[at + i]
    <3> SUFFICES ASSUME NEW i \in BitPos PROVE at + i \in 1 .. n /\ bs[k][i] = b[at + i]
      OBVIOUS
    <3>1. at + i \in 1 .. n /\ At(k, i) = at + i
      BY <1>2, <2>1, <2>5 DEF At
    <3> QED BY <1>1, <3>1 DEF BitAt
  <2> DEFINE T == {i \in 0 .. B : v[at + i] = x * Pow2(i) + u[i]}
  <2>7. 0 \in T
    <3>1. Pow2(0) = 1 /\ at + 0 = at /\ x = x * 1 + 0
      BY PowDoubles
    <3> QED BY <1>2, <2>4, <2>5, <3>1
  <2>8. ASSUME NEW i \in 1 .. B, i - 1 \in T PROVE i \in T
    <3>1. PICK p \in Nat \ {0} : p = Pow2(i - 1) /\ Pow2(i) = 2 * p
      <4>1. i - 1 \in Nat /\ (i - 1) + 1 = i
        BY <1>2
      <4> QED BY <4>1, PowDoubles
    <3>2. at + i \in 1 .. n /\ (at + i) - 1 = at + (i - 1) /\ i \in BitPos
      BY <1>2, <2>6
    <3>3. v[at + i] = 2 * v[at + (i - 1)] + b[at + i]
      BY <1>4, <3>2 DEF Reads
    <3>4. u[i] = 2 * u[i - 1] + b[at + i]
      BY <2>4, <2>6, <3>2
    <3>5. PICK y \in Nat, d \in {0, 1} : y = u[i - 1] /\ d = b[at + i]
      <4>1. i - 1 \in 0 .. B
        BY <1>2
      <4> QED BY <3>2, <4>1
    <3>6. v[at + (i - 1)] = x * p + y
      BY <2>8, <3>1, <3>5
    <3>7. 2 * (x * p + y) + d = x * (2 * p) + (2 * y + d)
      OBVIOUS
    <3>8. v[at + i] = x * Pow2(i) + u[i]
      BY <3>1, <3>3, <3>4, <3>5, <3>6, <3>7
    <3> QED BY <1>2, <3>8
  <2>9. B \in T
    <3> HIDE DEF T
    <3>1. 0 .. B \subseteq T
      BY <1>2, <2>7, <2>8, RoundsInduction
    <3> QED BY <1>2, <3>1
  <2>10. k * B = at + B
    BY <1>2, <2>5
  <2>11. v[k * B] = x * Pow2(B) + u[B]
    BY <2>9, <2>10
  <2> QED BY <2>1, <2>3, <2>4, <2>5, <2>11
<1> DEFINE w == [k \in 0 .. N |-> v[k * B]]
<1>6. w = [k \in 0 .. N |-> next(w, k)]
  <2>1. ASSUME NEW k \in 0 .. N PROVE v[k * B] = next(w, k)
    <3>1. CASE k = 0
      <4>1. k * B = 0
        BY <1>2, <3>1
      <4> QED BY <1>4, <3>1, <4>1 DEF Reads
    <3>2. CASE k \in 1 .. N
      <4>1. k - 1 \in 0 .. N /\ k # 0
        BY <1>2, <3>2
      <4>2. w[k - 1] = v[(k - 1) * B]
        BY <4>1
      <4> HIDE DEF w
      <4> QED BY <1>5, <3>2, <4>1, <4>2
    <3> QED BY <1>2, <3>1, <3>2
  <2> HIDE DEF next
  <2> QED BY <2>1
<1>7. val = [k \in 0 .. N |-> next(val, k)]
  <2> HIDE DEF next, w
  <2> QED BY <1>6
<1> HIDE DEF val
<1>8. val[N] = w[N]
  <2> DEFINE T == {k \in 0 .. N : val[k] = w[k]}
  <2>1. 0 \in T
    <3>1. val[0] = next(val, 0) /\ w[0] = next(w, 0) /\ 0 \in 0 .. N
      <4> HIDE DEF next, w
      <4>1. 0 \in 0 .. N
        BY <1>2
      <4> QED BY <1>6, <1>7, <4>1
    <3> HIDE DEF w
    <3> QED BY <3>1
  <2>2. ASSUME NEW k \in 1 .. N, k - 1 \in T PROVE k \in T
    <3>1. val[k] = next(val, k) /\ w[k] = next(w, k) /\ k \in 0 .. N /\ k # 0
      <4> HIDE DEF next, w
      <4>1. k \in 0 .. N /\ k # 0
        BY <1>2
      <4> QED BY <1>6, <1>7, <4>1
    <3> HIDE DEF w
    <3> QED BY <2>2, <3>1
  <2> HIDE DEF T
  <2>3. 0 .. N \subseteq T
    BY <1>2, <2>1, <2>2, RoundsInduction
  <2>4. N \in T
    BY <1>2, <2>3
  <2> QED BY <2>4 DEF T
<1>9. w[N] = v[n]
  <2>1. N \in 0 .. N
    BY <1>2
  <2> QED BY <1>2, <2>1
<1> QED BY <1>3, <1>4, <1>8, <1>9

(* A vector inside one block is read once its unused bits are shifted out. *)
LEMMA OneBlockNumber ==
    ASSUME NEW n \in 1 .. BlockBits - 1, NEW b \in [1 .. n -> {0, 1}]
    PROVE  ToUint(OfBits(b)) = NumberOf(b)
<1> DEFINE B == BlockBits
           bs == OfBits(b).blocks
           s == ShrBlock(bs[1], B - n)
           next(f, k) == IF k = 0 THEN 0
                         ELSE f[k - 1] * Pow2(B) + BlockToUint(ShrBlock(bs[k], UnusedBits(n)))
           val == CHOOSE f : f = [k \in 0 .. 1 |-> next(f, k)]
<1>1. /\ B \in Nat /\ B >= 1 /\ BitPos = 1 .. B /\ n \in Nat /\ 1 <= n /\ n < B
      /\ NumBlocks(n) = 1 /\ UnusedBits(n) = B - n
  <2>1. B \in Nat /\ B >= 1 /\ BitPos = 1 .. B /\ n \in Nat /\ 1 <= n /\ n < B
    BY BlockBitsAre
  <2>2. n % B = n /\ n \div B = 0
    BY <2>1
  <2> QED BY <2>1, <2>2 DEF NumBlocks, UnusedBits
<1>2. /\ OfBits(b) = [len |-> n, blocks |-> bs] /\ bs \in Blocks(n) /\ Len(bs) = 1
      /\ \A k \in 1 .. 1, i \in BitPos : bs[k][i] = BitAt(n, b, At(k, i))
  BY <1>1, BitsFillBlocks
<1>3. ToUint(OfBits(b)) = val[1]
  <2>1. OfBits(b).len = n /\ Len(OfBits(b).blocks) = 1
    BY <1>2
  <2> QED BY <2>1 DEF ToUint
<1> HIDE DEF bs
<1>4. PICK v \in [0 .. n -> Nat] : Reads(v, n, b) /\ NumberOf(b) = v[n]
  BY <1>1, NumberIs
<1>5. bs[1] \in [BitPos -> {0, 1}] /\ \A i \in BitPos : bs[1][i] = BitAt(n, b, i)
  <2>1. \A i \in BitPos : At(1, i) = i
    BY <1>1 DEF At
  <2>2. bs \in [1 .. 1 -> [BitPos -> {0, 1}]] /\ 1 \in 1 .. 1
    BY <1>1, <1>2 DEF Blocks
  <2>3. bs[1] \in [BitPos -> {0, 1}]
    BY <2>2
  <2> QED BY <1>2, <2>1, <2>2, <2>3
<1>6. s \in [BitPos -> {0, 1}] /\ \A i \in BitPos : s[i] = IF i > B - n THEN b[i - (B - n)] ELSE 0
  <2>1. ASSUME NEW i \in BitPos
        PROVE  (IF i > B - n THEN bs[1][i - (B - n)] ELSE 0) = (IF i > B - n THEN b[i - (B - n)] ELSE 0)
    <3>1. i > B - n => i - (B - n) \in BitPos /\ i - (B - n) \in 1 .. n
      BY <1>1
    <3> QED BY <1>5, <3>1 DEF BitAt
  <2>2. \A i \in BitPos : (IF i > B - n THEN b[i - (B - n)] ELSE 0) \in {0, 1}
    BY <1>1
  <2>3. s = [i \in BitPos |-> IF i > B - n THEN b[i - (B - n)] ELSE 0]
    BY <2>1 DEF ShrBlock
  <2> QED BY <2>2, <2>3
<1> HIDE DEF s
<1>7. PICK u \in [0 .. B -> Nat] :
        u[0] = 0 /\ (\A i \in BitPos : u[i] = 2 * u[i - 1] + s[i]) /\ BlockToUint(s) = u[B]
  BY <1>6, BlockNumberIs
<1>8. u[B] = v[n]
  <2> DEFINE T == {i \in 0 .. B : u[i] = IF i > B - n THEN v[i - (B - n)] ELSE 0}
  <2>1. 0 \in T
    BY <1>1, <1>7
  <2>2. ASSUME NEW i \in 1 .. B, i - 1 \in T PROVE i \in T
    <3>1. u[i] = 2 * u[i - 1] + s[i]
      BY <1>1, <1>7
    <3>2. CASE i <= B - n
      <4>1. u[i - 1] = 0 /\ s[i] = 0
        BY <1>1, <1>6, <2>2, <3>2
      <4> QED BY <1>1, <3>1, <3>2, <4>1
    <3>3. CASE i > B - n
      <4>1. PICK j \in 1 .. n : j = i - (B - n)
        BY <1>1, <3>3
      <4>2. s[i] = b[j] /\ v[j] = 2 * v[j - 1] + b[j]
        BY <1>1, <1>4, <1>6, <3>3, <4>1 DEF Reads
      <4>3. u[i - 1] = v[j - 1]
        <5>1. CASE j = 1
          <6>1. ~ (i - 1 > B - n)
            BY <1>1, <4>1, <5>1
          <6> QED BY <1>4, <2>2, <5>1, <6>1 DEF Reads
        <5>2. CASE j # 1
          <6>1. i - 1 > B - n /\ (i - 1) - (B - n) = j - 1
            BY <1>1, <4>1, <5>2
          <6> QED BY <2>2, <6>1
        <5> QED BY <5>1, <5>2
      <4>4. u[i] = v[j]
        BY <3>1, <4>2, <4>3
      <4> QED BY <1>1, <3>3, <4>1, <4>4
    <3> QED BY <1>1, <3>2, <3>3
  <2> HIDE DEF T
  <2>3. B \in T
    <3>1. 0 .. B \subseteq T
      BY <1>1, <2>1, <2>2, RoundsInduction
    <3> QED BY <1>1, <3>1
  <2>4. B > B - n /\ B - (B - n) = n
    BY <1>1
  <2> QED BY <2>3, <2>4 DEF T
<1>9. val[1] = BlockToUint(s)
  <2> DEFINE x == BlockToUint(s)
             w == [k \in 0 .. 1 |-> IF k = 0 THEN 0 ELSE x]
  <2>1. x \in Nat /\ Pow2(B) \in Nat
    <3>1. u[B] \in Nat
      BY <1>1
    <3> QED BY <1>1, <1>7, <3>1, PowDoubles
  <2>2. BlockToUint(ShrBlock(bs[1], UnusedBits(n))) = x
    BY <1>1 DEF s
  <2> HIDE DEF x
  <2>3. w = [k \in 0 .. 1 |-> next(w, k)]
    <3>1. ASSUME NEW k \in 0 .. 1 PROVE (IF k = 0 THEN 0 ELSE x) = next(w, k)
      <4>1. CASE k = 0
        BY <4>1
      <4>2. CASE k = 1
        <5>1. w[0] * Pow2(B) = 0
          BY <2>1
        <5> HIDE DEF w
        <5>2. next(w, 1) = w[0] * Pow2(B) + x
          BY <2>2
        <5> QED BY <2>1, <4>2, <5>1, <5>2
      <4> QED BY <4>1, <4>2
    <3> HIDE DEF next
    <3> QED BY <3>1
  <2>4. val = [k \in 0 .. 1 |-> next(val, k)]
    <3> HIDE DEF next, w
    <3> QED BY <2>3
  <2> HIDE DEF val
  <2>5. val[0] = 0 /\ val[1] = val[0] * Pow2(B) + x
    <3>1. val[0] = next(val, 0) /\ val[1] = next(val, 1)
      <4> HIDE DEF next
      <4> QED BY <2>4
    <3> QED BY <2>2, <3>1
  <2>6. val[1] = x
    BY <2>1, <2>5
  <2> QED BY <2>6 DEF x
<1> QED BY <1>3, <1>4, <1>7, <1>8, <1>9

(* The vector of a number is that of the bits the number was read from.    *)
LEMMA NumberComesBack ==
    ASSUME NEW n \in Nat, NEW b \in [1 .. n -> {0, 1}], n < BlockBits \/ n % BlockBits = 0
    PROVE  FromUint(NumberOf(b), n) = OfBits(b)
<1> DEFINE B == BlockBits
           N == NumBlocks(n)
           x == NumberOf(b)
           bl == [k \in 1 .. N |-> ShlBlock(BlockOfUint(x \div Pow2(B * (N - k))), UnusedBits(n))]
<1>1. B \in Nat /\ B >= 1 /\ BitPos = 1 .. B /\ N \in Nat
  BY BlockBitsAre, BlocksReach
<1>2. PICK v \in [0 .. n -> Nat] : Reads(v, n, b) /\ x = v[n]
  BY NumberIs
<1>3. \A y \in Int, i \in BitPos : BlockOfUint(y)[i] = (y \div Pow2(B - i)) % 2
  BY DEF BlockOfUint
<1>4. \A y \in Int, i \in BitPos : BlockOfUint(y)[i] \in {0, 1}
  <2> SUFFICES ASSUME NEW y \in Int, NEW i \in BitPos PROVE (y \div Pow2(B - i)) % 2 \in {0, 1}
    BY <1>3
  <2>1. B - i \in Nat
    BY <1>1
  <2>2. PICK p \in Nat \ {0} : p = Pow2(B - i)
    BY <2>1, PowDoubles
  <2>3. y \div p \in Int
    OBVIOUS
  <2> QED BY <2>2, <2>3
<1> HIDE DEF N
<1>5. \A k \in 1 .. N : x \div Pow2(B * (N - k)) \in Int
  <2> SUFFICES ASSUME NEW k \in 1 .. N PROVE x \div Pow2(B * (N - k)) \in Int
    OBVIOUS
  <2>1. B * (N - k) \in Nat
    BY <1>1
  <2>2. PICK p \in Nat \ {0} : p = Pow2(B * (N - k))
    BY <2>1, PowDoubles
  <2>3. x \in Nat
    BY <1>2
  <2> HIDE DEF x
  <2> QED BY <2>2, <2>3
<1>6. ASSUME NEW k \in 1 .. N, NEW i \in BitPos
      PROVE  bl[k][i] = IF i + UnusedBits(n) <= B
                        THEN BlockOfUint(x \div Pow2(B * (N - k)))[i + UnusedBits(n)] ELSE 0
  BY DEF ShlBlock
<1>7. UnusedBits(n) \in Nat
  BY <1>1 DEF UnusedBits
<1>8. bl \in Blocks(n)
  <2>1. ASSUME NEW k \in 1 .. N, NEW i \in BitPos PROVE bl[k][i] \in {0, 1}
    <3>1. i + UnusedBits(n) <= B => i + UnusedBits(n) \in BitPos
      BY <1>1, <1>7
    <3> QED BY <1>4, <1>5, <1>6, <3>1
  <2>2. bl = [k \in 1 .. N |-> [i \in BitPos |-> bl[k][i]]]
    BY DEF ShlBlock
  <2> HIDE DEF bl
  <2> QED BY <2>1, <2>2 DEF Blocks, N
<1>9. ASSUME NEW k \in 1 .. N, NEW i \in BitPos, At(k, i) <= n
      PROVE  bl[k][i] = BitAt(n, b, At(k, i))
  <2>1. PICK m \in 1 .. n : m = At(k, i)
    <3>1. k \in Int /\ 1 <= k
      BY <1>1
    <3>2. At(k, i) \in Int /\ 1 <= At(k, i)
      BY <3>1, PlaceOfBit, BlocksReach
    <3> QED BY <1>9, <3>2
  <2>2. v[m] % 2 = b[m]
    BY <1>2, LastBit
  <2>3. CASE n % B = 0
    <3>1. N * B = n /\ UnusedBits(n) = 0 /\ m = (k - 1) * B + i
      <4>1. N = n \div B /\ UnusedBits(n) = 0
        BY <1>1, <2>3 DEF N, NumBlocks, UnusedBits
      <4>2. n = B * (n \div B)
        BY <1>1, <2>3
      <4>3. At(k, i) = (k - 1) * B + i
        BY DEF At
      <4>4. B * N = N * B
        BY <1>1
      <4> QED BY <2>1, <4>1, <4>2, <4>3, <4>4
    <3>2. k * B \in 0 .. n /\ m \in 0 .. k * B /\ k * B - m = B - i /\ n - k * B = B * (N - k)
      BY <1>1, <3>1
    <3>3. v[n] \div Pow2(B * (N - k)) = v[k * B]
      <4>1. n \in 0 .. n
        OBVIOUS
      <4> QED BY <1>2, <3>2, <4>1, DividedNumber
    <3>4. v[k * B] \div Pow2(B - i) = v[m]
      BY <1>2, <3>2, DividedNumber
    <3>5. bl[k][i] = BlockOfUint(v[k * B])[i]
      <4>1. i + UnusedBits(n) = i /\ i <= B
        BY <1>1, <3>1
      <4> HIDE DEF bl
      <4> QED BY <1>2, <1>6, <3>3, <4>1
    <3>6. v[k * B] \in Int
      BY <3>2
    <3>7. bl[k][i] = v[m] % 2
      <4> HIDE DEF bl
      <4> QED BY <1>3, <3>4, <3>5, <3>6
    <3> HIDE DEF bl
    <3> QED BY <2>1, <2>2, <3>7 DEF BitAt
  <2>4. CASE n < B /\ n % B # 0
    <3>1. N = 1 /\ UnusedBits(n) = B - n /\ n # 0
      <4>1. n % B = n /\ n \div B = 0
        BY <1>1, <2>4
      <4> QED BY <1>1, <2>4, <4>1 DEF N, NumBlocks, UnusedBits
    <3>2. k = 1 /\ m = i /\ B * (N - k) = 0
      BY <1>1, <2>1, <3>1 DEF At
    <3>3. v[n] \div Pow2(B * (N - k)) = v[n] /\ v[n] \in Int
      <4>1. Pow2(0) = 1 /\ v[n] \in Nat
        BY PowDoubles
      <4>2. \A y \in Nat : y \div 1 = y
        OBVIOUS
      <4> QED BY <3>2, <4>1, <4>2
    <3>4. i + UnusedBits(n) \in BitPos /\ i + UnusedBits(n) <= B /\ B - (i + UnusedBits(n)) = n - m
      BY <1>1, <3>1, <3>2, <2>4
    <3>5. bl[k][i] = BlockOfUint(v[n])[i + UnusedBits(n)]
      <4> HIDE DEF bl
      <4> QED BY <1>2, <1>6, <3>3, <3>4
    <3>6. v[n] \div Pow2(n - m) = v[m]
      <4>1. n \in 0 .. n /\ m \in 0 .. n
        OBVIOUS
      <4> QED BY <1>2, <4>1, DividedNumber
    <3>7. bl[k][i] = v[m] % 2
      <4> HIDE DEF bl
      <4> QED BY <1>3, <3>3, <3>4, <3>5, <3>6
    <3> HIDE DEF bl
    <3> QED BY <2>1, <2>2, <3>7 DEF BitAt
  <2> QED BY <2>3, <2>4
<1>10. FromUint(x, n) = ZeroExtraBits([len |-> n, blocks |-> bl])
  BY DEF FromUint, N
<1> HIDE DEF bl
<1>11. ZeroExtraBits([len |-> n, blocks |-> bl]) = OfBits(b)
  BY <1>8, <1>9, ZeroedIsVector DEF N
<1> QED BY <1>10, <1>11

OnesOf(bits) == FoldLeft(+, 0, bits)

(* The ones are counted bit by bit; c[k] is how many of the first k.       *)
LEMMA SumIs ==
    ASSUME NEW n \in Nat, NEW b \in [1 .. n -> {0, 1}]
    PROVE  \E c \in [0 .. n -> Nat] :
             c[0] = 0 /\ (\A k \in 1 .. n : c[k] = c[k - 1] + b[k]) /\ OnesOf(b) = c[n]
<1> DEFINE S == 1 .. n
           next(f, s) == IF s = {} THEN 0 ELSE f[s \ {Max(s)}] + b[Max(s)]
           c == [s \in (SUBSET S) \ {{}} |-> Max(s)]
           step == [at \in S \X Nat |-> at[2] + b[at[1]]]
           F == CHOOSE f : f = [s \in SUBSET S |-> next(f, s)]
<1>1. DOMAIN b = S /\ \A i \in S : b[i] \in Nat
  OBVIOUS
<1>2. OnesOf(b) = F[S]
  BY <1>1 DEF OnesOf, FoldLeft, MapThenFoldSet
<1>3. \A s \in (SUBSET S) \ {{}} : c[s] = Max(s) /\ c[s] \in s
  BY <1>1, GreatestIs
<1>4. step \in [S \X Nat -> Nat]
  BY <1>1
<1>5. PICK G \in [SUBSET S -> Nat] : Folds(G, S, 0, step, c)
  <2>1. IsFiniteSet(S)
    BY FS_Interval
  <2> HIDE DEF c, step, S
  <2> QED BY <1>3, <1>4, <2>1, FoldExists
<1>6. ASSUME NEW s \in SUBSET S PROVE G[s] = next(G, s)
  <2>1. CASE s = {}
    BY <1>5, <2>1 DEF Folds
  <2>2. CASE s # {}
    <3>1. PICK x : x = c[s] /\ x \in s /\ x = Max(s)
      BY <1>3, <2>2
    <3>2. G[s] = step[<<x, G[s \ {x}]>>]
      BY <1>5, <2>2, <3>1 DEF Folds
    <3>3. PICK v \in Nat : v = G[s \ {x}]
      <4>1. s \ {x} \in SUBSET S
        OBVIOUS
      <4> QED BY <4>1
    <3>4. step[<<x, v>>] = v + b[x]
      BY <3>1
    <3> HIDE DEF step
    <3> QED BY <2>2, <3>1, <3>2, <3>3, <3>4
  <2> QED BY <2>1, <2>2
<1>7. F = [s \in SUBSET S |-> next(F, s)]
  <2>1. G = [s \in SUBSET S |-> next(G, s)]
    <3>1. G = [s \in SUBSET S |-> G[s]]
      BY <1>5
    <3> HIDE DEF next
    <3> QED BY <1>6, <3>1
  <2> HIDE DEF next
  <2> QED BY <2>1
<1> HIDE DEF F
<1>8. F[{}] = 0 /\ \A k \in S : F[1 .. k] = F[1 .. k - 1] + b[k]
  <2>1. ASSUME NEW k \in S PROVE F[1 .. k] = F[1 .. k - 1] + b[k]
    <3>1. 1 .. k \in SUBSET S /\ 1 .. k # {} /\ k \in 1 .. k
      OBVIOUS
    <3>2. Max(1 .. k) = k
      <4>1. Max(1 .. k) \in 1 .. k /\ Max(1 .. k) >= k
        BY <3>1, GreatestIs
      <4> QED BY <4>1
    <3>3. (1 .. k) \ {k} = 1 .. k - 1
      OBVIOUS
    <3>4. F[1 .. k] = next(F, 1 .. k)
      <4> HIDE DEF next
      <4> QED BY <1>7, <3>1
    <3> QED BY <3>1, <3>2, <3>3, <3>4
  <2>2. F[{}] = 0
    BY <1>7
  <2> QED BY <2>1, <2>2
<1> DEFINE v == [k \in 0 .. n |-> F[1 .. k]]
<1>9. v[0] = 0 /\ \A k \in 1 .. n : v[k] = v[k - 1] + b[k]
  <2>1. v[0] = 0
    <3>1. 1 .. 0 = {}
      OBVIOUS
    <3> QED BY <1>8, <3>1
  <2>2. ASSUME NEW k \in 1 .. n PROVE v[k] = v[k - 1] + b[k]
    <3>1. k \in 0 .. n /\ k - 1 \in 0 .. n
      OBVIOUS
    <3> QED BY <1>8, <3>1
  <2> HIDE DEF v
  <2> QED BY <2>1, <2>2
<1>10. v \in [0 .. n -> Nat]
  <2> HIDE DEF v
  <2> DEFINE T == {k \in 0 .. n : v[k] \in Nat}
  <2>1. 0 \in T
    BY <1>9
  <2>2. ASSUME NEW k \in 1 .. n, k - 1 \in T PROVE k \in T
    <3>1. v[k] = v[k - 1] + b[k] /\ b[k] \in Nat /\ v[k - 1] \in Nat
      BY <1>1, <1>9, <2>2
    <3> QED BY <3>1
  <2> HIDE DEF T
  <2>3. 0 .. n \subseteq T
    BY <2>1, <2>2, RoundsInduction
  <2>4. \A k \in 0 .. n : v[k] \in Nat
    BY <2>3 DEF T
  <2> QED BY <2>4 DEF v
<1>11. v[n] = OnesOf(b)
  BY <1>2
<1> HIDE DEF v
<1> QED BY <1>9, <1>10, <1>11

(* The ones of the first k bits, one bit at a time.                        *)
LEMMA OnesAreCounted ==
    ASSUME NEW n \in Nat, NEW b \in [1 .. n -> {0, 1}]
    PROVE  Count(OfBits(b)) = OnesOf(b)
<1>1. PICK c \in [0 .. n -> Nat] :
        c[0] = 0 /\ (\A k \in 1 .. n : c[k] = c[k - 1] + b[k]) /\ OnesOf(b) = c[n]
  BY SumIs
<1> DEFINE Ones(k) == {m \in 1 .. k : b[m] = 1}
           T == {k \in 0 .. n : IsFiniteSet(Ones(k)) /\ Cardinality(Ones(k)) = c[k]}
<1>2. 0 \in T
  <2>1. Ones(0) = {}
    OBVIOUS
  <2>2. IsFiniteSet({}) /\ Cardinality({}) = 0
    BY FS_EmptySet
  <2> HIDE DEF Ones
  <2>3. IsFiniteSet(Ones(0)) /\ Cardinality(Ones(0)) = c[0]
    BY <1>1, <2>1, <2>2
  <2> QED BY <2>3
<1>3. ASSUME NEW k \in 1 .. n, k - 1 \in T PROVE k \in T
  <2>1. IsFiniteSet(Ones(k - 1)) /\ Cardinality(Ones(k - 1)) = c[k - 1] /\ c[k - 1] \in Nat
    <3>1. k - 1 \in 0 .. n
      OBVIOUS
    <3> QED BY <1>3, <3>1
  <2>2. c[k] = c[k - 1] + b[k] /\ b[k] \in {0, 1}
    BY <1>1
  <2>3. CASE b[k] = 1
    <3>1. Ones(k) = Ones(k - 1) \cup {k} /\ k \notin Ones(k - 1)
      BY <2>3
    <3> HIDE DEF Ones
    <3>2. IsFiniteSet(Ones(k - 1) \cup {k}) /\ Cardinality(Ones(k - 1) \cup {k}) = Cardinality(Ones(k - 1)) + 1
      BY <2>1, <3>1, FS_AddElement
    <3>3. Cardinality(Ones(k)) = c[k - 1] + 1 /\ IsFiniteSet(Ones(k))
      BY <2>1, <3>1, <3>2
    <3>4. k \in 0 .. n /\ c[k] = c[k - 1] + 1
      BY <2>2, <2>3
    <3> QED BY <3>3, <3>4
  <2>4. CASE b[k] = 0
    <3>1. Ones(k) = Ones(k - 1)
      BY <2>4
    <3> HIDE DEF Ones
    <3> QED BY <2>1, <2>2, <2>4, <3>1
  <2> QED BY <2>2, <2>3, <2>4
<1>4. Cardinality(Ones(n)) = c[n]
  <2> HIDE DEF T
  <2>1. 0 .. n \subseteq T
    BY <1>2, <1>3, RoundsInduction
  <2>2. n \in T
    BY <2>1
  <2> QED BY <2>2 DEF T
<1>5. Count(OfBits(b)) = Cardinality(Ones(n))
  <2>1. OfBits(b).len = n
    BY BitsFillBlocks
  <2>2. ToBits(OfBits(b)) = b
    BY BitsComeBack
  <2> QED BY <2>1, <2>2 DEF Count
<1> QED BY <1>1, <1>4, <1>5

(* The first bit in which two vectors differ tells which number is less.   *)
FirstLess(k, b, c) == \E m \in 1 .. k : b[m] = 0 /\ c[m] = 1 /\ \A j \in 1 .. m - 1 : b[j] = c[j]

(* Of any two prefixes the first different bit decides, or they are equal. *)
LEMMA OrderIsOfNumbers ==
    ASSUME NEW n \in Nat, NEW b \in [1 .. n -> {0, 1}], NEW c \in [1 .. n -> {0, 1}]
    PROVE  Less(OfBits(b), OfBits(c)) <=> NumberOf(b) < NumberOf(c)
<1>1. PICK v \in [0 .. n -> Nat] : Reads(v, n, b) /\ NumberOf(b) = v[n]
  BY NumberIs
<1>2. PICK w \in [0 .. n -> Nat] : Reads(w, n, c) /\ NumberOf(c) = w[n]
  BY NumberIs
<1> DEFINE Same(k) == \A j \in 1 .. k : b[j] = c[j]
           T == {k \in 0 .. n : \/ FirstLess(k, b, c) /\ v[k] < w[k]
                                \/ FirstLess(k, c, b) /\ w[k] < v[k]
                                \/ Same(k) /\ v[k] = w[k]}
<1>3. 0 \in T
  BY <1>1, <1>2 DEF Reads
<1>4. ASSUME NEW k \in 1 .. n, k - 1 \in T PROVE k \in T
  <2>1. k - 1 \in 0 .. n
    OBVIOUS
  <2>2. PICK x \in Nat, y \in Nat : x = v[k - 1] /\ y = w[k - 1]
    BY <2>1
  <2>3. PICK d \in {0, 1}, e \in {0, 1} : d = b[k] /\ e = c[k]
    OBVIOUS
  <2>4. v[k] = 2 * x + d /\ w[k] = 2 * y + e
    BY <1>1, <1>2, <2>2, <2>3 DEF Reads
  <2>5. CASE FirstLess(k - 1, b, c) /\ x < y
    <3>1. FirstLess(k, b, c)
      BY <2>5 DEF FirstLess
    <3>2. 2 * x + d < 2 * y + e
      BY <2>5
    <3> QED BY <2>4, <3>1, <3>2
  <2>6. CASE FirstLess(k - 1, c, b) /\ y < x
    <3>1. FirstLess(k, c, b)
      BY <2>6 DEF FirstLess
    <3>2. 2 * y + e < 2 * x + d
      BY <2>6
    <3> QED BY <2>4, <3>1, <3>2
  <2>7. CASE Same(k - 1) /\ x = y
    <3>1. CASE d = e
      <4>1. Same(k)
        <5>1. \A j \in 1 .. k : j = k \/ j \in 1 .. k - 1
          OBVIOUS
        <5> QED BY <2>3, <2>7, <3>1, <5>1
      <4> QED BY <2>4, <2>7, <3>1, <4>1
    <3>2. CASE d = 0 /\ e = 1
      <4>1. FirstLess(k, b, c)
        <5>1. k \in 1 .. k /\ b[k] = 0 /\ c[k] = 1
          BY <2>3, <3>2
        <5>2. \A j \in 1 .. k - 1 : b[j] = c[j]
          BY <2>7
        <5> QED BY <5>1, <5>2 DEF FirstLess
      <4>2. 2 * x + d < 2 * y + e
        BY <2>7, <3>2
      <4> QED BY <2>4, <4>1, <4>2
    <3>3. CASE d = 1 /\ e = 0
      <4>1. FirstLess(k, c, b)
        <5>1. k \in 1 .. k /\ c[k] = 0 /\ b[k] = 1
          BY <2>3, <3>3
        <5>2. \A j \in 1 .. k - 1 : c[j] = b[j]
          BY <2>7
        <5> QED BY <5>1, <5>2 DEF FirstLess
      <4>2. 2 * y + e < 2 * x + d
        BY <2>7, <3>3
      <4> QED BY <2>4, <4>1, <4>2
    <3> QED BY <3>1, <3>2, <3>3
  <2>8. \/ FirstLess(k - 1, b, c) /\ x < y
        \/ FirstLess(k - 1, c, b) /\ y < x
        \/ Same(k - 1) /\ x = y
    <3> HIDE DEF Same
    <3> QED BY <1>4, <2>2
  <2> QED BY <2>5, <2>6, <2>7, <2>8
<1>5. \/ FirstLess(n, b, c) /\ v[n] < w[n]
      \/ FirstLess(n, c, b) /\ w[n] < v[n]
      \/ Same(n) /\ v[n] = w[n]
  <2> HIDE DEF T
  <2>1. 0 .. n \subseteq T
    BY <1>3, <1>4, RoundsInduction
  <2>2. n \in T
    BY <2>1
  <2> HIDE DEF Same
  <2> QED BY <2>2 DEF T
<1>6. ~ (FirstLess(n, b, c) /\ FirstLess(n, c, b))
  <2> SUFFICES ASSUME NEW m \in 1 .. n, b[m] = 0 /\ c[m] = 1 /\ \A j \in 1 .. m - 1 : b[j] = c[j],
                      NEW l \in 1 .. n, c[l] = 0 /\ b[l] = 1 /\ \A j \in 1 .. l - 1 : c[j] = b[j]
               PROVE  FALSE
    BY DEF FirstLess
  <2>1. m < l \/ l < m \/ m = l
    OBVIOUS
  <2>2. m < l => m \in 1 .. l - 1
    OBVIOUS
  <2>3. l < m => l \in 1 .. m - 1
    OBVIOUS
  <2> QED BY <2>1, <2>2, <2>3
<1>7. Same(n) => ~ FirstLess(n, b, c)
  BY DEF FirstLess
<1>8. Less(OfBits(b), OfBits(c)) <=> FirstLess(n, b, c)
  <2>1. OfBits(b).len = n
    BY BitsFillBlocks
  <2>2. ToBits(OfBits(b)) = b /\ ToBits(OfBits(c)) = c
    BY BitsComeBack
  <2> QED BY <2>1, <2>2 DEF Less, FirstLess
<1>9. v[n] \in Nat /\ w[n] \in Nat
  OBVIOUS
<1> HIDE DEF Same
<1> QED BY <1>1, <1>2, <1>5, <1>6, <1>7, <1>8, <1>9

(* The extremes of two bits are their or and their and.                    *)
LEMMA ExtremesOfBits ==
    ASSUME NEW x \in {0, 1}, NEW y \in {0, 1}
    PROVE  /\ Max({x, y}) = IF x = 1 \/ y = 1 THEN 1 ELSE 0
           /\ Min({x, y}) = x * y
           /\ (x + y) % 2 = IF x = y THEN 0 ELSE 1
<1>1. PICK g \in {x, y} : g = (IF x = 1 \/ y = 1 THEN 1 ELSE 0) /\ \A z \in {x, y} : g >= z
  OBVIOUS
<1>2. PICK l \in {x, y} : l = x * y /\ \A z \in {x, y} : l <= z
  OBVIOUS
<1>3. Max({x, y}) \in {x, y} /\ \A z \in {x, y} : Max({x, y}) >= z
  BY <1>1 DEF Max
<1>4. Min({x, y}) \in {x, y} /\ \A z \in {x, y} : Min({x, y}) <= z
  BY <1>2 DEF Min
<1>5. Max({x, y}) = g
  <2>1. Max({x, y}) \in Int /\ g \in Int /\ Max({x, y}) >= g /\ g >= Max({x, y})
    BY <1>1, <1>3
  <2> QED BY <2>1
<1>6. Min({x, y}) = l
  <2>1. Min({x, y}) \in Int /\ l \in Int /\ Min({x, y}) <= l /\ l <= Min({x, y})
    BY <1>2, <1>4
  <2> QED BY <2>1
<1>7. (x + y) % 2 = IF x = y THEN 0 ELSE 1
  OBVIOUS
<1> QED BY <1>1, <1>2, <1>5, <1>6, <1>7

(* Vectors of any length, in blocks of any size: every operation on the    *)
(* blocks is that of the bits, and whole blocks, or a part of one, are the *)
(* number of their bits and come back from it (bitvec.cpp:54-81, 120-291,  *)
(* 320-351).                                                               *)
THEOREM BlocksAreTheBits ==
    ASSUME input.bits \in BitStrings(Nat)
    PROVE  BlocksHoldTheBits
<1> DEFINE b == input.bits
           n == Len(b)
           bv == OfBits(b)
           bit(i) == IF i \in 1 .. n THEN b[i] ELSE 0
           moved(d) == OfBits([i \in 1 .. n |-> bit(i + d)])
<1>1. n \in Nat /\ b \in [1 .. n -> {0, 1}]
  <2>1. PICK l \in Nat : b \in [1 .. l -> {0, 1}]
    BY DEF BitStrings
  <2>2. Len(b) = l
    BY <2>1
  <2> QED BY <2>1, <2>2
<1> HIDE DEF b, n
<1>2. \A i : bit(i) = BitAt(n, b, i)
  BY DEF BitAt
<1>3. \A i \in 1 .. n : bit(i) = b[i]
  OBVIOUS
<1>4. ToBits(bv) = b /\ Count(bv) = OnesOf(b)
  BY <1>1, BitsComeBack, OnesAreCounted
<1>5. Not(bv) = OfBits([i \in 1 .. n |-> 1 - bit(i)])
  <2>1. [i \in 1 .. n |-> 1 - bit(i)] = [i \in 1 .. n |-> 1 - b[i]]
    BY <1>3
  <2> QED BY <1>1, <2>1, NotOfBits
<1>6. ASSUME NEW d \in 0 .. n PROVE ShiftLeft(bv, d) = moved(d)
  <2>1. [i \in 1 .. n |-> bit(i + d)] = [i \in 1 .. n |-> BitAt(n, b, i + d)]
    BY <1>2
  <2>2. d \in Nat
    OBVIOUS
  <2>3. moved(d) = OfBits([i \in 1 .. n |-> BitAt(n, b, i + d)])
    BY <2>1
  <2>4. ShiftLeft(bv, d) = OfBits([i \in 1 .. n |-> BitAt(n, b, i + d)])
    BY <1>1, <2>2, LeftShiftOfBits
  <2> QED BY ONLY <2>3, <2>4
<1>7. ASSUME NEW d \in 0 .. BlockBits - 1 PROVE ShiftRight(bv, d) = moved(-d)
  <2>1. \A i \in 1 .. n : i + (-d) = i - d
    BY <1>1, BlockBitsAre
  <2>2. [i \in 1 .. n |-> bit(i + (-d))] = [i \in 1 .. n |-> BitAt(n, b, i - d)]
    <3> HIDE DEF bit
    <3> QED BY <1>2, <2>1
  <2>3. moved(-d) = OfBits([i \in 1 .. n |-> BitAt(n, b, i - d)])
    BY <2>2
  <2>4. ShiftRight(bv, d) = OfBits([i \in 1 .. n |-> BitAt(n, b, i - d)])
    BY <1>1, RightShiftOfBits
  <2> QED BY ONLY <2>3, <2>4
<1>8. ASSUME NEW i \in 1 .. n, NEW c \in {0, 1} PROVE SetBit(bv, i - 1, c) = OfBits([b EXCEPT ![i] = c])
  BY <1>1, SetOneBit
<1>9. ASSUME NEW other \in BitStrings({n})
      PROVE  /\ Or(bv, OfBits(other)) = OfBits([i \in 1 .. n |-> Max({bit(i), other[i]})])
             /\ And(bv, OfBits(other)) = OfBits([i \in 1 .. n |-> Min({bit(i), other[i]})])
             /\ Xor(bv, OfBits(other)) = OfBits([i \in 1 .. n |-> (bit(i) + other[i]) % 2])
             /\ Less(bv, OfBits(other)) <=> NumberOf(b) < NumberOf(other)
  <2>1. other \in [1 .. n -> {0, 1}]
    BY DEF BitStrings
  <2>2. ASSUME NEW i \in 1 .. n
        PROVE  /\ Max({bit(i), other[i]}) = IF b[i] = 1 \/ other[i] = 1 THEN 1 ELSE 0
               /\ Min({bit(i), other[i]}) = b[i] * other[i]
               /\ (bit(i) + other[i]) % 2 = IF b[i] = other[i] THEN 0 ELSE 1
    <3>1. b[i] \in {0, 1} /\ other[i] \in {0, 1} /\ bit(i) = b[i]
      BY <1>1, <1>3, <2>1
    <3> HIDE DEF bit
    <3> QED BY <3>1, ExtremesOfBits
  <2>3. /\ [i \in 1 .. n |-> Max({bit(i), other[i]})]
             = [i \in 1 .. n |-> IF b[i] = 1 \/ other[i] = 1 THEN 1 ELSE 0]
        /\ [i \in 1 .. n |-> Min({bit(i), other[i]})] = [i \in 1 .. n |-> b[i] * other[i]]
        /\ [i \in 1 .. n |-> (bit(i) + other[i]) % 2] = [i \in 1 .. n |-> IF b[i] = other[i] THEN 0 ELSE 1]
    BY <2>2
  <2>4. /\ Or(bv, OfBits(other)) = OfBits([i \in 1 .. n |-> IF b[i] = 1 \/ other[i] = 1 THEN 1 ELSE 0])
        /\ And(bv, OfBits(other)) = OfBits([i \in 1 .. n |-> b[i] * other[i]])
        /\ Xor(bv, OfBits(other)) = OfBits([i \in 1 .. n |-> IF b[i] = other[i] THEN 0 ELSE 1])
    BY <1>1, <2>1, LogicOfBits
  <2>5. Less(bv, OfBits(other)) <=> NumberOf(b) < NumberOf(other)
    BY <1>1, <2>1, OrderIsOfNumbers
  <2> HIDE DEF bit
  <2> QED BY <2>3, <2>4, <2>5
<1>10. ASSUME n <= BlockBits \/ n % BlockBits = 0
       PROVE  ToUint(bv) = NumberOf(b) /\ FromUint(NumberOf(b), n) = bv
  <2>1. n \in 1 .. BlockBits - 1 \/ n % BlockBits = 0
    BY <1>1, <1>10, BlockBitsAre
  <2>2. ToUint(bv) = NumberOf(b)
    BY <1>1, <2>1, OneBlockNumber, WholeBlocksNumber
  <2>3. FromUint(NumberOf(b), n) = bv
    <3>1. n < BlockBits \/ n % BlockBits = 0
      BY <2>1, BlockBitsAre
    <3> QED BY <1>1, <3>1, NumberComesBack
  <2> QED BY <2>2, <2>3
<1> HIDE DEF moved, bit, bv
<1> QED
  BY <1>4, <1>5, <1>6, <1>7, <1>8, <1>9, <1>10 DEF BlocksHoldTheBits, OnesOf, b, n, bit, bv, moved
=============================================================================
