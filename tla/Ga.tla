---------------------------------- MODULE Ga ----------------------------------
(***************************************************************************)
(* The loop of the genetic algorithm (ga.cpp) with what it reads back from *)
(* the evaluation (RegSim::update_fitness) and from the Logger: the best   *)
(* individuals, the average fitness, and whether to go on.  Between two    *)
(* evaluations the operators of module Population change the population.   *)
(*                                                                         *)
(* An evaluation of an individual gives some fitness: its simulation is    *)
(* module RegSim.  A snapshot, or a copy made by the Logger, is named      *)
(* after the step and the individual it is of.  An average is kept as the  *)
(* sum over the population.  What is written to the database: module       *)
(* Logger.                                                                 *)
(***************************************************************************)
EXTENDS BestInfo, Sampling, Population, FiniteSets

CONSTANTS
    TermCutoff,                \* run->term_cutoff
    Fitnesses,                 \* the values that an evaluation may give
    MutProb, MutStep, MutProbLimit,         \* run->mut_prob and its adjustment
    CrossFrac, CrossStep, CrossFracLimit    \* run->cross_frac and its adjustment

(* A fitness is a float, of which there is a greatest; cross_frac is a     *)
(* fraction of the population.                                             *)
ASSUME GaAssumption ==
    /\ TermCutoff \in Int
    /\ Fitnesses \subseteq Nat
    /\ \E most \in Fitnesses : \A f \in Fitnesses : f <= most
    /\ {MutProb, MutStep, MutProbLimit, CrossFrac, CrossStep, CrossFracLimit} \subseteq Int
    /\ CrossFrac <= CrossUnit /\ CrossFracLimit <= CrossUnit
    /\ Null \notin Int \X Int

VARIABLES
    pc,             \* where run_alg is
    ga_step,        \* run_alg's i, -1 before the loop
    index,          \* the individual that update_fitness evaluates next
    fitnesses,      \* Ga::fitnesses
    reg_bests,      \* RegSim::bests
    snapshots,      \* the RegSnapshots on the heap
    log_bests,      \* Logger::grn_bests, and ptype_bests alike
    copies,         \* the copies the Logger made, on the heap
    gen_avg,        \* Logger::gen_avg_fitness
    prev_avg,       \* adjust_params' static prev_avg
    params,         \* run->mut_prob and run->cross_frac
    least,          \* history: the least fitness of the run
    least_sampled,  \* history: that of the steps the Logger samples
    champion        \* history: the fittest genotype of the last evaluation

logger == <<log_bests, copies, gen_avg, least_sampled>>
evaluation == <<index, fitnesses, reg_bests, snapshots, least>>
vars == <<pc, ga_step, evaluation, logger, prev_avg, params, pop, champion>>

Individuals == 0 .. PopSize - 1
Lesser(x, y) == IF x < y THEN x ELSE y
Unseen == 1 + CHOOSE f \in Fitnesses : \A other \in Fitnesses : other <= f
NoAvg == PopSize * Unseen   \* numeric_limits<float>::max()

Init ==
    /\ pc = "evaluate" /\ ga_step = -1 /\ index = 0
    /\ fitnesses = [i \in Individuals |-> 0]
    /\ reg_bests = NoBests /\ snapshots = {}
    /\ log_bests = NoBests /\ copies = {}
    /\ gen_avg = -1 /\ prev_avg = NoAvg
    /\ params = [mut_prob |-> MutProb, cross_frac |-> CrossFrac]
    /\ least = Unseen /\ least_sampled = Unseen
    /\ NewPopulation /\ champion = Genotype(pop[1])

(***************************************************************************)
(* RegSim::update_fitness, one individual at a time                        *)
(***************************************************************************)
EvaluateOne ==
    /\ pc = "evaluate"
    /\ \E fitness \in Fitnesses :
         LET snapshot == <<ga_step, index>>
             g == UpdateGenBest(reg_bests, snapshot, fitness)
             r == IF g.updated THEN UpdateRunBest(g.bests, snapshot, fitness, ga_step)
                  ELSE [bests |-> g.bests, deleted |-> {snapshot}]
             last == index = PopSize - 1
         IN /\ fitnesses' = [fitnesses EXCEPT ![index] = fitness]
            /\ reg_bests' = GenDone(r.bests)
            /\ snapshots' = (snapshots \cup {snapshot}) \ (g.deleted \cup r.deleted)
            /\ least' = Lesser(least, fitness)
            /\ pc' = IF last THEN "log" ELSE "evaluate"
            /\ index' = IF last THEN 0 ELSE index + 1
            /\ champion' = IF last THEN Genotype(pop[Fittest(fitnesses') + 1]) ELSE champion
    /\ Simulated(index)
    /\ UNCHANGED <<ga_step, logger, prev_avg, params>>

(***************************************************************************)
(* Logger::log_fitnesses                                                   *)
(***************************************************************************)
(* Before the loop every individual is offered, then the fitter ones.      *)
IsOffered_Fault(bests, fitness) == fitness < bests.gen_fitness
IsOffered(bests, fitness) == ga_step = -1 \/ fitness < bests.gen_fitness

(* The bests and the copies once individual i is looked at.  The results   *)
(* of the updates are not: a copy that neither takes stays behind.         *)
Offered(before, i) ==
    LET fitness == fitnesses[i]
        copy == <<ga_step, i>>
        g == UpdateGenBest(before.bests, copy, fitness)
        r == UpdateRunBest(g.bests, copy, fitness, ga_step)
    IN IF IsOffered(before.bests, fitness)
       THEN [bests |-> r.bests,
             copies |-> (before.copies \cup {copy}) \ (g.deleted \cup r.deleted)]
       ELSE before

AfterLogging ==
    LET after[k \in 0 .. PopSize] ==
            IF k = 0 THEN [bests |-> log_bests, copies |-> copies]
            ELSE Offered(after[k - 1], k - 1)
    IN after[PopSize]

Total ==
    LET sum[k \in 0 .. PopSize] == IF k = 0 THEN 0 ELSE sum[k - 1] + fitnesses[k - 1]
    IN sum[PopSize]

LeastOf(values) == CHOOSE f \in values : \A other \in values : f <= other

(* Before the loop nothing is reset or adjusted.                           *)
AfterLog == IF ga_step = -1 THEN "next" ELSE "reset"

LogFitnesses ==
    /\ pc = "log"
    /\ IF ShouldSample(ga_step)
       THEN /\ log_bests' = GenDone(AfterLogging.bests)
            /\ copies' = AfterLogging.copies
            /\ gen_avg' = Total
            /\ least_sampled' =
                 Lesser(least_sampled, LeastOf({fitnesses[i] : i \in Individuals}))
       ELSE UNCHANGED logger
    /\ pc' = AfterLog
    /\ UNCHANGED <<ga_step, evaluation, prev_avg, params, pop, champion>>

(* Ga::reset_proteins                                                      *)
ResetProteins ==
    /\ pc = "reset" /\ ResetAll /\ pc' = "adjust"
    /\ UNCHANGED <<ga_step, evaluation, logger, prev_avg, params, champion>>

(***************************************************************************)
(* adjust_params, and the loop of run_alg                                  *)
(***************************************************************************)
ClampParam(value, step, limit) ==
    CASE step > 0 -> Lesser(value + step, limit)
      [] step < 0 -> -Lesser(-(value + step), -limit)
      [] step = 0 -> value

AdjustParams ==
    /\ pc = "adjust"
    /\ IF gen_avg <= prev_avg
       THEN prev_avg' = gen_avg /\ UNCHANGED params
       ELSE /\ params' = [mut_prob |-> ClampParam(params.mut_prob, MutStep, MutProbLimit),
                          cross_frac |-> ClampParam(params.cross_frac, CrossStep, CrossFracLimit)]
            /\ UNCHANGED prev_avg
    /\ pc' = "next"
    /\ UNCHANGED <<ga_step, evaluation, logger, pop, champion>>

NextStep_Fault == IF ShouldSample(ga_step) THEN ga_step + 1 ELSE ga_step
NextStep == ga_step + 1

Continues == NextStep < GaSteps /\ log_bests.run_fitness > TermCutoff

Iterate ==
    /\ pc = "next"
    /\ ga_step' = NextStep
    /\ pc' = IF Continues THEN "crossover" ELSE "done"
    /\ UNCHANGED <<evaluation, logger, prev_avg, params, pop, champion>>

(* The genetic operators, in the order they are in gen_ops.                *)
Crossover ==
    /\ pc = "crossover" /\ CrossAll(fitnesses, params.cross_frac) /\ pc' = "mutate"
    /\ UNCHANGED <<ga_step, evaluation, logger, prev_avg, params, champion>>

Mutate ==
    /\ pc = "mutate" /\ MutateAll(params.mut_prob) /\ pc' = "evaluate"
    /\ UNCHANGED <<ga_step, evaluation, logger, prev_avg, params, champion>>

Next == EvaluateOne \/ LogFitnesses \/ ResetProteins \/ AdjustParams \/ Iterate \/ Crossover \/ Mutate

(* The program is one thread and waits for nothing but the evaluation.     *)
Spec == Init /\ [][Next]_vars /\ WF_vars(Next)

(***************************************************************************)
(* Properties                                                              *)
(***************************************************************************)
(* The snapshots on the heap are those that RegSim's bests point to: the   *)
(* two pointers, which often name the same snapshot, never name one that   *)
(* either update has deleted, and no snapshot is lost (reg_sim.cpp:55-69,  *)
(* best_info.hpp:52-65, 90-99).                                            *)
SnapshotsOwned == snapshots = Held(reg_bests)

(* The same of the Logger's copies, although it offers each to both bests  *)
(* and looks at neither result: only copies of the initial population are  *)
(* lost (logger.cpp:370-378).                                              *)
CopiesOwned ==
    /\ Held(log_bests) \subseteq copies
    /\ \A copy \in copies \ Held(log_bests) : copy[1] = -1

(* The run best is the least fitness of all evaluations, whichever step it *)
(* was in, although a generation's best is forgotten after every           *)
(* individual (reg_sim.cpp:60-68).                                         *)
RunBestIsLeast ==
    pc # "evaluate" =>
        /\ reg_bests.run_fitness = least
        /\ reg_bests.run_iter = reg_bests.run[1]

(* The Logger, which never starts a new generation's best (its test is     *)
(* against the last one), knows the least fitness of the sampled steps,    *)
(* and so run_alg makes no new population after a sampled step that        *)
(* reached the cutoff (logger.cpp:370-377, ga.cpp:58).                     *)
LoggedBestIsLeast ==
    /\ pc \notin {"evaluate", "log"} => log_bests.run_fitness = least_sampled
    /\ pc = "crossover" => least_sampled > TermCutoff

(* Every simulation starts from the initial conditions: no individual is   *)
(* evaluated with the proteins or bindings that an earlier simulation left *)
(* in it, although nothing is reset after the evaluation before the loop   *)
(* (ga.cpp:54-70, crossover.cpp:60, grn.cpp:37-58).                        *)
EvaluatedFresh ==
    pc = "evaluate" => \A i \in 1 .. PopSize : pop[i].simulated <=> i <= index

(* Crossover leaves the fittest individual of the evaluation before it in  *)
(* the population of the size it had, whatever the fraction that the       *)
(* adjusting has come to (crossover.cpp:58-76, 112-114).                   *)
EliteSurvivesCrossover ==
    pc = "mutate" =>
        /\ Len(pop) = PopSize
        /\ \E i \in 1 .. PopSize : Genotype(pop[i]) = champion

(* The run ends, whatever the evaluations give (ga.cpp:58-75).             *)
RunEnds == <>(pc = "done")
=============================================================================
