-------------------------------- MODULE Logger --------------------------------
(***************************************************************************)
(* What the genetic algorithm writes to the database while it runs         *)
(* (ga.cpp, reg_sim.cpp, crossover.cpp, logger.cpp), and what the viewer   *)
(* shows of it.  The networks of a population, the regulatory steps of an  *)
(* individual, the split points and the fitnesses are logged at different  *)
(* moments, by different callers, and refer to each other's rows.          *)
(*                                                                         *)
(* A simulation gives some fitness and some observations, one per step.    *)
(* A snapshot is named after its step and individual; module Ga has who    *)
(* owns and deletes it.                                                    *)
(***************************************************************************)
EXTENDS Database, BestInfo

CONSTANTS
    PopSize,       \* run->pop_size
    LogModes,      \* values of run->log_mode
    Simulations,   \* what may come of a simulation: observations and fitness
    Couples        \* parents and split points that crossover may draw

(* What a gene refers to is a protein of the network (module Grn,          *)
(* NoDangling), and the tree is one that add_child built (module RegSim,   *)
(* TreeStaysSound).  Null is no name.                                      *)
IsProgram(t) ==
    /\ IsFiniteSet(NodeIds(t)) /\ IdsContiguous(t) /\ WellFormed(t)
    /\ \A id \in NodeIds(t) : Children(t, id) \in Seq(Nat)
Observation(obs) ==
    /\ IsProgram(obs.tree)
    /\ DOMAIN obs.concs \subseteq Nat /\ IsFiniteSet(DOMAIN obs.concs)
    /\ \A g \in Positions : {obs.bound[g], obs.active[g]} \subseteq DOMAIN obs.concs \cup {NoProtein}

ASSUME LoggerAssumption ==
    /\ PopSize \in Nat \ {0} /\ LogModes \subseteq {"all", "best", "none"}
    /\ \A s \in Simulations :
          s.fitness \in Nat /\ \A reg_step \in -1 .. RegSteps - 1 : Observation(s.steps[reg_step])
    /\ Couples \subseteq Seq([parents : Int \X Int, split_pt : Int])
    /\ Null \notin Int \X Int

VARIABLES
    pc,                 \* where run_alg is
    log_mode,           \* run->log_mode
    ga_step,            \* run_alg's i, -1 before the loop
    fitnesses,          \* Ga::fitnesses, of those evaluated in this step
    bests,              \* RegSim::bests
    run_best_updated,   \* the flag of update_fitness
    db,                 \* the database
    observed            \* RegSnapshot::grns and ptypes, by snapshot

vars == <<pc, log_mode, ga_step, fitnesses, bests, run_best_updated, db, observed>>

Init ==
    /\ pc = "evaluate" /\ log_mode \in LogModes /\ ga_step = -1
    /\ fitnesses = << >>
    /\ bests = NoBests /\ run_best_updated = FALSE
    /\ db = LogGaStep(EmptyDb, log_mode, -1, PopSize)
    /\ observed = << >>

(* The flag is a local of update_fitness: it is down when that starts.     *)
UpdatedBefore_Fault == FALSE
UpdatedBefore == fitnesses # << >> /\ run_best_updated

(* What update_fitness logs after an individual, and after the last one.   *)
IsLast == Len(fitnesses) = PopSize - 1
Logged(name) ==
    CASE log_mode = "all" -> LogRegSnapshot(db, name, observed'[name])
      [] log_mode = "best" /\ IsLast /\ run_best_updated' ->
             LogRegSnapshot(db, bests'.run, observed'[bests'.run])
      [] OTHER -> db

EvaluateOne ==
    /\ pc = "evaluate"
    /\ \E simulation \in Simulations :
         LET name == <<ga_step, Len(fitnesses)>>
             g == UpdateGenBest(bests, name, simulation.fitness)
             r == UpdateRunBest(g.bests, name, simulation.fitness, ga_step)
         IN /\ fitnesses' = Append(fitnesses, simulation.fitness)
            /\ observed' = [n \in DOMAIN observed \cup {name} |->
                              IF n = name THEN simulation.steps ELSE observed[n]]
            /\ bests' = GenDone(IF g.updated THEN r.bests ELSE g.bests)
            /\ run_best_updated' = (UpdatedBefore \/ (g.updated /\ r.updated))
            /\ db' = Logged(name)
    /\ pc' = IF IsLast THEN "log" ELSE "evaluate"
    /\ UNCHANGED <<log_mode, ga_step>>

LogStep ==
    /\ pc = "log"
    /\ db' = LogFitnesses(db, ga_step, fitnesses)
    /\ pc' = "next"
    /\ UNCHANGED <<log_mode, ga_step, fitnesses, bests, run_best_updated, observed>>

(* Crossover writes the split point to the rows of both parents, which are *)
(* of the step before; then the new population is logged.                  *)
WithSplitPt(d, couple) ==
    LogSplitPt(LogSplitPt(d, ga_step, couple.parents[1], couple.split_pt),
               ga_step, couple.parents[2], couple.split_pt)
Crossed(couples) ==
    LET crossed[k \in 0 .. Len(couples)] ==
            IF k = 0 THEN db ELSE WithSplitPt(crossed[k - 1], couples[k])
    IN crossed[Len(couples)]

RunOperators ==
    /\ pc = "next" /\ ga_step + 1 < GaSteps
    /\ ga_step' = ga_step + 1
    /\ \E couples \in Couples : db' = LogGaStep(Crossed(couples), log_mode, ga_step', PopSize)
    /\ fitnesses' = << >>
    /\ pc' = "evaluate"
    /\ UNCHANGED <<log_mode, bests, run_best_updated, observed>>

(* The cutoff may be reached at any time.                                  *)
WriteDb ==
    /\ pc = "next" /\ pc' = "done"
    /\ UNCHANGED <<log_mode, ga_step, fitnesses, bests, run_best_updated, db, observed>>

(* A function of the Logger that fails leaves the program.                 *)
Next == ~ db.failed /\ (EvaluateOne \/ LogStep \/ RunOperators \/ WriteDb)
Spec == Init /\ [][Next]_vars

(***************************************************************************)
(* Properties                                                              *)
(***************************************************************************)
(* Every row that a function of the Logger expects is there when it looks  *)
(* (the network, its genes, the proteins its genes refer to) and none that *)
(* it inserts is there already: no run is given up with exit(1) in the     *)
(* middle of a transaction (logger.cpp:552, 616, 633, 757, 780, 798).      *)
NeverFails == ~ db.failed

NodeViews(t) ==
    LET node[id \in NodeIds(t)] ==
          [descr |-> t.nodes[id].instr,
           below |-> [i \in DOMAIN Children(t, id) |-> node[Children(t, id)[i]]]]
    IN node
IsLeast(f, values) == f \in values /\ \A other \in values : f <= other
HasSteps(name) == \E k \in DOMAIN db.ptype_state :
    db.ptype_state[k].grn_id \in GrnIds(db, name[1], name[2])

(* What the viewer shows of a regulatory step is what the network and the  *)
(* program were at that step of that individual's simulation: one curve    *)
(* for every protein, though ids are given again in every simulation and   *)
(* no index keeps a protein's rows unique, the right protein on every      *)
(* gene, and the whole tree (logger.cpp:598-932, graph_gen.py:192-300,     *)
(* tree_gen.py:11-53).                                                     *)
CurvesShown(name, s) ==
    LET concs == observed[name][s].concs
        curves == Curves(db, name, s)
    IN /\ {curves[i] : i \in DOMAIN curves} = {[pid |-> p, conc |-> concs[p]] : p \in DOMAIN concs}
       /\ Cardinality(DOMAIN curves) = Cardinality(DOMAIN concs)
GeneShown(name, s, g) ==
    LET obs == observed[name][s]
        states == GeneStates(db, name, s, g)
    IN /\ Cardinality(states) = 1
       /\ obs.bound[g] = ShownProtein(db, {db.gene_state[i].bound_protein : i \in states})
       /\ obs.active[g] = ShownProtein(db, {db.gene_state[i].active_output : i \in states})
TreeShown(name, s) ==
    LET t == observed[name][s].tree
    IN ShownTrees(db, name, s) = IF HasRoot(t) THEN {NodeViews(t)[0]} ELSE {}

(* The curves and the genes; and the trees.                                *)
StatesShown ==
    \A name \in DOMAIN observed : HasSteps(name) =>
        \A s \in -1 .. RegSteps - 1 :
            CurvesShown(name, s) /\ \A g \in Positions : GeneShown(name, s, g)
TreesShown ==
    \A name \in DOMAIN observed : HasSteps(name) =>
        \A s \in -1 .. RegSteps - 1 : TreeShown(name, s)
ShownIsObserved == StatesShown /\ TreesShown

(* The fittest individual that the viewer names is the best there is to    *)
(* name: of all that are in the database with log_mode "all", of the run   *)
(* with "best", if the Logger sampled the step that it appeared in         *)
(* (reg_sim.cpp:60-73, logger.cpp:590-601, view/best_info.py:20-24).       *)
FittestShown ==
    pc \in {"next", "done"} =>
        /\ log_mode = "all" =>
             \E f \in ShownFitnesses(db) : IsLeast(f, {row.fitness : row \in ToSet(db.fitness)})
        /\ log_mode = "best" /\ ShouldSample(bests.run_iter) =>
             IsLeast(bests.run_fitness, ShownFitnesses(db))

(* With log_mode "best" the viewer takes the one network it finds at a     *)
(* step for the best of it: there never is another                         *)
(* (reg_sim.cpp:71-73, view_window.py:219-223).                            *)
OneGrnPerStep ==
    log_mode = "best" =>
        \A i, j \in DOMAIN db.grn : db.grn[i].ga_step = db.grn[j].ga_step => i = j
=============================================================================
