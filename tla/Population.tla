------------------------------ MODULE Population ------------------------------
(***************************************************************************)
(* The population of the genetic algorithm across its genetic operators    *)
(* (crossover.cpp, mutation.cpp) and the resets around its evaluations     *)
(* (ga.cpp), which module Ga puts into the order of the loop.  Of an       *)
(* individual, a Grn, only what these steps tell apart is kept: its genes  *)
(* and its initial proteins, each one value, and whether a simulation ran  *)
(* since its store was loaded with the initial proteins.                   *)
(* (Mutation changes the initial proteins after that, and nothing reloads  *)
(* the store before the evaluation: see the README.)                       *)
(*                                                                         *)
(* What crossing or mutating gives is any value: the bits and numbers are  *)
(* mixed at random points.  Random selection of the parents thus makes no  *)
(* difference here.                                                        *)
(***************************************************************************)
EXTENDS Integers, Sequences, SequencesExt

CONSTANTS
    PopSize,     \* run->pop_size
    CrossUnit,   \* fractions of the population are in units of 1 / CrossUnit
    GeneAlleles, ProteinAlleles   \* values of the genes, of the initial proteins

ASSUME PopulationAssumption == PopSize \in Nat \ {0} /\ CrossUnit \in Nat \ {0}

VARIABLE pop     \* Ga::pop

(* push_initial_proteins fills the store of a new Grn.                     *)
NewGrn(genes, initial) ==
    [genes |-> genes, initial |-> initial, simulated |-> FALSE]
NewGrns == {NewGrn(g, p) : g \in GeneAlleles, p \in ProteinAlleles}

(* The copy constructor as crossover and the Logger call it.               *)
Copied_Fault(grn) == grn
Copied(grn) == NewGrn(grn.genes, grn.initial)

Genotype(grn) == <<grn.genes, grn.initial>>

Groups(size) == [1 .. size -> NewGrns]

NewPopulation == pop \in Groups(PopSize)

Simulated(i) == pop' = [pop EXCEPT ![i + 1].simulated = TRUE]

(* Grn::reset clears the store and loads the initial proteins again.       *)
Reset(grn) == NewGrn(grn.genes, grn.initial)
ResetAll == pop' = [i \in 1 .. PopSize |-> Reset(pop[i])]

(* The position in fit, which counts from 0, of the first of the fittest.  *)
Fittest(fit) ==
    CHOOSE i \in DOMAIN fit : \A j \in DOMAIN fit :
        fit[i] < fit[j] \/ (fit[i] = fit[j] /\ i <= j)

(* select() makes the number of children even.                             *)
NumCouples(cross_frac) ==
    IF cross_frac <= 0 THEN 0 ELSE ((cross_frac * PopSize) \div CrossUnit) \div 2

(* The elite is appended when there is room, else it takes the place of    *)
(* the last child.                                                         *)
WithElite_Fault(children, elite) ==
    IF Len(children) < PopSize THEN Append(children, elite) ELSE children
WithElite(children, elite) ==
    IF Len(children) < PopSize THEN Append(children, elite) ELSE Append(Front(children), elite)

(* Random individuals fill the population up; the old one is deleted.      *)
NumRandom(group) == PopSize - Len(group)
CrossAll(fit, cross_frac) ==
    \E children \in Groups(2 * NumCouples(cross_frac)) :
       LET group == WithElite(children, Copied(pop[Fittest(fit) + 1]))
       IN \E random \in Groups(NumRandom(group)) : pop' = group \o random

(* Mutation::run_op changes the genes and the initial proteins in place,   *)
(* each with probability mut_prob; the store keeps the copies it was       *)
(* loaded with.                                                            *)
Mutant(grn, g, p) == [grn EXCEPT !.genes = g, !.initial = p]
Mutants(grn, mut_prob) ==
    IF mut_prob <= 0 THEN {grn}
    ELSE {Mutant(grn, g, p) : g \in GeneAlleles, p \in ProteinAlleles}
MutateAll(mut_prob) ==
    \E mutants \in [1 .. PopSize -> UNION {Mutants(pop[i], mut_prob) : i \in 1 .. PopSize}] :
        /\ \A i \in 1 .. PopSize : mutants[i] \in Mutants(pop[i], mut_prob)
        /\ pop' = mutants
=============================================================================
