------------------------------ MODULE RandSearch ------------------------------
(***************************************************************************)
(* The random search (rand_search.cpp): every iteration draws programs for *)
(* one phenotype of its population, each on top of the last one, and       *)
(* offers a copy of each to the bests.  Module Main runs it.               *)
(*                                                                         *)
(* A copy is named after the iteration and the try it was made in; an      *)
(* evaluation gives any of the fitnesses.  The other phenotypes of the     *)
(* population are never looked at.                                         *)
(***************************************************************************)
EXTENDS BestInfo, TreeWalks

CONSTANT Fitnesses   \* the values that an evaluation may give

(* A fitness is not negative, Null no name and NoInstr no instruction.     *)
ASSUME RandSearchAssumption ==
    /\ Fitnesses \subseteq Nat
    /\ \E most \in Fitnesses : \A f \in Fitnesses : f <= most
    /\ Null \notin Int \X Int
    /\ NoInstr \notin Instrs

VARIABLES
    run,        \* RandSearch::run
    iteration,  \* run_alg's i
    tried,      \* run_alg's j
    ptype,      \* the tree of pop[i]
    bests,      \* RandSearch::bests
    copies,     \* the copies of phenotypes on the heap
    refused,    \* history: the copies that were not fitter than the bests
    least       \* history: the least fitness of the search

search == <<iteration, tried, ptype, bests, copies, refused, least>>

Unseen == 1 + Max(Fitnesses)
NoSearch ==
    /\ iteration = 0 /\ tried = 0 /\ ptype = EmptyTree /\ bests = NoBests
    /\ copies = {} /\ refused = {} /\ least = Unseen

(* The constructor.  What an earlier search lost stays on the heap.        *)
StartSearch ==
    /\ iteration' = 0 /\ tried' = 0 /\ ptype' = EmptyTree /\ bests' = NoBests
    /\ least' = Unseen /\ copies' = {} /\ refused' = {}

MaxPgmNodes == Min({run.max_pgm_size, run.num_genes})

(***************************************************************************)
(* randomize_ptype: up to max_nodes nodes more, below a node or where none *)
(* is; then an instruction that takes its children for every node: one     *)
(* whose number of children no active type takes is left as it was.        *)
(***************************************************************************)
Grown(t) ==
    LET grown[size \in 0 .. MaxPgmNodes] ==
            IF size = 0 THEN {t}
            ELSE {AddChild(g, parent, NoInstr) :
                    g \in grown[size - 1], parent \in 0 .. MaxPgmNodes - 1}
    IN UNION {grown[size] : size \in 0 .. MaxPgmNodes}

InstrsFor_Fault(t, id) ==
    IF t.nodes[id].instr # NoInstr THEN {t.nodes[id].instr} ELSE RandInstrs(NumChildren(t, id))
InstrsFor(t, id) ==
    LET fitting == RandInstrs(NumChildren(t, id))
    IN IF fitting # {} THEN fitting ELSE {t.nodes[id].instr}
Instructed(t) ==
    {[t EXCEPT !.nodes = [id \in NodeIds(t) |-> [t.nodes[id] EXCEPT !.instr = chosen[id]]]] :
       chosen \in {f \in [NodeIds(t) -> UNION {InstrsFor(t, id) : id \in NodeIds(t)}] :
                     \A id \in NodeIds(t) : f[id] \in InstrsFor(t, id)}}

Randomized(t) == UNION {Instructed(g) : g \in Grown(t)}

(***************************************************************************)
(* One try: the copy is kept by whoever takes it, and lost if nobody does. *)
(***************************************************************************)
TryOne ==
    /\ iteration < run.ga_steps /\ tried < run.pop_size
    /\ \E t \in Randomized(ptype), fitness \in Fitnesses :
         LET copy == <<iteration, tried>>
             g == UpdateGenBest(bests, copy, fitness)
             r == IF g.updated THEN UpdateRunBest(g.bests, copy, fitness, iteration)
                  ELSE [bests |-> g.bests, deleted |-> {}]
         IN /\ ptype' = t
            /\ bests' = r.bests
            /\ copies' = (copies \cup {copy}) \ (g.deleted \cup r.deleted)
            /\ refused' = IF g.updated THEN refused ELSE refused \cup {copy}
            /\ least' = Min({least, fitness})
    /\ tried' = tried + 1
    /\ UNCHANGED <<run, iteration>>

(* The next iteration takes the next phenotype, which is still empty.      *)
NextIteration ==
    /\ iteration < run.ga_steps /\ tried = run.pop_size
    /\ bests' = GenDone(bests)
    /\ iteration' = iteration + 1 /\ tried' = 0 /\ ptype' = EmptyTree
    /\ UNCHANGED <<run, copies, refused, least>>

(* pop[i] is read for every iteration, of a vector of pop_size phenotypes. *)
ReadsBeyondPop == iteration < run.ga_steps /\ tried = 0 /\ iteration >= run.pop_size

(* The destructor of the bests.                                            *)
FreeBests ==
    /\ copies' = copies \ Held(bests)
    /\ UNCHANGED <<run, iteration, tried, ptype, bests, refused, least>>
=============================================================================
