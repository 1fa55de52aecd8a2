------------------------------- MODULE BestInfo -------------------------------
(***************************************************************************)
(* The best object of a generation and of the run (best_info.hpp), as a    *)
(* value.  A BestInfo owns the objects it points to: an update may delete  *)
(* the object it replaces.  RegSim keeps snapshots in one, the Logger      *)
(* copies of networks and phenotypes in two, RandSearch phenotypes.        *)
(*                                                                         *)
(* An object is any value other than Null; fitnesses are natural numbers,  *)
(* less is better.                                                         *)
(***************************************************************************)
EXTENDS Integers

CONSTANT Null

NoBests ==
    [gen |-> Null, gen_fitness |-> -1, gen_over |-> FALSE,
     run |-> Null, run_fitness |-> -1, run_iter |-> -1]

(***************************************************************************)
(* update_gen_best: the first object of a generation, or a fitter one.     *)
(***************************************************************************)
ReplacesGen(b, fitness) == b.gen = Null \/ b.gen_over \/ fitness < b.gen_fitness

(* The object that the replaced pointer was the last to name is deleted.   *)
GenDeleted_Fault(b) == {b.gen} \ {Null}
GenDeleted(b) == {b.gen} \ {Null, b.run}

UpdateGenBest(b, object, fitness) ==
    IF ReplacesGen(b, fitness)
    THEN [bests |-> [b EXCEPT !.gen = object, !.gen_fitness = fitness, !.gen_over = FALSE],
          deleted |-> GenDeleted(b), updated |-> TRUE]
    ELSE [bests |-> b, deleted |-> {}, updated |-> FALSE]

(***************************************************************************)
(* update_run_best                                                         *)
(***************************************************************************)
ReplacesRun_Fault(b, fitness) == b.run = Null \/ fitness < b.gen_fitness
ReplacesRun(b, fitness) == b.run = Null \/ fitness < b.run_fitness

RunDeleted_Fault(b) == IF b.run = b.gen THEN {b.run} \ {Null} ELSE {}
RunDeleted(b) == {b.run} \ {Null, b.gen}

UpdateRunBest(b, object, fitness, iter) ==
    IF ReplacesRun(b, fitness)
    THEN [bests |-> [b EXCEPT !.run = object, !.run_fitness = fitness, !.run_iter = iter],
          deleted |-> RunDeleted(b), updated |-> TRUE]
    ELSE [bests |-> b, deleted |-> {}, updated |-> FALSE]

GenDone(b) == [b EXCEPT !.gen_over = TRUE]

Held(b) == {b.gen, b.run} \ {Null}
=============================================================================
