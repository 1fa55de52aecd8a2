--------------------------------- MODULE Main ---------------------------------
(***************************************************************************)
(* The process from its command line to its end (main.cpp, runs.cpp): the  *)
(* runs of the file, one algorithm object after the other, and what they   *)
(* share although each is an object of its own: the factory of the         *)
(* instructions, sqlite's state and adjust_params' static average.         *)
(*                                                                         *)
(* The genetic algorithm is one step here: its loop is module Ga.  Of a    *)
(* run of it only the use of the static average is kept.  The random       *)
(* search is module RandSearch.                                            *)
(*                                                                         *)
(* What the program does after it has used freed memory, or memory beyond  *)
(* a vector, is undefined: it crashes, or goes on as if nothing had been.  *)
(***************************************************************************)
EXTENDS RandSearch

CONSTANT RunFiles   \* the files it may be given: sequences of tables

(* A table has whatever integers; complete: every key, of its type.        *)
RunTables ==
    [complete : BOOLEAN, pop_size : Int, ga_steps : Int, gene_bits : Int, num_genes : Int,
     max_pgm_size : Int, initial_proteins : Int, max_proteins : Int]

ASSUME MainAssumption == RunFiles \subseteq Seq(RunTables)

VARIABLES
    pc,         \* where main is, or how the process ended
    rand_alg,   \* rand_switch: random search or genetic algorithm
    file,       \* the tables under "runs" in the file
    runs,       \* Runs::runs
    index,      \* Runs::index
    factory,    \* InstrFactory::instance: "null", "live", or deleted: "freed"
    sqlite,     \* external: whether sqlite is initialized
    prev_avg,   \* adjust_params' static: the run whose average it is; 0: none
    ended,      \* history: the runs whose algorithm was destroyed
    undefined,  \* history: memory was used that is not the program's
    stale       \* history: a run was compared with the average of another

shared == <<rand_alg, file, runs, index, factory, sqlite, prev_avg>>
vars == <<pc, shared, run, search, ended, undefined, stale>>

NoRun == [pop_size |-> 0, ga_steps |-> 0, gene_bits |-> 0, num_genes |-> 0,
          max_pgm_size |-> 0, initial_proteins |-> 0, max_proteins |-> 0]

Init ==
    /\ pc = "read" /\ rand_alg \in BOOLEAN /\ file \in RunFiles
    /\ runs = << >> /\ index = 0 /\ run = NoRun
    /\ factory = "null" /\ sqlite = "fresh" /\ prev_avg = 0
    /\ ended = 0 /\ undefined = FALSE /\ stale = FALSE
    /\ NoSearch

Over == {"returned", "terminated", "exited", "crashed"}

(***************************************************************************)
(* Reading the file: a table in which a key is missing, or has a value of  *)
(* another type, throws, and nobody catches it.                            *)
(***************************************************************************)
ReadRun(table) ==
    [pop_size |-> table.pop_size, ga_steps |-> table.ga_steps, gene_bits |-> table.gene_bits,
     num_genes |-> table.num_genes, max_pgm_size |-> table.max_pgm_size,
     initial_proteins |-> Min({table.initial_proteins, table.max_proteins}),
     max_proteins |-> table.max_proteins]

Readable(tables) == \A k \in 1 .. Len(tables) : tables[k].complete

ParseRuns ==
    /\ pc = "read"
    /\ IF Readable(file)
       THEN runs' = [k \in 1 .. Len(file) |-> ReadRun(file[k])] /\ pc' = "next"
       ELSE runs' = << >> /\ pc' = "terminated"
    /\ UNCHANGED <<rand_alg, file, index, factory, sqlite, prev_avg, run, search, ended,
                   undefined, stale>>

(* The loop of main, with Runs::get_next.                                  *)
MoreRuns == index < Len(runs)
GetNext ==
    /\ pc = "next"
    /\ IF MoreRuns
       THEN run' = runs[index + 1] /\ index' = index + 1 /\ pc' = "construct"
       ELSE pc' = "returned" /\ UNCHANGED <<run, index>>
    /\ UNCHANGED <<rand_alg, file, runs, factory, sqlite, prev_avg, search, ended, undefined,
                   stale>>

(***************************************************************************)
(* Constructing the algorithm                                              *)
(***************************************************************************)
(* External: sqlite3_config is refused once sqlite is initialized, which   *)
(* opening a connection does.                                              *)
ConfigAccepted_Fault == TRUE
ConfigAccepted == sqlite = "fresh"

(* The Logger of Ga exits when it is refused.                              *)
LoggerStarts == rand_alg \/ ConfigAccepted

(* InstrFactory::create looks at the pointer only, and the constructor at  *)
(* the bits of the run that it is constructed for.                         *)
CreateExits == factory = "null" /\ ~ EnoughBits(run.gene_bits)
Created == IF factory = "null" THEN "live" ELSE factory

Construct ==
    /\ pc = "construct"
    /\ sqlite' = IF rand_alg THEN sqlite ELSE "initialized"
    /\ IF LoggerStarts /\ ~ CreateExits
       THEN factory' = Created /\ pc' = "run_alg" /\ StartSearch
       ELSE pc' = "exited" /\ UNCHANGED <<factory, search>>
    /\ UNCHANGED <<rand_alg, file, runs, index, prev_avg, run, ended, undefined, stale>>

(***************************************************************************)
(* Running it                                                              *)
(***************************************************************************)
(* The step uses memory that is not the program's, and may be the last.    *)
May(bad) == undefined' = (undefined \/ bad)

Crash ==
    /\ pc = "run_alg" \/ pc = "destroy"
    /\ factory = "freed" \/ (rand_alg /\ pc = "run_alg" /\ ReadsBeyondPop)
    /\ pc' = "crashed" /\ undefined' = TRUE
    /\ UNCHANGED <<shared, run, search, ended, stale>>

(* RandSearch::run_alg, a try or the end of an iteration at a time.        *)
Search ==
    /\ pc = "run_alg" /\ rand_alg /\ iteration < run.ga_steps
    /\ TryOne \/ NextIteration
    /\ May(factory = "freed" \/ ReadsBeyondPop)
    /\ UNCHANGED <<pc, shared, ended, stale>>

SearchEnds ==
    /\ pc = "run_alg" /\ rand_alg /\ iteration >= run.ga_steps
    /\ pc' = "destroy"
    /\ UNCHANGED <<shared, run, search, ended, undefined, stale>>

(* Ga::run_alg adjusts the parameters up to once a step; the first average *)
(* of all is less than the greatest number, later ones may be or not.      *)
Evolve ==
    /\ pc = "run_alg" /\ ~ rand_alg
    /\ \E adjusts \in BOOLEAN :
         /\ adjusts => run.ga_steps > 0
         /\ stale' = (stale \/ (adjusts /\ prev_avg \notin {0, index}))
         /\ prev_avg' \in IF ~ adjusts THEN {prev_avg}
                          ELSE IF prev_avg = 0 THEN {index} ELSE {prev_avg, index}
    /\ May(factory = "freed")
    /\ pc' = "destroy"
    /\ UNCHANGED <<rand_alg, file, runs, index, factory, sqlite, run, search, ended>>

(* The destructor deletes the factory; the pointer to it stays.            *)
Destroy ==
    /\ pc = "destroy"
    /\ factory' = "freed"
    /\ May(factory = "freed")
    /\ FreeBests
    /\ ended' = ended + 1
    /\ pc' = "next"
    /\ UNCHANGED <<rand_alg, file, runs, index, sqlite, prev_avg, stale>>

Next ==
    \/ ParseRuns \/ GetNext \/ Construct \/ Search \/ SearchEnds \/ Evolve \/ Destroy \/ Crash

(* One thread that waits for nothing.                                      *)
Spec == Init /\ [][Next]_vars /\ WF_vars(Next)

(***************************************************************************)
(* Properties                                                              *)
(***************************************************************************)
(* Memory that is not the program's is used only by a random search, in a  *)
(* run after the first or with more iterations than individuals.  The      *)
(* genetic algorithm, whose second run would use the deleted factory, is   *)
(* stopped before by sqlite's refusal (instr_factory.cpp:5-11,             *)
(* reg_sim.cpp:15, logger.cpp:17-21, rand_search.cpp:31).                  *)
UndefinedOnlyInLaterSearches ==
    undefined =>
        /\ rand_alg
        /\ index > 1 \/ run.ga_steps > run.pop_size

(* A run is never compared with the average of an earlier one, although    *)
(* the average outlives its run (ga.cpp:103).                              *)
AveragesAreOwn == ~ stale

(* A copy is on the heap as long as a best points to it, and no longer     *)
(* than that unless both refused it, which loses it for good; the run's    *)
(* best is the least fitness of all tries (rand_search.cpp:40-44,          *)
(* best_info.hpp:49-105).                                                  *)
CopiesAccounted ==
    pc = "run_alg" /\ rand_alg =>
        /\ copies = Held(bests) \cup refused
        /\ least # Unseen => bests.run_fitness = least

(* A program is evaluated only complete: every node has an instruction     *)
(* that takes its children, so that to_code never fails; and the tries of  *)
(* an iteration add to one tree, of at most as many nodes each as          *)
(* max_pgm_size (rand_search.cpp:35-44, 62-75, instr.hpp:27-32).           *)
ProgramsComplete ==
    pc = "run_alg" /\ rand_alg /\ HasRoot(ptype) =>
        /\ WellFormed(ptype) /\ NumUnfilled(ptype) = 0
        /\ Printable(ptype)
        /\ Size(ptype) <= tried * MaxPgmNodes

(* runs.cpp:57: "it's used to name the output directories ("run0", "run1", *)
(* etc.)": every run of a file of readable runs comes to its end.          *)
EveryRunEnds ==
    (Readable(file) /\ \A k \in 1 .. Len(file) : EnoughBits(file[k].gene_bits))
        => <>(ended = Len(file))
=============================================================================
