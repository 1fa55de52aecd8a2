# unicellular-grn in TLA+

unicellular-grn evolves small Lisp programs. An individual is a gene regulatory
network: genes bind proteins, produce others, and the concentrations of the
proteins grow a program tree and choose its instructions. A genetic algorithm
evaluates a population of such networks, crosses and mutates them, logs every
step to an SQLite database, and hands the database to two Python programs, one
that draws graphs of a run and one that shows its networks.

This directory holds a model of that program in TLA+, the TLC configurations
that check it on small instances, and TLAPS proofs about most of its parts: the
network at its core and the simulation that grows a program from it, the
genetic algorithm and the random search around them, the evaluation of a
program, the database that a run is logged to, the conversation over the socket
and the viewer's window. Paths below
are relative to the repository (`src/grn.cpp`); the line numbers in the modules'
comments leave out the directory.

    tlc -config RegSim_program.cfg MCRegSim   # a run
    tlapm RegSimProofs.tla                    # the proofs about the network and its simulation

`PROJECT.json` lists the components, the runs, the code lines that every
definition stands for, the hazards and the theorems.

## 1. The system

| Component | State | Operations | Uses, is used by |
|---|---|---|---|
| **Grn**, Gene, Protein, ProteinStore (`grn.cpp`, `gene.cpp`, `protein.cpp`, `protein_store.cpp`) | genes with their sequences, threshold, rate, `bound_protein`, `active_output`, `outputs`; the store `id_map`, `next_id`; `growth_seq`; the initial proteins | construction, `run_binding`, `update_output_proteins`, `run_diffusion`, `run_decay`, `reset`, the copy constructor | Diffusion; RegSim, Logger, crossover, mutation |
| **Diffusion** (`diffusion.cpp`) | none | one update of a protein's concentrations | Grn |
| **RegSim**, InstrDist (`reg_sim.cpp`, `instr_dist.cpp`) | `bests`, step counter | `update_fitness`, `grow_step`, `code_step2`; the draw of an instruction | Grn, Tree, FitnessFcn, BestInfo, Logger; Ga |
| **Tree**, Node, Phenotype (`tree.cpp`, `node.cpp`, `phenotype.cpp`) | nodes by id | `add_child`, `set_instr`, counts, `height`, `branching_factor`, `remove_child` | RegSim, RandSearch, FitnessFcn, Logger |
| **BestInfo** (`best_info.hpp`) | the best of the generation and of the run, which it owns | `update_gen_best`, `update_run_best`, `gen_done` | RegSim, Logger, RandSearch |
| **Ga** (`ga.cpp`) | population, fitnesses, `mut_prob`, `cross_frac`, static `prev_avg` | `run_alg`, `adjust_params`, `reset_proteins` | RegSim, Crossover, Mutation, Logger |
| **RandSearch** (`rand_search.cpp`) | a population of phenotypes, its bests | `run_alg`: grow and fill a program at random, evaluate it, offer a copy | Tree, InstrFactory, FitnessFcn, BestInfo; `main` |
| **InstrFactory**, Instr and subclasses (`instr_factory.cpp`, `instr.hpp`, `instrs/`) | the one factory of the process, the sizes of the parts of a sequence | `create_instr`, `rand_instr`, `seq_to_type`, `seq_to_val`, `args_ok` | BitVec; RegSim, RandSearch, Tree |
| **Runs** and `main` (`runs.cpp`, `main.cpp`) | the runs of the file, the position in them | `parse_runs`, `get_next`; construction and destruction of the algorithms | TOMLParser, Ga, RandSearch, InstrFactory |
| **TOMLParser** (`include/TOMLParser`) | none | `parse`, `get` | Runs |
| **Genetic operators** (`crossover.cpp`, `mutation.cpp`, `prob_dist.cpp`) | the population, in place | selection, crossover, elitism, mutation | Grn, BitVec; Ga |
| **BitVec** (`bitvec.cpp`) | blocks of bits | shifts, bitwise operators, conversions | Grn, operators |
| **Evaluation of programs**: FitnessFcn, Program, LispWorker | a child process, two pipes, a buffer | `eval`, `test_pgm`, `run`, `read_stream` | RegSim; `clisp` |
| **Logger** (`logger.cpp`) | an SQLite database in memory, its own bests | `log_ga_step`, `log_reg_snapshot`, `log_split_pt`, `log_fitnesses`, `write_db` | Ga, RegSim, Crossover |
| **VisAdapter** (`vis_adapter.cpp`), `vis/graph`, `vis/common/ipc.py` | a socket, one prepared statement, a script | `listen` and its commands; `select` | Logger's database |
| **Viewer** (`vis/view`, `vis/common`) | two picture caches, check boxes, the position in the run, the colours given so far | selects on the database, the events of the window, drawing | Logger's database |
| Rand, Utils, SineEvalor, tests, tclap | see section 7 | | |

The program has one thread. Concurrency enters where it forks: the clisp
process that runs a program while the program waits for it, and the graph
script that talks to it over a socket. Elsewhere the hard behaviour is the
order in which many small steps, written in different files, change state that
they share by pointer or by number:

* *Numbers for pointers.* Genes refer to proteins by id. A protein may be
  deleted while other genes are bound to it, and the ids start over with every
  simulation. Every `get` of the store is dereferenced unchecked.
* *Ownership.* BestInfo deletes what it replaces, unless its other pointer
  still names it.
* *Order across components.* The rows of a regulatory step refer to rows that
  another function, called from elsewhere, must have written; the loop of the
  genetic algorithm reads the Logger's best, which is not updated every step.
* *One process, several runs.* The algorithms are objects; the factory of the
  instructions, the configuration of SQLite and a static average are not, and
  outlive them.
* *Pictures kept.* The viewer draws a picture once and shows it later, when
  other boxes are checked and other pictures have been drawn in between.
* *Two processes.* A pipe that fills while nobody reads; a peer that dies; two
  sides that agree on the order of frames and on nothing else.
* *Arithmetic at its edges.* Erasing by indices, shifts over blocks, draws over
  cumulated weights, limits that several additions share.

What makes each component correct, and thus what is checked or proved:

* Grn: references between genes and proteins stay sound through creation,
  deletion and reset; a gene produces its own protein and only while regulated;
  an id names one protein for as long as a simulation lasts.
* RegSim and Tree: the tree stays within its limit and a tree; only nodes that
  exist are filled, once, with instructions that fit.
* InstrFactory: every sequence is an instruction and every instruction has a
  sequence.
* BestInfo and Ga: nothing is freed twice, lost or used after it is freed; the
  best really is the least; the loop stops when the cutoff was reached, and
  always.
* Operators: the population keeps its size, nothing of an old simulation
  survives in it, the fittest does.
* RandSearch: what is evaluated is a complete program; the bests account for
  every copy.
* Runs and `main`: every run of a file comes to its end; none works with what
  another left behind.
* TOMLParser: what is written in the file is what a run is configured with.
* Logger and the viewer's selects: the Logger never fails; what is shown is
  what happened.
* Viewer: what is shown is what its buttons and boxes say; a kept picture is the
  picture.
* LispWorker: a fitness of 0 is earned; the buffer suffices; no wait for ever
  but one.
* VisAdapter: frames are taken for what they are; a select gives its rows; both
  sides finish.

## 2. The modules

`X_Fault` is operator `X`, defined after it, as a plausible bug would have it;
no specification uses one. `PROJECT.json` pairs each with the property that it
breaks.

| Module | Models | Uses |
|---|---|---|
| `Diffusion` | `Diffusion::update_concs`; the levels of concentration | |
| `Grn` | the network under simulation, one gene at a time in the two loops that delete or create | `Diffusion` |
| `OutputErasure` | the index arithmetic of `run_diffusion` that `Grn` abstracts to a set | |
| `GeneExpression` | *abstract*: who produces what, who may refer to it | |
| `Tree`, `TreeWalks` | the program tree; its recursive walks and its text | `Instr` |
| `InstrDist` | the draw of an instruction | |
| `Instr` | sequences, types and values of instructions, what they accept | `BitVec` |
| `RegSim` | growth and coding during a simulation | `Grn`, `Tree`, `InstrDist` |
| `BestInfo` | the two bests and what they delete | |
| `Sampling` | `should_sample_ga_step` | |
| `Population` | what the operators do with the individuals | |
| `Ga` | the loop, parameters, stop, the bests of RegSim and of the Logger, on a population that the operators change | `BestInfo`, `Sampling`, `Population` |
| `Crossover`, `BitVec` | how a child is put together; bits | |
| `AlgorithmInput` | the `input` that the properties of the next three are about | |
| `Algorithms` | what the draw, the erasure, crossover and the bits should compute | `AlgorithmInput`, `InstrDist`, `OutputErasure`, `Crossover`, `BitVec` |
| `TreeAlgorithms` | what the walks of a tree should count | `AlgorithmInput`, `TreeWalks` |
| `InstrAlgorithms` | which instructions the bits of genes should stand for | `AlgorithmInput`, `Instr` |
| `LispWorker` | an evaluation with its clisp processes | |
| `Database`, `Logger` | the tables, the functions that write them and the viewer's selects; who calls them when | `Tree`, `BestInfo`, `Sampling` |
| `VisAdapter` | both ends of the socket | |
| `Viewer` | the window, its caches and its check boxes | `Database` |
| `RandSearch` | the random search | `BestInfo`, `TreeWalks` |
| `Main` | the process: the file's runs, one after the other | `RandSearch` |
| `Toml` | the parser of the configuration | |
| `TomlDocuments` | configurations as TOML v0.4.0 has them, and which of them are plain | `Toml` |
| `Lemmas` | what the proofs share: loops, powers of 2, induction over a tree's nodes, sets put in order, the bests, trees that are added to | `BestInfo`, `Tree` |
| `RegSimProofs` | theorems about the network, the erasure of its outputs, the program's growth and coding, and the draw of an instruction | `RegSim`, `Algorithms`, `Lemmas` |
| `GaProofs` | lemmas about the operators; theorems about the genetic algorithm, the children of a couple and the bits of a vector | `Ga`, `Algorithms`, `Lemmas` |
| `LispWorkerProofs` | theorems about an evaluation | `LispWorker` |
| `VisAdapterProofs` | theorems about the socket | `VisAdapter`, `Lemmas` |
| `MainProofs` | theorems about the process, the random search, the walks of a tree and the instructions of genes | `Main`, `TreeAlgorithms`, `InstrAlgorithms`, `Lemmas` |
| `ViewerProofs` | theorems about the window | `Viewer`, `Lemmas` |
| `LoggerProofs` | lemmas about the functions that write; theorems about the database | `Logger`, `Lemmas` |
| `MC*` | instances for TLC; `MCAlgorithms` also what the configuration should give | |

### Grn

A variable per field: `proteins` is `id_map` (a function from ids), `next_id`
and `growth_seq` are those of the code, `bound_protein`, `active_output` and
`outputs` are functions of the gene. `genome` and `initial_proteins` are what a
simulation does not change; `Init` takes every one. `phase`, `pos` and
`reg_step` are the loops' control. `Bind` is one turn of `run_binding` with
`update_binding` and `add` in it, `UpdateOutputProteins` the whole of
`update_output_proteins`, `RunDiffusion` one turn of `run_diffusion` with the
deletion and the search for bound genes, `RunDecay` and `SkipDecay` the end of
a step with or without decay, `Reset` the whole of `reset`.

Abstractions: a bit string is a function from positions; a concentration is an
integer level `0 .. MaxConc`, products with the diffusion weights and with the
decay rate are rounded down; a roulette draw is any protein that the wheel can
stop at, a candidate of no weight only where the wheel gives it one. The order
of `outputs` is in `OutputErasure`.

### RegSim and Tree

`RegSim` extends `Grn` with the tree `ptype`. `EndStep` is what
`update_fitness` does after the network's step: `grow_step`, then `code_step2`,
then decay unless the step codes. A tree is a record of its nodes; an
instruction is the sequence that it was made from, and which numbers of
arguments it takes is a constant. `InstrDist!Sample` is the loop of `sample()`;
`RegSim` uses `Drawn`, what that loop may give over all orders of the buckets,
which the algorithms run compares with the loop itself.

### BestInfo, Ga, Population, Crossover, BitVec

`BestInfo` is a value with operators that return the new value and what they
delete; the simulation, the Logger and the random search use the same. `Ga` is
the whole loop, in the order of `run_alg`: `EvaluateOne` for each individual,
`LogFitnesses`, `ResetProteins`, `AdjustParams`, `Iterate`, and, while it
continues, `Crossover` and `Mutate`. The heap is two sets, the snapshots of
RegSim and the copies of the Logger. `Population` gives it the individuals: of a
network only its genes, its initial proteins and whether a simulation ran since
its store was loaded. Fitnesses are chosen freely, so that a genotype may have
any. What an evaluation decides (the fittest, the couples, the rate of
mutation) is thus what the operators of the same behaviour work with.
`Crossover` and `BitVec` are the pure operators on slices and blocks.

### Instr, RandSearch, Main

`Instr` is the factory's arithmetic over `BitVec`, with the types that a file
may activate as a constant. `RandSearch` extends `BestInfo` and `TreeWalks`:
`TryOne` grows the iteration's tree by as many nodes as it draws, fills it
anew, evaluates it and offers a copy; `NextIteration` ends an iteration.
`Main` reads a file, a sequence of tables, and makes, runs and destroys an
algorithm for each. What runs share are three variables: `factory` (`"null"`,
`"live"` or, deleted and still pointed to, `"freed"`), `sqlite`
(`sqlite3_config` is refused once SQLite is initialized) and `prev_avg`, kept
as the number of the run whose average it is. Memory that is not the program's
may be read with or without a crash: `Crash` is enabled together with the step
that goes on. `Ga` is one step here, its loop is the module of that name.

### Toml

A text is a sequence of characters. The functions `read_*` give back a text and
a position, `parse_*` a tagged value; an outcome is a value, an exception, an
endless loop or the use of a null pointer, and an integer that nothing was
written to is `Garbage`. `TomlDocuments` writes values and documents down in
every layout that TOML v0.4.0 allows and says which documents are valid there and
what should be read from them (`AsWritten`, `Valid`, `Kept`). What the parser
departs in is named apart: `Delicate`, `ParentsFirst`, `NoneBelowNumber` and
`NoBraceInBrackets` say which inputs are plain. The numbers of a date stand for it;
the zone of the machine, which `mktime` adds, is left out.

### LispWorker

An evaluation runs two tests. For each, `Fork` starts a process with something
to write to each stream; it writes a character at a time and may die; the
evaluation waits for it, reads stdout to its end, then stderr. A text is its
length and whether it is the expected answer.

### Database and Logger

A table is a function from row numbers; the functions of the Logger insert the
rows that the code inserts, and set `failed` where the code finds an unexpected
number of rows and calls `exit(1)`. The selects of the viewer are operators on
the tables. The recursion of `insert_node` is the sequence of its calls
(`NodeCalls`). `Logger` calls the functions in the order of Ga, RegSim and Crossover. What a
simulation does is one of the constant `Simulations`: the state of the network
and of the tree at each of its steps.

### Viewer

An event of the window is an action: opening a run, a step button or its text,
a check box, the three buttons of all boxes and of the drawing, the
precomputation of a step. Each runs to its end. A picture of a program is named
after what it is of. A picture of a network is its key, the proteins plotted and
those drawn in the colour of an unknown one; the colours given so far are state
of the drawing. `recent` and `checked` are histories: the pictures last shown or
precomputed, and every box as it was left.

### VisAdapter

The queues of the socket hold frames with the type that the sender gave them.
The script sends the frames of a select one at a time and receives replies;
`Listen` takes one frame, and performs the command when its arguments are
complete. The script may die at any moment, a step may fail, a parameter of
type text makes Python raise (`bytes(str)`, `ipc.py:40`), and an empty result
makes `Run` raise. A cell is named after the statement, bindings, row and
column that it was read from.

## 3. The runs

The counts are those of distinct states. The violation runs each check
what the repository says of the program against what the code does.

| Run | Module, states | Question |
|---|---|---|
| `regsim_program` | MCRegSim, 841,650 | Do references, ownership and ids stay sound over whole simulations and resets? Does every behaviour implement `GeneExpression`? Do growth and coding keep the tree in bounds and fill it soundly? |
| `ga_loop` | MCGa, 372,432 | Who owns the bests, are they the least, which networks are evaluated, does the fittest survive, does the loop stop when and only when it should? |
| `algorithms_inputs` | MCAlgorithms, 14,922 | Do the pure algorithms and the instructions agree with reference definitions, and the configuration parser on plain configurations? |
| `lisp_evaluate` | LispWorker, 20,170 | Is a fitness of 0 earned, does the buffer hold what is stored, where can the evaluation hang? |
| `logger_db` | MCLogger, 44,985 | Do the rows fit together, and is what the viewer shows what happened? |
| `vis_select` | MCVisAdapter, 4,604 | Do the two processes understand each other, does a select return its rows? |
| `main_process` | MCMain, 22,638 | What do the runs of a process share, and what does the random search make of its copies and programs? |
| `viewer_events` | MCViewer, 89,062 | Is what is shown what was asked for, whatever is clicked, and what do the caches keep? |
| `regsim_chooses` | MCRegSim | `reg_sim.cpp:101` says when a node can be left empty; the draw of `instr_dist.cpp:37` leaves one empty in other cases. |
| `crossover_selection` | MCAlgorithms | Lower fitness is better; `1 - fitness` (`prob_dist.cpp:21`) selects the higher. |
| `config_promise` | MCAlgorithms | TOMLParser's `README.md:11` says that TOML v0.4.0 is supported, lines 212-214 that `parse` throws on invalid syntax; `k = [{ k="}" }]` is valid and is not read (`toml_parser.hpp:145`). |
| `main_runs` | MCMain | `runs.cpp:57` names a directory for each run of a file; the second run of the genetic algorithm is ended by SQLite's refusal (`logger.cpp:17`), that of the random search uses a factory that was deleted. |

What the passing runs show, by property:

* `NoDangling`: whatever another gene's diffusion deletes, every id that a gene
  keeps is in the store. `OutputsPartitionCreated`: created proteins are
  diffused and deleted by one gene, the one that made them; the initial
  proteins by none. `ProducesOwnWhileBound`: losing the binding in any of three
  ways also ends production. `IdsStable`: within a simulation an id stands for
  one protein. `ImplementsGeneExpression`: the refinement below.
* `TreeSound`: no matter how many positions exceed the growth threshold in one
  sample, the nodes are one tree of at most as many as the limit. `InstrsFit`:
  a node's instruction takes the children it has, in settings in which growth
  ends before coding starts, as in `sample_runs.toml`.
* `SnapshotsOwned`, `CopiesOwned`: no snapshot is deleted while named, none of
  RegSim's is lost. Of the Logger's copies only some of the initial population
  are lost. `RunBestIsLeast`, `LoggedBestIsLeast`: the bests are least, though
  the generation's is forgotten after each individual, and no population is made
  after a sampled step that reached the cutoff. `EvaluatedFresh`: although
  nothing is reset after the first evaluation, no individual is simulated on
  what an earlier simulation left in it. `EliteSurvivesCrossover`: with and
  without room for it. `RunEnds`.
* `Fades`, `OutputsAreKept`, `PairKeepsEveryGene`, `BlocksHoldTheBits`,
  `WalksCountEveryNode`, `DrawsAsTheLoop`: a protein that nobody produces falls
  below the minimum; the erasing loop keeps what it should; the two children of
  a couple have between them each slice of both parents once; the operators over
  several blocks are those of bit strings, but for shifts to the right by a
  block or more; counts, height and text of a tree are those of its definition.
* `EveryInstrHasASequence`: with enough bits per gene every active type, and
  every value unless the gene is shorter than the type twice, has a sequence,
  and every sequence an instruction.
* `PlainConfigIsRead`: a plain value, in any layout, is read back as it was
  written; documents of tables in the order of their parents are read just if
  TOML v0.4.0 allows them, with nothing lost and `[[a]]` in order; a text ends in a
  result or an exception. It says nothing of the inputs that are not plain: that
  the parser is right about those too is what `ParserKeepsItsPromise` states, and
  `config_promise` refutes. The run's first counterexample is a brace in a string
  of an inline table. Section 5 lists the others.
* `UndefinedOnlyInLaterSearches`, `AveragesAreOwn`, `CopiesAccounted`,
  `ProgramsComplete`: only a random search uses memory that is not its own, in a
  second run or beyond the end of its population; no run of the genetic
  algorithm is compared with the average of another, as none has a successor;
  every copy of a program is held by a best or was refused by both; what is
  evaluated is complete and can be printed.
* `ZeroMeansSolved`, `StoresInBuffer`, `EndsOrBlocks`: the last says that the
  only way for an evaluation not to end is the one it names, a process that
  writes more than a pipe holds before it is waited for (`lisp_worker.cpp:52`).
* `NeverFails`, `ShownIsObserved`, `FittestShown`, `OneGrnPerStep`.
* `CachedAreWhole`, `CachesHoldTheRecent`, `ShownIsCurrent`: a picture with
  proteins left out, or with a colour from before, never enters the cache; the
  caches hold the pictures last asked for, each once, and drop the one not used
  for longest; the picture shown is of the step and the individual that the buttons name, also after a move to a step that
  logged another individual.
* `Aligned`, `SelectGivesRows`, `ListensUntilExit`: the last says, too, that
  there is one way not to end: a script that ended without `exit`.

### Bounds, and why they are enough

* `regsim_program`: three genes, the least number with a middle position (which
  alone is capped) and with a gene that is neither the deleter nor the bound
  one; five steps and then a reset, two that grow, two that code, with a decay
  after the first two. `MCInit` has two kinds of individuals. The
  `Regulating` leave the network open: two sequences that bind only when equal,
  either of which a gene may bind and produce, so that two genes may have equal
  outputs; two rates, one whose protein survives its first diffusion and one that
  fades in it; the growth protein with every source, a gene of its own
  included, and just above the threshold or far above it, so that genes lose their
  binding by decay as well as by a deletion. The five steps create, delete and
  create again. The `Programming` leave the program open: every gene is bound where
  there is enough of the growth protein, and produces more of it or what codes;
  the limit of three nodes is reached in the middle of a sample. Of the four
  sequences one grows, one is a function's, two are terminals', so that a node
  could be filled a second time with something else, or grow after it was filled,
  if the code let it.
* `ga_loop`: two individuals of two genotypes (one allele of the genes, two of
  the initial proteins), which are a couple or none, so that the elite takes a
  child's place or has room; the evaluation before the loop and five steps of it
  with a sampling interval of three, so that two of the steps are not sampled;
  fitnesses below and above the cutoff, with averages that rise, fall and
  stay; `cross_frac` falls from the whole population to none and `mut_prob`
  rises from never to always, both in steps that overshoot their limits. The
  theorems of `GaProofs` hold for populations of every size.
* `algorithms_inputs`: blocks of three bits and vectors of up to eight, so that
  there are three blocks and every remainder; genes of three to eight bits; up
  to six outputs and every subset of them; up to six genes and every split
  point; up to four buckets in every order; every tree of up to five nodes;
  values two levels deep with four kinds of padding, each where TOML allows it; documents of up to three
  sections over four names; every text of up to four of nine characters.
* `main_process`, `main_runs`: files of up to two runs, each with one or two
  individuals and iterations, of which one may be incomplete, have too few bits
  per gene or no step; programs of up to two nodes more per try, so that a
  second try grows the first one's tree.
* `viewer_events`: a run logged whole, of two steps and two individuals, and one
  logged with its bests only; one regulatory step and the one before it; caches
  of two pictures, which three keys already overflow.
* `lisp_evaluate`: pipes of four characters and processes that write up to five
  to each; chunks of two, so that the buffer grows twice.
* `logger_db`: two individuals, three steps, two simulations whose protein 1 is
  not the same protein, all three log modes.
* `vis_select`: four scripts; up to two failing steps (`MaxErrors`).

Bounds that are the model's and not the code's: `MaxOut`, `MaxErr`, `MaxSize`
(LispWorker), `MaxErrors` (VisAdapter), `CrossUnit` (the denominator of the
fractions in `Population`), and the sets and numbers of inputs of
`MCAlgorithms`. The other constants are entries of the configuration file.
`CHECK_DEADLOCK FALSE` is set where the system stops: a finished run of the
genetic algorithm, an evaluation that is over or blocked, an ended script,
inputs that take no step. In `regsim_program` and `viewer_events` deadlock is
checked.

### Fairness

* `Ga`, `Main`: weak fairness of `Next`. The code is one thread in loops that
  wait for nothing.
* `LispWorker`: weak fairness of the evaluation and, separately, of the process
  while it can write or exit: the operating system runs both. `Die` is not
  fair, nothing makes a process die. That a process terminates once its text is
  written is justified by the programs: the instructions have no loops.
* `VisAdapter`: weak fairness of the script and of `Listen`, none of `Die`.
* `MCAlgorithms`: weak fairness of diffusion, which every step runs.

## 4. The proofs

### The network

`RegSimProofs` proves of `Spec` of `Grn`, for every number of genes (two or more), initial
proteins, steps and levels, every genome and every draw, under
`DiffusionAssumption` and `GrnAssumption` (the ranges of the constants):

* `TypeCorrect`, `NothingDangles`, `CreatedAreOwned`, `ProductionIsRegulated`:
  the invariants on the network of `regsim_program`, which checks them of
  `RegSpec`: `SimulatesTheNetwork` (below) says that every behaviour of it is one
  of `Spec`;
* `InitialProteinsSurvive`: the initial proteins, the growth protein among
  them, are never deleted during a simulation;
* `IdsNeverReused`: an id names one protein, of one sequence, source and
  interactions, until the simulation is over. It is an action property: one
  lemma shows that an action which only rewrites concentrations keeps what ids
  name (`RewritingKeepsIds`), one that a creation does (`ExpressKeepsIds`, as
  the new id is beyond those given), and `StepKeepsIds` goes through the rest.

None of these is inductive alone. Suppose only `NoDangling`: a diffusion step
deletes a protein of gene `pos` and clears `active_output` of `pos` and of the
genes that were bound to it. That no *other* gene produces it needs
`ProducesOwnWhileBound` (only `pos` could) and `OutputsPartitionCreated` (what
is deleted is `pos`'s own). Those in turn survive a creation only if the new id
is neither in the store (`TypeOK`: ids are below `next_id`) nor an initial
protein's (`InitialSurvive`). The inductive invariant `IInv` is the conjunction
of these with `NeverBoundToOwn` and with `ControlOK`, which keeps `reg_step`
in range. One lemma per action shows that it is preserved (`ReactivateInv`,
`ExpressInv`, `UnbindInv`, `UpdateOutputProteinsInv`, `RunDiffusionInv`,
`RunDecayInv`, `SkipDecayInv`, `ResetInv`); the actions that rewrite concentrations
only share `ConcsOnlyInv`. `FlowInRange`, `DiffuseType` and `DecayedType` are
the arithmetic: rounded diffusion and decay stay within `0 .. MaxConc`, also at
the two ends, which the code does not cap.

It also proves `Implements`: under the mapping of an id to the
`src_pos` of its protein, every behaviour of `Grn` is one of
`GeneExpression`. Binding maps to `Regulate` or `Silence`, a diffusion that
deletes to `Die`, a reset to `Restart`, everything else stutters. `IInv`
supplies what the mapping cannot see.

`Grn` has the outputs of a gene as a set and takes the faded ones from it at
once. `OnlyTheFadedAreErased` says that the code's loop does that: for every
vector and every set that fades, `Erased` of `OutputErasure` leaves exactly the
others, in their order. The invariant of the loop (`ErasureIs`) is that beyond
the last erased place everything has moved by the number of erasures, which is
what the index is corrected by.

### The simulation and the program

It proves of `RegSpec` of `RegSim`, for every network, configuration
and limit of the program's size:

* `SimulatesTheNetwork`: `RegSpec => Spec`. What the simulation adds leaves the
  network's steps what they are in `Grn`, so that all theorems about the
  network hold of it.
* `TreeStaysSound` (`TreeSound`). The invariant `TreeInv` is `IInv` of the
  network with the tree among `SoundTrees` and its size within the limit. A
  sample's growth adds a node for one position after the other. There are never
  more positions than there is room (`GrowIndicesBounded`: each has a rank of
  its own below the room), and any addition keeps the tree sound, whether its
  parent exists or not (`AddChildSound` in `Lemmas`).
  The node that a coding step fills is below the tree's size and so exists
  (`CodeStepIsNode`). Of `IInv` the step needs that the proteins which growth and
  instructions are read from have their types.
* `InstructionsFit` (`InstrsFit`), under the hypothesis `GrowthEnd < CodeStart`.
  `FitInv` adds that nothing is filled while the tree may grow. Without the
  hypothesis the statement is false: a filled node may be given another child.

### The genetic algorithm

`GaProofs` proves of `Spec` of `Ga`, for every size of the population, every set
of fitnesses, every setting of the two parameters and every choice of the
operators:

* `SnapshotsAreOwned`, `RunBestIsTheLeast`: who owns the snapshots, and that the
  run's best is the least. An update deletes by comparing pointers, so that
  neither is inductive: the snapshot of the current evaluation has to be none of
  those that the bests hold. `NamesOld` says so (what they hold is of an earlier
  step, or of an earlier individual of this one), and `BestsFollow` that the
  generation's best is over whenever an individual is evaluated and that
  `run_fitness` is the history's `least`. `GenUpdate`, `RunUpdate` and
  `GenDoneKeeps` say what the three operators of `BestInfo` return and delete,
  for any bests; `BestsNext` puts them together.
* `CopiesAreOwned`, `TheLoggerKnowsTheLeast`: of the Logger, which offers the
  whole population at once and only at sampled steps, that it never deletes a
  copy that a best names, that none is lost but of step -1 (so the copies on the
  heap are those named and, it may be, refused ones of the initial population),
  and what its bests are. `LogAfter` is
  what holds after the first `k` individuals of a step; `LogFitnessesLog` is the
  induction over them (`RoundsInduction`). An individual that is offered is
  taken by both bests or by neither; only at step -1 is one offered that is no
  fitter, and its copy lost.
* `EverySimulationIsFresh`, `TheFittestSurvives`: `PopInv` follows the
  population around the loop: which individuals have been simulated at which
  place, that the parameter `cross_frac` stays a fraction (`ClampKeeps`), and
  that `champion` is the fittest genotype until crossover is over. The operators
  enter by two lemmas, `CrossAllGives` (of any population,
  fitnesses and fraction: a population of the same size, all of whose members
  are new, one of them the fittest) and `MutateAllGives`. Beneath the first lie
  `CouplesFit`, the arithmetic by which the couples and the rest fill the
  population, `EliteGroup`, and `FittestExists`: a least fitness exists because
  the order of the numbers is well-founded (`NatMinimum`).

* `CouplesKeepEveryGene`, of `ChildGenes` of module `Crossover`: for any two
  parents of any number of genes and any split point that `crossover.cpp` draws,
  there is a bijection between the places of the children and those of the
  parents that gives every gene's first source, another that gives its second,
  and `pos` is the place. `FirstFrom` and `SecondFrom` are the two, `FirstTo` and
  `SecondTo` their inverses. `EveryGeneIsInAPair` is `PairKeepsEveryGene` from it.

They assume `GaAssumption` and `PopulationAssumption`: fitnesses are natural
numbers of which one is greatest (a float is at most the greatest float),
`cross_frac` and its limit are at most 1, and a null pointer is no snapshot.

### Draws, outputs, couples and bits

The properties of `Algorithms` are of one `input`, whose values TLC enumerates up to
a bound. The theorems hold for every value of it: of every length, weight and
order, and for blocks of every size.

* `KeptOutputsStay` (`OutputsAreKept`), from `OnlyTheFadedAreErased` above: the
  survivors put in order are what the reference, a fold over the outputs,
  appends one by one.
* `SamplesAreDrawn` (`DrawsAsTheLoop`), for natural weights and at least one spin. The order of the buckets is the address of a key, so that any
  bijection may be it. A bucket that can be drawn is drawn in an order that
  puts it at the right place, and the loop stops at the first bucket before
  which the weights already reach the spin (`SampleIs`).
* `EveryGeneIsInAPair` (`PairKeepsEveryGene`), above.
* `BlocksAreTheBits` (`BlocksHoldTheBits`), for bit strings of any length. A bit is at
  a block and an offset in it, a block is the number of its bits
  (`VectorOfBits`), and two vectors are the same if and only if they hold the
  same bits (`Hold`); every operation is then one on a bit. A shift by `d` is one by whole blocks and one
  by the rest, whose carry is the neighbouring block's. A number is what its
  prefixes build up (`NumberIs`), comes back by halving (`DividedNumber`), and two
  are ordered by the first bit in which they differ (`OrderIsOfNumbers`). Numbers
  are unbounded here; the code's are the 32 bits of an `unsigned int`.

A fold over a sequence is one over the set of its places, whose function exists
and is unique (`FoldExists`, `FoldUnique` in `Lemmas`): it takes the greatest
place first.

### The process and the random search

`MainProofs` proves of `Spec` of `Main`, for every set of files, every set of
fitnesses and every list of active types (`ProgramsAreComplete`: of those that take
any number of arguments):

* `UndefinedOnlyInSearches`, `NoAverageIsAnothers`: where memory is used that is
  not the program's, and that no run is compared with the average of another.
  The second holds for a reason that is nowhere written: `OneGaOnly`, no second
  genetic algorithm gets past its constructor, since the first one's SQLite is
  still initialized. `FreedByARun` says when the factory can be a deleted one.
* `CopiesAreAccounted`: every copy on the heap is a best or was refused.
  `BestsFollow` relates the two bests (both there from the first try on, the
  run's no less fit), so that an update of the run's is always one of the
  generation's too.
* `ProgramsAreComplete`: what is evaluated is complete, with the arguments that
  its instructions take, and its walk ends. The hypothesis `EveryNumberIsTaken`
  is needed: where no active type takes a node's children, `randomize_ptype`
  leaves the node as it was (`InstrsFor`), perhaps with no instruction, and
  evaluates the program all the same. `WhenEveryNumberIsTaken` shows that it
  holds of every list of types with one that takes no argument and one that
  takes any number from one on, as the list in `instr_factory.cpp:153` has with
  its constants and its four operations. `GrownSound` is an induction over the
  nodes added, `InstructedSound` says that filling every node makes a tree
  complete then, and `CompleteIsPrintable` goes from the last node to the root, as a
  child's number is greater than its parent's (`ChildrenAreYounger`).

These assume `MainAssumption` (a file's tables have the entries that `Runs`
reads, each a number), `RandSearchAssumption`, which is that of `Ga` on
fitnesses and says that an unfilled node is told from an instruction, and
`InstrAssumption`: the active types are a list, not empty, of types that the
factory knows.

### The walks of a tree

`MainProofs` also proves `WalksCountAllNodes`, that `WalksCountEveryNode` holds of
every tree that `add_child` built: of any number of nodes, of any shape and with any
set of nodes filled. Its hypotheses are `SoundTrees` with no node filled, which is
what `AddChildSound` keeps from the empty tree on, and that some instruction takes
each of the tree's numbers of children; otherwise `Filled` has nothing to fill a node
with. What is counted in parentheses are calls, as `to_code` writes them, and a call
need not have a child that prints.

A walk goes down through the lists of children, the reference up by the parents.
`TreesHaveAShape` gives what relates the two: every node but the root is in one
place of one list, its parent's, and is of a greater number than its parent. From it:

* What hangs below a node (`Below`, the least set that has it and each child of
  what it has) is the node and what hangs below its children
  (`BelowIsOfTheChildren`), which are apart from each other (`BranchesAreApart`). So
  what is of any set below a node is counted child by child (`CountedByChildren`).
* A walk is a recursive function, that is, one chosen to satisfy its equation. That
  one exists is shown by a closed form that does (`ChildrenAdd`,
  `DeepestOfChildren`), or for `to_code` by `SolutionExists`, as its value at a node
  depends on those at greater nodes only. What the chosen one is follows by
  induction down from the last node: for `get_bf_info` the sums it was given plus
  the nodes and the inner nodes below (`BranchesAreCounted`), for `calc_max_depth`
  the greatest depth of what is below (`HeightIs`), for `to_code` one token for
  every printed node below and two more for every call among them (`JoinedLength`,
  `TextLength`).
* The reference's own recursions go upward, to the parent. `DepthsExist` solves
  one with the number of the node as the rank. `PrintedIs` finds the other's
  values, `Hanging`: the greatest set of filled nodes that has the parent of each
  of them but the root.

### The instruction of a gene

`MainProofs` proves `InstrsHaveSequences`, that `EveryInstrHasASequence` holds
whichever types are active, of genes of up to a byte. Which types are is a list in the
code, parts of which are commented out (`instr_factory.cpp:153-164`); TLC checks the
list as it is. The hypotheses are that there is more than one type, so that a type
has bits at all, and that one of them has two constants to select from. Beyond a byte
the bits are read from the wrong block (section 5).

* `TypeIsRead`, `SelIsRead`: the two shifts and the reading of a number together
  give the first bits of a gene as the type's number, and as the selecting number
  the same number of bits after them, with zeros for those beyond the gene. They
  rest on what the operations of `BitVec` do with a vector of one block
  (`ByteOfBits`, `ShiftedRight`, `ShiftedLeft`, `NumberOfAByte`).
* The remainder by 2 of a number is its last bit (`LastBitIsTheParity`). So the
  second constant of a type is selected by the last of those bits, which a gene has
  just if it has twice the bits of a type (`InstrIs`).
* Conversely a gene can be given for each place in the list of types and each
  selecting bit (`EveryPlaceIsRead`): a number below a power of 2 is that of as many
  bits (`NumbersHaveBytes`), and the least such power that reaches the length of the
  list is what `TypeBits` is (`CeilLog2Is`).
* `AllInstrs`: what the draw by arguments may give, over all numbers of arguments,
  is exactly the active instructions.

### The evaluation of a program

`LispWorkerProofs` proves of `Spec` of `LispWorker`, for every capacity of the
pipes, every size of a chunk and every text:

* `BufferHolds`: what is read, with its terminating zero, is in the allocated
  buffer;
* `ZeroIsEarned`: a fitness of 0 is given only to a program both of whose
  processes wrote the expected answer and nothing else.

For the second, what a test gave is spread over the pipes and the buffer while
it is read. `Earned` says at every place whether this test will be counted;
`passed` and the history `solved` differ by just that (`CountOK`). It needs
`AnswerLength >= 2`: the answer is a number and the newline that print writes. Were
it empty, a process that wrote nothing would have given it.

### The socket

`VisAdapterProofs` proves of `Spec` of `VisAdapter`, for every script, every
number of rows of every statement and any number of failing steps:

* `FramesAreTaken` (`Aligned`): whatever the two sides are at, the frames
  that the server still takes begin with a command, and each command is followed by
  the arguments that it takes;
* `SelectsAreAnswered` (`SelectGivesRows`): the result of a select is its rows,
  all of them unless a step failed.

Neither side knows where the other is. The invariant is about one stream,
`Pending`: the frames of the call being received, those in the socket, and those
that the script has still to send. Passing a frame on does not change it. It is
`Framed`, that is, parses into calls from its first frame to its last wherever it
is cut, which is all that is left when the script dies in the middle of a call. And while
the script lives it is `Served`: one of the streams that a select can still have
ahead of it (the opening, the rest of its bindings, a step, a column, or nothing
while an answer is under way), each with the statement, the rows read and the
answers in the socket that go with it. One lemma per call says how taking it
changes that (`OpensTaken`, `BindsTaken`, `StepTaken`, `ColumnTaken`,
`FinalizeTaken`). `VisAdapterAssumption` says only what scripts and numbers of
rows are.

### The viewer's window

`ViewerProofs` proves of `Spec` of `Viewer`, for every set of runs and every
size of the caches:

* `CachesKeepWholePictures` (`CachedAreWhole`), `CachesKeepTheRecent`
  (`CachesHoldTheRecent`), `ShowsTheCurrent` (`ShownIsCurrent`).

The invariant `IInv` is `ShownIsCurrent` with

* `PicturesOK`: the caches are of at most `CacheSize` whole pictures, no key
  twice, all of the open run, and `recent` has their keys in their order.
  `MovedIs` and `InsertedIs` say that this is kept by a hit and by a miss, also
  of a full cache; `PrecomputedIs` is the induction over the pictures of a
  precomputation;
* `ButtonsOK`: the three indices are in the range of their steps, which are the
  distinct values of a column in order (`DistinctIs`: an order by rank gives each once).
  With `log_mode = "best"` the button of the individuals has one place, and
  `UpdateViews` sets it after a move to another step;
* `Loaded`, `BoxesOK`: the content is that of the open run's database, and every
  box shown was once set.

`ViewerAssumption` says what the Logger leaves behind: tables of their types;
at least one network; with `log_mode = "all"` a network for every sampled step
and individual (`logger.cpp:514-531`); a state for every protein that a gene
refers to. The last is what `NothingDangles` gives: a gene's proteins are in the
store, and `log_reg_step` writes the whole store (`logger.cpp:598-686`, `737-806`).
Without it a picture could be kept that lacks a protein's colour. TLC evaluates
the assumption on the databases of `viewer_events`, which the functions of
`Database` wrote.

### The Logger

`LoggerProofs` proves of `Spec` of `Logger`, for every size of the population,
number of genes and steps, interval of sampling, set of log modes, set of
simulations and set of couples:

* if `LogGrns`, `NothingIsMissing` (`NeverFails`), `OneNetworkPerStep`
  (`OneGrnPerStep`) and `WhatIsShownWasObserved` (`ShownIsObserved`), from its
  two parts, `StatesAreShown` of curves and genes and `TreesAreShown` of
  programs;
* if `LogRegSteps` too, `TheFittestIsShown` (`FittestShown`).

The hypotheses are switches of the configuration (`run.hpp`), and needed.
Without `log_grns` the table that split points are written to does not exist,
and the first couple ends the program (section 5). Without `log_reg_steps` no
network is written with `log_mode = "best"`, and the viewer has none to name.

The invariant `IInv` is

* `DbOK`: the database is `Sound` and has no network of a later step, so that the
  names that `log_ga_step` inserts are new. Sound is that nothing has failed and
  that every network has the rows of its genes. It says nothing of proteins:
  `WithProteinsIs` shows that each is there by the time that the genes of the
  same regulatory step refer to it;
* `BestsOK`: the run's best names an individual that was simulated, in the step
  that `run_iter` says, and `run_best_updated` is exactly that it is of the
  current one (`OfThisStep`). So a network that `update_fitness` logs at the end
  of an evaluation is not of an earlier step;
* `OneOfEach`: with `log_mode = "best"` no step has two networks, and the current
  one has none while its evaluation lasts;
* `StateOK`: types and where `run_alg` is.

`ShownInv` adds, per log mode, how far the rows have come. `AllThere`: every fitness
is of a network that is there. `BestThere`: no logged fitness is less than the run's
best, whose network and fitness are both there unless it is of the current step,
whose network is written at the end of the evaluation and whose fitness after it.

`RowsOK` relates the rows to `observed`, which has what was logged as it was when it
was logged. `Closed`: every row of a state is of an observed individual's network and
holds what was observed of that protein or gene at that step; there is at most one
row for each; and a network with any such row has all of them for every step of its
simulation, the phenotype's included, as `update_reg_sim` writes a simulation at
once. `PastNames`: only
individuals of this or an earlier step were observed, so that a simulation which is
logged was not logged before, and its rows meet no older ones of the same key.

Of trees, `Closed` has `TreesTrue`: every row of a tree is of a phenotype whose
program has a root, every such phenotype has one, and the rows of its nodes are an
encoding of the program (`Encodes`): one row without a parent, and a function from
rows to nodes such that each row has its node's instruction and its node's children
are, in their order, the rows that refer to it, by ascending number. That the viewer
makes of such rows what was observed takes two inductions.

* `NodeCallsAre`, of the writer. `insert_node` calls itself for each child before
  it returns to the next, so that a node's row precedes those of its children,
  and ids are given in that order. `NodeCalls` has its calls round by round; the
  lemma says what is true of them between two rounds. No node is called for
  twice, every call but the root's names the row of its node's parent, and the nodes
  before the round's have all their children among the calls. There are no more
  calls than nodes, each being of a node of its own, so that after as many rounds
  as nodes none is left whose children have not been called.
* `ViewsAgree`, of the reader. A view is a function over numbers, of nodes in the
  tree and of rows in the database, and refers only to greater ones: a child's
  id is greater than its parent's, as is its row's. Two such functions, one
  over each, agree on every row and its node, by induction down from the
  greatest number.

Each function that writes has a lemma that says which rows it leaves alone and
that the result is `Sound`. Those that write in a loop are inductions over its
rounds (`LogRegSnapshotIs`, `WithGrnsIs`, `CrossedIs`).

`LoggerAssumption` says of `Simulations` what the other components give: fitnesses
are numbers, and an `Observation` has its genes refer to proteins of the network,
which is `NothingDangles` of section "The network", and its tree be a program that
`add_child` built (`IsProgram`), which is `TreeStaysSound` of section "The
simulation and the program". Of `Couples` it says only that
they are pairs of indices with a split point.

### Induction

The library's induction theorems take an operator as a parameter, which the
installed provers do not instantiate. `Lemmas` states induction over sets
instead: `NatSetInduction`, that a set of naturals with 0 and every successor is
all of them, from the well-foundedness of their order; `RunExists`, that a
function defined round by round exists; `RoundsInduction`, that a set which every
round stays in holds the last; `SubsetInduction`, that a family which a
subset of a finite set joins once all smaller ones have joined has all of them;
`UpwardInduction` and `DownwardInduction`, over the nodes of a tree from either end;
`SolutionExists`, that a function exists whose value somewhere depends on its values
in places of less rank.
`FoldExists` and `FoldUnique` compute the folds of the community modules from
it. A proof cites them with the set `{n \in Nat :
P(n)}` of its own `P`. `InOrder` is proved that way: the rank by which a set is
put in order takes every place once. Recursion in the modules that are proved
about is by recursive functions.

### What is only model-checked

* Liveness (`Fades`, `RunEnds`, `EndsOrBlocks`, `ListensUntilExit`), which the
  prover does not reach.
* `PlainConfigIsRead`: `Toml` and `TomlDocuments` are written with recursive
  operators, which the prover does not take.

## 5. Observed while modelling

Each of these was read in the code next to the sentence or the line that it
disagrees with. Only the parser's has a run.

* Two proteins with one sequence never share a bucket: `Protein::compare`
  (`protein.cpp:56`) compares addresses, `reg_sim.cpp:125-127` expects one
  bucket per sequence. The order of the buckets is that of the heap, so that
  runs with one seed may differ.
* `get_by_seq` (`gene.cpp:74`) returns the first protein with the sequence. If
  that is another gene's, a gene whose own output is alive creates a second
  copy of it.
* `runs.hpp:27` says that proteins are deleted when all their concentrations
  dip below `min_protein_conc`. An initial protein never is, as it is in no
  gene's outputs (`grn.cpp:164`).
* With `log_mode = "best"` a step is logged only if it has a new run best
  (`reg_sim.cpp:71`), where `sample_runs.toml:52` reads as if every iteration
  was.
* `term_cutoff` is compared with the Logger's best (`ga.cpp:58`), which only
  sampled steps update: the loop may pass it.
* The elite is mutated like everyone else (`mutation.cpp:11`).
* Mutation changes initial proteins in place; the store, copied at
  construction, keeps the old ones for the next simulation, and so does
  `growth_seq` (`mutation.cpp:20`).
* `mutate_bitset` never counts what it flipped, so that its limit has no effect
  (`mutation.cpp:47-56`).
* `BitVec::operator>>=` by a block or more, and `to_uint` and `from_uint` of
  more than eight bits that are not whole blocks, do not give the expected bits
  (`bitvec.cpp:214-227`, `54-81`). A sequence of more than eight bits thus has
  its type read from another block than the one it is in.
* `crossover.cpp:221` says "take first part of left and second part of right";
  the shifts of lines 224-230 keep the first part of both, and `|` joins them.
* `crossover.cpp:12` says "we are crossing the initial proteins"; line 37 takes
  both parts from the first parent.
* With fewer bits per gene than twice those of a type, which the factory's own
  check accepts, the variable x1 and the constant 1 have no sequence
  (`instr_factory.cpp:28-31`, `78-94`).
* `test.cpp:159` names the instruction of `01010000` `if_instr`; with the types
  of the factory it is a multiplication's.
* `setup.sh:7` makes `sample_runs.toml` the configuration, which lacks
  `max_pgm_size`: `runs.cpp:22` asks for it with `at`, which throws, and nothing
  catches it.
* TOMLParser's `README.md:11` says that it "supports [TOML v0.4.0]", and lines
  212-214 that "If the syntax is invalid or some sort of an internal error
  occurs, exception `toml::syntax_error` or `toml::internal_error` is thrown by
  the function `toml::parse`". `ParserKeepsItsPromise` states both, and
  `config_promise` breaks it with a brace in a string of an inline table
  (`toml_parser.hpp:145`). The same property has these counterexamples:
  valid text refused or misread: a string that ends in a backslash (`:188`), an offset
  that is added with the wrong sign (`:498`), `[a]` after `[a.b]` (`:975`);
  invalid text that ends in no exception: a table below a number, looked
  for through a null pointer (`:987`), and `[1}`, which is read for ever (`:109`).
  Not in the property's inputs are an array whose comma is missing (`[1 2]` is
  12), `a =`, an integer that nothing was written to, a key given twice, which
  overwrites the first, a date with a small `z`, which is classified as one and
  then refused, and a table's name at the end of a file without a newline, which is
  refused.
* The viewer keeps check boxes by the number of a protein
  (`protein_frame.py:49`): a box unchecked for one individual is unchecked for
  the protein of that number in every other. The colour of a gene's box whose
  protein is hidden depends on what was drawn before
  (`graph_gen.py:236-245`, `307-311`); such pictures are never kept. The window
  does not open on a run of which no network was logged.
* Without `log_grns` the table that `log_split_pt` updates does not exist: the
  first crossover ends the program (`logger.cpp:505-522`). Two indices share
  one name (`logger.cpp:201`, `237`), so that the second is never created.
* A parameter of type text cannot be bound from the script
  (`ipc.py:40`); `vis_adapter.cpp:106` removes `./pipe`, the socket is
  elsewhere.
* `Tree::remove_child` erases while it iterates (`tree.cpp:145`); nothing calls
  it.
* The image cache drops the least recently used picture, its comment says the
  oldest (`view_window.py:205`).

## 6. The plan

Done, with proofs: the network and its abstract specification; program growth
and coding; the bests, the loop and the operators, composed; the evaluation;
graphs over IPC; the random search and the runs of a process; the viewer's
window; the database and who writes it; draws, outputs, couples and bits; the walks of a
tree; instructions. Done, model-checked: the configuration parser.

Next, in this order:

1. *Abstract specifications*: an evaluation as one atomic step that gives a
   fitness (implemented by `LispWorker`), a select as one atomic read
   (implemented by `VisAdapter`), a best-so-far register (implemented by `Ga`
   and by `RandSearch`).
2. *Logger*: `log_run`, `print_results`, and a run without `log_grns`, which
   the first crossover ends. Hazard: `logger.cpp:505`.

## 7. Not modelled, and why

* Random numbers: a draw is a choice. What depends on rounding of floats, such
  as the spin left over at the end of a wheel (`grn.cpp:139`,
  `prob_dist.cpp:47`), has no counterpart.
* Memory that is read after it is freed within one statement
  (`protein_store.cpp:54`): no state tells the outcomes apart.
* `code_step`, `test_pgm2`, `VisAdapter::read_stream`, `Tree::remove_child`,
  SineEvalor: nothing calls them. The tests of `test.cpp` print values that
  nothing compares.
* The command line (tclap): which algorithm, and which file, is a choice of
  `Main`'s initial state.
* Escapes by a character's code in the configuration, and the digits of
  fractions of a second.
* The pixels of the viewer's pictures, its dialogs, saving and animations.
* Drawing, printing, layout.
