------------------------------ MODULE MainProofs ------------------------------
(***************************************************************************)
(* The process, proved for every file of runs and every set of fitnesses:  *)
(* where it uses memory that is not the program's, that no run is compared *)
(* with the average of an earlier one, which copies a random search has on *)
(* the heap, and that every program it evaluates is complete; and, of a    *)
(* program tree of any size, that its walks count every node, and of any   *)
(* choice of active types, which instructions the bits of a gene stand     *)
(* for.                                                                    *)
(***************************************************************************)
EXTENDS Main, TreeAlgorithms, InstrAlgorithms, Lemmas

InRun == {"construct", "run_alg", "destroy"}

(***************************************************************************)
(* The runs, the factory and sqlite                                        *)
(***************************************************************************)
Numbers(r) == {r.pop_size, r.ga_steps, r.max_pgm_size, r.num_genes} \subseteq Int

ControlOK ==
    /\ rand_alg \in BOOLEAN
    /\ pc \in {"read", "next"} \cup InRun \cup Over
    /\ file \in RunFiles
    /\ index \in Nat /\ (pc \in InRun => index > 0)
    /\ iteration \in Nat /\ tried \in Nat
    /\ Numbers(run) /\ \A k \in 1 .. Len(runs) : Numbers(runs[k])

(* The factory is deleted only when a run has ended, ...                   *)
FreedByARun ==
    factory = "freed" => index > (IF pc \in InRun THEN 1 ELSE 0)

(* ... and a second genetic algorithm is not constructed: the first one's  *)
(* sqlite makes the Logger exit.                                           *)
OneGaOnly ==
    ~ rand_alg =>
        /\ sqlite = "fresh" => factory # "freed" /\ prev_avg = 0
        /\ pc \in {"run_alg", "destroy"} => factory # "freed" /\ sqlite # "fresh"
        /\ pc = "run_alg" => prev_avg = 0

UndefinedWhere ==
    undefined => rand_alg /\ index > 0 /\ (index > 1 \/ run.ga_steps > run.pop_size)

MainInv == ControlOK /\ FreedByARun /\ OneGaOnly /\ UndefinedWhere /\ AveragesAreOwn

(***************************************************************************)
(* The copies of a random search                                           *)
(***************************************************************************)
BeforeTry(copy) == copy[1] < iteration \/ (copy[1] = iteration /\ copy[2] < tried)

(* The bests of the generation and the run are both there from the first   *)
(* try on, and the run's is no less fit.                                   *)
BestsFollow ==
    /\ bests \in BestsType
    /\ least \in Nat
    /\ bests.gen = Null <=> bests.run = Null
    /\ bests.run = Null => least = Unseen
    /\ bests.run # Null => bests.run_fitness = least /\ least <= bests.gen_fitness

CopiesOwned ==
    /\ copies = Held(bests) \cup refused
    /\ Held(bests) \cap refused = {}
    /\ \A copy \in copies : copy \in Names /\ BeforeTry(copy)

SearchInv == pc = "run_alg" /\ rand_alg => BestsFollow /\ CopiesOwned
-----------------------------------------------------------------------------
LEMMA RunsOfTheFile ==
    ASSUME NEW tables \in RunFiles, NEW k \in 1 .. Len(tables)
    PROVE  Numbers(ReadRun(tables[k]))
<1>1. tables \in Seq(RunTables)
  BY MainAssumption
<1>2. tables[k] \in RunTables
  BY <1>1
<1> QED BY <1>2 DEF RunTables, ReadRun, Numbers

LEMMA MainInit == Init => MainInv
<1> SUFFICES ASSUME Init PROVE MainInv
  OBVIOUS
<1>1. ControlOK
  BY DEF Init, NoSearch, NoRun, Numbers, ControlOK, InRun
<1> QED BY <1>1 DEF Init, MainInv, FreedByARun, OneGaOnly, UndefinedWhere, AveragesAreOwn, InRun

LEMMA ParseRunsMain == MainInv /\ ParseRuns => MainInv'
<1> SUFFICES ASSUME MainInv, ParseRuns PROVE MainInv'
  OBVIOUS
<1> USE DEF MainInv, ControlOK
<1>1. /\ pc = "read" /\ pc' \in {"next", "terminated"}
      /\ UNCHANGED <<rand_alg, file, index, factory, sqlite, prev_avg, run, search, undefined, stale>>
  BY DEF ParseRuns
<1>2. runs' = << >> \/ runs' = [k \in 1 .. Len(file) |-> ReadRun(file[k])]
  BY DEF ParseRuns
<1>3. \A k \in 1 .. Len(runs') : Numbers(runs'[k])
  <2>1. CASE runs' = << >>
    BY <2>1
  <2>2. CASE runs' = [k \in 1 .. Len(file) |-> ReadRun(file[k])]
    <3>1. Len(file) \in Nat
      BY MainAssumption
    <3>2. Len(runs') = Len(file)
      BY <2>2, <3>1
    <3> QED BY <2>2, <3>2, RunsOfTheFile
  <2> QED BY <1>2, <2>1, <2>2
<1>4. ControlOK'
  BY <1>1, <1>3 DEF InRun, Over, search
<1> QED BY <1>1, <1>4 DEF FreedByARun, OneGaOnly, UndefinedWhere, AveragesAreOwn, InRun

LEMMA GetNextMain == MainInv /\ GetNext => MainInv'
<1> SUFFICES ASSUME MainInv, GetNext PROVE MainInv'
  OBVIOUS
<1> USE DEF MainInv, ControlOK
<1>1. /\ pc = "next"
      /\ UNCHANGED <<rand_alg, file, runs, factory, sqlite, prev_avg, search, undefined, stale>>
      /\ \/ pc' = "construct" /\ run' = runs[index + 1] /\ index' = index + 1 /\ index < Len(runs)
         \/ pc' = "returned" /\ UNCHANGED <<run, index>>
  BY DEF GetNext, MoreRuns
<1>2. Numbers(run') /\ index' \in Nat
  <2>1. CASE index < Len(runs) /\ run' = runs[index + 1] /\ index' = index + 1
    <3>1. index + 1 \in 1 .. Len(runs)
      BY <2>1
    <3> QED BY <2>1, <3>1
  <2> QED BY <1>1, <2>1
<1>3. ControlOK'
  BY <1>1, <1>2 DEF InRun, Over, search
<1> QED BY <1>1, <1>3 DEF FreedByARun, OneGaOnly, UndefinedWhere, AveragesAreOwn, InRun

LEMMA ConstructMain == MainInv /\ Construct => MainInv'
<1> SUFFICES ASSUME MainInv, Construct PROVE MainInv'
  OBVIOUS
<1> USE DEF MainInv, ControlOK
<1>1. /\ pc = "construct" /\ pc' \in {"run_alg", "exited"}
      /\ UNCHANGED <<rand_alg, file, runs, index, prev_avg, run, undefined, stale>>
      /\ sqlite' = IF rand_alg THEN sqlite ELSE "initialized"
      /\ factory' \in {factory, Created}
      /\ iteration' \in Nat /\ tried' \in Nat
      /\ pc' = "run_alg" => LoggerStarts
  BY DEF Construct, StartSearch, search
<1>2. factory' = "freed" => factory = "freed"
  BY <1>1 DEF Created
<1>3. ControlOK'
  BY <1>1 DEF InRun, Over
<1>4. FreedByARun' /\ UndefinedWhere' /\ AveragesAreOwn'
  BY <1>1, <1>2 DEF FreedByARun, UndefinedWhere, AveragesAreOwn, InRun
<1>5. OneGaOnly'
  BY <1>1, <1>2 DEF OneGaOnly, LoggerStarts, ConfigAccepted
<1> QED BY <1>3, <1>4, <1>5

(* What is undefined here is so in a later search, or in one with more     *)
(* iterations than individuals.                                            *)
LEMMA BadUseWhere ==
    ASSUME MainInv, pc \in {"run_alg", "destroy"},
           factory = "freed" \/ (rand_alg /\ ReadsBeyondPop)
    PROVE  rand_alg /\ index > 0 /\ (index > 1 \/ run.ga_steps > run.pop_size)
<1> USE DEF MainInv, ControlOK
<1>1. index > 0 /\ rand_alg
  BY DEF OneGaOnly, InRun
<1>2. CASE factory = "freed"
  BY <1>1, <1>2 DEF FreedByARun, InRun
<1>3. CASE ReadsBeyondPop
  BY <1>1, <1>3 DEF ReadsBeyondPop, Numbers
<1> QED BY <1>2, <1>3

LEMMA SearchMain == MainInv /\ (Search \/ SearchEnds) => MainInv'
<1> SUFFICES ASSUME MainInv, Search \/ SearchEnds PROVE MainInv'
  OBVIOUS
<1> USE DEF MainInv, ControlOK
<1>1. /\ pc = "run_alg" /\ rand_alg /\ pc' \in {"run_alg", "destroy"}
      /\ UNCHANGED <<rand_alg, file, runs, index, factory, sqlite, prev_avg, run, stale>>
      /\ iteration' \in Nat /\ tried' \in Nat
      /\ undefined' => undefined \/ factory = "freed" \/ ReadsBeyondPop
  <2>1. CASE SearchEnds
    BY <2>1 DEF SearchEnds, shared, search
  <2>2. ASSUME Search PROVE run' = run /\ iteration' \in Nat /\ tried' \in Nat
    <3>1. CASE TryOne
      BY <3>1 DEF TryOne
    <3>2. CASE NextIteration
      BY <3>2 DEF NextIteration
    <3> QED BY <2>2, <3>1, <3>2 DEF Search
  <2>3. CASE Search
    BY <2>2, <2>3 DEF Search, shared, May
  <2> QED BY <2>1, <2>3
<1>2. ControlOK'
  BY <1>1 DEF InRun
<1>3. FreedByARun' /\ AveragesAreOwn' /\ OneGaOnly'
  BY <1>1 DEF FreedByARun, AveragesAreOwn, OneGaOnly, InRun
<1>4. UndefinedWhere'
  BY <1>1, BadUseWhere DEF UndefinedWhere
<1> QED BY <1>2, <1>3, <1>4

LEMMA EvolveMain == MainInv /\ Evolve => MainInv'
<1> SUFFICES ASSUME MainInv, Evolve PROVE MainInv'
  OBVIOUS
<1> USE DEF MainInv, ControlOK
<1>1. /\ pc = "run_alg" /\ ~ rand_alg /\ pc' = "destroy" /\ factory # "freed" /\ prev_avg = 0
      /\ sqlite # "fresh"
      /\ UNCHANGED <<rand_alg, file, runs, index, factory, sqlite, run, search>>
      /\ undefined' => undefined \/ factory = "freed"
  BY DEF Evolve, May, OneGaOnly
<1>2. ~ stale'
  BY <1>1 DEF Evolve, AveragesAreOwn
<1>3. ControlOK'
  BY <1>1 DEF InRun, search
<1> QED BY <1>1, <1>2, <1>3 DEF FreedByARun, AveragesAreOwn, OneGaOnly, UndefinedWhere, InRun

LEMMA DestroyMain == MainInv /\ Destroy => MainInv'
<1> SUFFICES ASSUME MainInv, Destroy PROVE MainInv'
  OBVIOUS
<1> USE DEF MainInv, ControlOK
<1>1. /\ pc = "destroy" /\ pc' = "next" /\ factory' = "freed"
      /\ UNCHANGED <<rand_alg, file, runs, index, sqlite, prev_avg, run, iteration, tried, stale>>
      /\ undefined' => undefined \/ factory = "freed"
  BY DEF Destroy, FreeBests, May
<1>2. ControlOK'
  BY <1>1 DEF InRun
<1>3. FreedByARun' /\ AveragesAreOwn' /\ OneGaOnly'
  BY <1>1 DEF FreedByARun, AveragesAreOwn, OneGaOnly, InRun
<1>4. UndefinedWhere'
  BY <1>1, BadUseWhere DEF UndefinedWhere
<1> QED BY <1>2, <1>3, <1>4

LEMMA CrashMain == MainInv /\ Crash => MainInv'
<1> SUFFICES ASSUME MainInv, Crash PROVE MainInv'
  OBVIOUS
<1> USE DEF MainInv, ControlOK
<1>1. /\ pc \in {"run_alg", "destroy"} /\ pc' = "crashed"
      /\ UNCHANGED <<rand_alg, file, runs, index, factory, sqlite, prev_avg, run, search, stale>>
      /\ factory = "freed" \/ (rand_alg /\ ReadsBeyondPop)
  BY DEF Crash, shared
<1>2. ControlOK'
  BY <1>1 DEF InRun, Over, search
<1>3. FreedByARun' /\ AveragesAreOwn' /\ OneGaOnly'
  BY <1>1 DEF FreedByARun, AveragesAreOwn, OneGaOnly, InRun
<1>4. UndefinedWhere'
  BY <1>1, BadUseWhere DEF UndefinedWhere
<1> QED BY <1>2, <1>3, <1>4

LEMMA MainStays == MainInv /\ [Next]_vars => MainInv'
<1>1. MainInv /\ UNCHANGED vars => MainInv'
  BY DEF MainInv, ControlOK, FreedByARun, OneGaOnly, UndefinedWhere, AveragesAreOwn, ReadsBeyondPop,
         vars, shared, search
<1> QED BY <1>1, ParseRunsMain, GetNextMain, ConstructMain, SearchMain, EvolveMain, DestroyMain,
           CrashMain DEF Next

(* Memory that is not the program's is used by a random search only, in a  *)
(* run after the first or with more iterations than individuals; never by  *)
(* the genetic algorithm (instr_factory.cpp, logger.cpp).                  *)
THEOREM UndefinedOnlyInSearches == Spec => []UndefinedOnlyInLaterSearches
<1>1. MainInv => UndefinedOnlyInLaterSearches
  BY DEF MainInv, UndefinedWhere, UndefinedOnlyInLaterSearches
<1> QED BY <1>1, MainInit, MainStays, PTL DEF Spec

(* No run is compared with the average of an earlier one (ga.cpp:103).     *)
THEOREM NoAverageIsAnothers == Spec => []AveragesAreOwn
<1>1. MainInv => AveragesAreOwn
  BY DEF MainInv
<1> QED BY <1>1, MainInit, MainStays, PTL DEF Spec
-----------------------------------------------------------------------------
(* No evaluation gives the fitness that stands for none.                   *)
LEMMA UnseenIsGreater == Unseen \in Nat /\ \A f \in Fitnesses : f < Unseen
<1>1. \E most \in Fitnesses : \A f \in Fitnesses : most >= f
  BY RandSearchAssumption
<1> DEFINE most == Max(Fitnesses)
<1>2. most \in Fitnesses /\ \A f \in Fitnesses : most >= f
  BY <1>1 DEF Max
<1>3. Unseen = 1 + most
  BY DEF Unseen
<1> HIDE DEF most
<1> QED BY <1>2, <1>3, RandSearchAssumption

LEMMA MinOfTwo == \A m, n \in Int : Min({m, n}) = IF n < m THEN n ELSE m
<1> SUFFICES ASSUME NEW m \in Int, NEW n \in Int PROVE Min({m, n}) = IF n < m THEN n ELSE m
  OBVIOUS
<1> DEFINE lesser == IF n < m THEN n ELSE m
<1>1. lesser \in {m, n} /\ \A y \in {m, n} : lesser <= y
  OBVIOUS
<1>2. \A x \in {m, n} : (\A y \in {m, n} : x <= y) => x = lesser
  OBVIOUS
<1> HIDE DEF lesser
<1>3. Min({m, n}) = lesser
  BY <1>1, <1>2 DEF Min
<1> QED BY <1>3 DEF lesser

LEMMA StartSearchBests ==
    ASSUME StartSearch
    PROVE  BestsFollow' /\ CopiesOwned'
<1> USE DEF StartSearch
<1>1. bests' \in BestsType
  <2>1. FALSE \in Flags
    BY DEF Flags
  <2>2. \A flag \in Flags :
          [gen |-> Null, gen_fitness |-> -1, gen_over |-> flag,
           run |-> Null, run_fitness |-> -1, run_iter |-> -1] \in BestsType
    BY DEF BestsType
  <2> QED BY <2>1, <2>2 DEF NoBests
<1>2. bests'.gen = Null /\ bests'.run = Null /\ Held(bests') = {}
  BY DEF NoBests, Held
<1> QED BY <1>1, <1>2, UnseenIsGreater DEF BestsFollow, CopiesOwned

LEMMA TryOneBests ==
    ASSUME ControlOK, BestsFollow, CopiesOwned, TryOne
    PROVE  BestsFollow' /\ CopiesOwned'
<1> USE DEF ControlOK, BestsFollow, CopiesOwned
<1>1. PICK c \in Names : c = <<iteration, tried>>
  <2>1. iteration \in Int /\ tried \in Int
    OBVIOUS
  <2>2. <<iteration, tried>> \in Names
    BY <2>1 DEF Names
  <2> QED BY <2>2
<1>2. c \notin copies /\ c # Null
  <2>1. c[1] = iteration /\ c[2] = tried
    BY <1>1
  <2>2. ~ BeforeTry(c)
    BY <2>1 DEF BeforeTry
  <2> QED BY <2>2, RandSearchAssumption DEF Names
<1> DEFINE g(f) == UpdateGenBest(bests, c, f)
           r(f) == UpdateRunBest(g(f).bests, c, f, iteration)
<1>3. PICK f \in Fitnesses :
        /\ bests' = IF g(f).updated THEN r(f).bests ELSE g(f).bests
        /\ copies' = (copies \cup {c})
              \ (g(f).deleted \cup IF g(f).updated THEN r(f).deleted ELSE {})
        /\ refused' = IF g(f).updated THEN refused ELSE refused \cup {c}
        /\ least' = Min({least, f})
        /\ iteration' = iteration /\ tried' = tried + 1
  BY <1>1 DEF TryOne
<1>4. f \in Nat /\ f < Unseen /\ least' = IF f < least THEN f ELSE least
  BY <1>3, RandSearchAssumption, UnseenIsGreater, MinOfTwo
<1>5. least' \in Nat
  BY <1>4
<1>6. \A copy \in copies \cup {c} : copy \in Names /\ BeforeTry(copy)'
  <2>1. BeforeTry(c)'
    BY <1>1, <1>3 DEF BeforeTry
  <2>2. ASSUME NEW copy \in copies PROVE BeforeTry(copy)'
    <3>1. copy \in Names /\ BeforeTry(copy)
      OBVIOUS
    <3>2. copy[1] \in Int /\ copy[2] \in Int
      BY <3>1 DEF Names
    <3> QED BY <1>3, <3>1, <3>2 DEF BeforeTry
  <2> QED BY <1>2, <2>1, <2>2
<1>7. CASE ~ ReplacesGen(bests, f)
  <2>1. ~ g(f).updated /\ g(f).bests = bests /\ g(f).deleted = {}
    BY <1>7 DEF UpdateGenBest
  <2>2. bests' = bests /\ copies' = copies \cup {c} /\ refused' = refused \cup {c}
    BY <1>3, <2>1
  <2>3. bests.gen # Null /\ bests.run # Null /\ ~ (f < bests.gen_fitness)
    BY <1>7 DEF ReplacesGen
  <2>4. least' = least
    <3>1. bests.gen_fitness \in Int
      BY DEF BestsType
    <3> QED BY <1>4, <2>3, <3>1
  <2>5. BestsFollow'
    BY <2>2, <2>3, <2>4
  <2>6. CopiesOwned'
    BY <1>2, <1>6, <2>2
  <2> QED BY <2>5, <2>6
<1>8. CASE ReplacesGen(bests, f)
  <2>1. /\ g(f).updated
        /\ g(f).bests \in BestsType
        /\ Held(g(f).bests) = (Held(bests) \cup {c}) \ g(f).deleted
        /\ g(f).bests.gen = c
        /\ g(f).bests.gen_fitness = f
        /\ g(f).deleted = GenDeleted(bests)
        /\ g(f).bests.run = bests.run
        /\ g(f).bests.run_fitness = bests.run_fitness
    <3>1. bests \in BestsType /\ c \notin Held(bests)
      BY <1>2
    <3> HIDE DEF ControlOK, BestsFollow, CopiesOwned
    <3> QED BY <3>1, <1>2, <1>4, <1>8, GenUpdate
  <2>2. g(f).bests.run # c
    BY <1>2, <2>1 DEF Held
  <2>3. /\ r(f).bests \in BestsType
        /\ Held(r(f).bests) = Held(g(f).bests) \ r(f).deleted
        /\ r(f).bests.gen = c
        /\ IF ReplacesRun(g(f).bests, f)
           THEN /\ r(f).bests.run = c
                /\ r(f).bests.run_fitness = f
                /\ r(f).bests.gen_fitness = f
                /\ r(f).deleted = RunDeleted(g(f).bests)
           ELSE r(f).bests = g(f).bests /\ r(f).deleted = {}
    <3> DEFINE b == g(f).bests
    <3>1. iteration \in Int /\ f \in Nat /\ c # Null /\ c \in Names
      BY <1>1, <1>2, <1>4
    <3>2. b \in BestsType /\ b.gen = c /\ b.gen_fitness = f /\ b.run # c
      BY <2>1, <2>2
    <3> HIDE DEF b, g, ControlOK, BestsFollow, CopiesOwned
    <3>3. /\ UpdateRunBest(b, c, f, iteration).bests \in BestsType
          /\ Held(UpdateRunBest(b, c, f, iteration).bests)
               = Held(b) \ UpdateRunBest(b, c, f, iteration).deleted
          /\ UpdateRunBest(b, c, f, iteration).bests.gen = c
          /\ IF ReplacesRun(b, f)
             THEN /\ UpdateRunBest(b, c, f, iteration).bests.run = c
                  /\ UpdateRunBest(b, c, f, iteration).bests.run_fitness = f
                  /\ UpdateRunBest(b, c, f, iteration).bests.run_iter = iteration
                  /\ UpdateRunBest(b, c, f, iteration).bests.gen_fitness = b.gen_fitness
                  /\ UpdateRunBest(b, c, f, iteration).bests.gen_over = b.gen_over
                  /\ UpdateRunBest(b, c, f, iteration).deleted = RunDeleted(b)
             ELSE /\ UpdateRunBest(b, c, f, iteration).bests = b
                  /\ UpdateRunBest(b, c, f, iteration).deleted = {}
      BY <3>1, <3>2, RunUpdate, SMTT(30)
    <3> QED BY <3>2, <3>3 DEF b
  <2> HIDE DEF r, g
  <2>4. /\ bests' = r(f).bests
        /\ copies' = (copies \cup {c}) \ (g(f).deleted \cup r(f).deleted)
        /\ refused' = refused
    BY <1>3, <2>1
  <2>5. Held(bests') = (Held(bests) \cup {c}) \ (g(f).deleted \cup r(f).deleted)
    BY <2>1, <2>3, <2>4
  <2>6. g(f).deleted \cup r(f).deleted \subseteq Held(bests)
    <3>1. g(f).deleted \subseteq Held(bests)
      BY <2>1 DEF GenDeleted, Held
    <3>2. r(f).deleted \subseteq Held(bests)
      BY <2>1, <2>3 DEF RunDeleted, Held
    <3> QED BY <3>1, <3>2
  <2>7. CopiesOwned'
    <3>1. Held(bests') \subseteq Held(bests) \cup {c}
      BY <2>5
    <3>2. Held(bests') \cap refused' = {}
      BY <1>2, <2>4, <3>1
    <3>3. copies' = Held(bests') \cup refused'
      BY <1>2, <2>4, <2>5, <2>6
    <3> QED BY <1>6, <2>4, <3>2, <3>3
  <2>8. BestsFollow'
    <3>1. bests' \in BestsType /\ bests'.gen # Null
      BY <1>2, <2>3, <2>4
    <3>2. CASE ReplacesRun(g(f).bests, f)
      <4>1. bests'.run = c /\ bests'.run_fitness = f /\ bests'.gen_fitness = f
        BY <2>3, <2>4, <3>2
      <4>2. least' = f
        <5>1. bests.run = Null \/ f < least
          BY <2>1, <3>2 DEF ReplacesRun
        <5> QED BY <1>4, <5>1
      <4> QED BY <1>2, <1>5, <3>1, <4>1, <4>2
    <3>3. CASE ~ ReplacesRun(g(f).bests, f)
      <4>1. /\ bests'.run = bests.run /\ bests'.run_fitness = bests.run_fitness
            /\ bests'.gen_fitness = f
        BY <2>1, <2>3, <2>4, <3>3
      <4>2. bests.run # Null /\ ~ (f < bests.run_fitness)
        BY <2>1, <3>3 DEF ReplacesRun
      <4>3. least' = least /\ least <= f
        BY <1>4, <4>2
      <4> QED BY <1>5, <3>1, <4>1, <4>2, <4>3
    <3> QED BY <3>2, <3>3
  <2> QED BY <2>7, <2>8
<1> QED BY <1>7, <1>8

LEMMA NextIterationBests ==
    ASSUME ControlOK, BestsFollow, CopiesOwned, NextIteration
    PROVE  BestsFollow' /\ CopiesOwned'
<1> USE DEF ControlOK, BestsFollow, CopiesOwned
<1>1. /\ bests' = GenDone(bests) /\ iteration' = iteration + 1 /\ tried' = 0
      /\ UNCHANGED <<copies, refused, least>>
  BY DEF NextIteration
<1>2. /\ bests' \in BestsType
      /\ Held(bests') = Held(bests)
      /\ bests'.gen = bests.gen /\ bests'.gen_fitness = bests.gen_fitness
      /\ bests'.run = bests.run /\ bests'.run_fitness = bests.run_fitness
  BY <1>1, GenDoneKeeps
<1>3. ASSUME NEW copy \in copies PROVE BeforeTry(copy)'
  <2>1. copy \in Names /\ BeforeTry(copy)
    OBVIOUS
  <2>2. copy[1] \in Int /\ copy[2] \in Int
    BY <2>1 DEF Names
  <2> QED BY <1>1, <2>1, <2>2 DEF BeforeTry
<1> QED BY <1>1, <1>2, <1>3

LEMMA SearchStays == MainInv /\ SearchInv /\ [Next]_vars => SearchInv'
<1> SUFFICES ASSUME MainInv, SearchInv, [Next]_vars, pc' = "run_alg", rand_alg'
             PROVE  BestsFollow' /\ CopiesOwned'
  BY DEF SearchInv
<1>1. ControlOK
  BY DEF MainInv
<1>2. CASE Construct
  <2>1. StartSearch
    BY <1>2 DEF Construct
  <2> QED BY <2>1, StartSearchBests
<1>3. CASE Search
  <2>1. BestsFollow /\ CopiesOwned
    BY <1>3 DEF Search, SearchInv
  <2> QED BY <1>1, <1>3, <2>1, TryOneBests, NextIterationBests DEF Search
<1>4. CASE UNCHANGED vars
  BY <1>4 DEF vars, shared, search, SearchInv, BestsFollow, CopiesOwned, BeforeTry
<1>5. ParseRuns \/ GetNext \/ SearchEnds \/ Evolve \/ Destroy \/ Crash => pc' # "run_alg"
  BY DEF ParseRuns, GetNext, SearchEnds, Evolve, Destroy, Crash
<1> QED BY <1>2, <1>3, <1>4, <1>5 DEF Next

(* A random search has exactly the copies on the heap that its bests point *)
(* to and those that both refused, and the run's best has the least        *)
(* fitness of all tries (rand_search.cpp, best_info.hpp).                  *)
THEOREM CopiesAreAccounted == Spec => []CopiesAccounted
<1>1. Init => SearchInv
  BY DEF Init, SearchInv
<1>2. SearchInv => CopiesAccounted
  BY DEF SearchInv, BestsFollow, CopiesOwned, CopiesAccounted
<1> QED BY <1>1, <1>2, MainInit, MainStays, SearchStays, PTL DEF Spec


(***************************************************************************)
(* The programs of a random search                                         *)
(***************************************************************************)
LEMMA CallsAreInstrs == \A type \in DOMAIN F : F[type] \in Instrs
<1> DEFINE calls == {"ADD", "SUB", "MULT", "DIV", "EQ", "IF", "LIST"}
<1>1. DOMAIN F = calls
  BY DEF F
<1>2. ASSUME NEW type \in calls
      PROVE  \E least_args \in Nat, most_args \in Nat \cup {Unlimited} :
               F[type] = FnCall(type, least_args, most_args)
  <2>1. CASE type \in {"ADD", "SUB", "MULT", "DIV"}
    <3>1. F[type] = FnCall(type, 1, Unlimited)
      BY <2>1 DEF F
    <3> QED BY <3>1
  <2>2. CASE type = "EQ"
    <3>1. F[type] = FnCall(type, 2, 2)
      BY <2>2 DEF F
    <3> QED BY <3>1
  <2>3. CASE type = "IF"
    <3>1. F[type] = FnCall(type, 3, 3)
      BY <2>3 DEF F
    <3> QED BY <3>1
  <2>4. CASE type = "LIST"
    <3>1. F[type] = FnCall(type, 0, Unlimited)
      BY <2>4 DEF F
    <3> QED BY <3>1
  <2> QED BY <2>1, <2>2, <2>3, <2>4
<1>3. \A type \in calls : F[type] \in Instrs
  <2> HIDE DEF calls
  <2> QED BY <1>1, <1>2 DEF Instrs, FnCall
<1> QED BY <1>1, <1>3

(* Some active type takes any number of arguments that a node may have.    *)
EveryNumberIsTaken == \A n \in Nat : RandInstrs(n) # {}

(* It is so when one takes none and one takes any other number.            *)
Types == {ActiveTypes[i] : i \in 1 .. Len(ActiveTypes)}

LEMMA WhenEveryNumberIsTaken ==
    ASSUME NEW leaf \in Types \cap (DOMAIN T \cup {"LIST"}),
           NEW branch \in Types \cap {"ADD", "SUB", "MULT", "DIV", "LIST"}
    PROVE  EveryNumberIsTaken
<1>1. ASSUME NEW n \in Nat, NEW type \in Types \cap DOMAIN F, Accepts(F[type], n)
      PROVE  RandInstrs(n) # {}
  <2>1. F[type] \in RandInstrs(n)
    BY <1>1 DEF RandInstrs, Types
  <2> QED BY <2>1
<1>2. RandInstrs(0) # {}
  <2>1. CASE leaf = "LIST"
    <3>1. F[leaf] = FnCall(leaf, 0, Unlimited) /\ leaf \in DOMAIN F
      BY <2>1 DEF F
    <3>2. Accepts(F[leaf], 0)
      BY <3>1 DEF Accepts, FnCall
    <3> QED BY <1>1, <3>1, <3>2
  <2>2. CASE leaf \in DOMAIN T
    <3>1. 0 \in 0 .. T[leaf] - 1
      BY <2>2 DEF T
    <3>2. Terminal(leaf, 0) \in RandInstrs(0)
      BY <2>2, <3>1 DEF RandInstrs, Types
    <3> QED BY <3>2
  <2> QED BY <2>1, <2>2
<1>3. ASSUME NEW n \in Nat, n # 0 PROVE RandInstrs(n) # {}
  <2>1. PICK fewest \in {0, 1} : F[branch] = FnCall(branch, fewest, Unlimited)
    BY DEF F
  <2>2. branch \in DOMAIN F
    BY DEF F
  <2>3. Accepts(F[branch], n)
    BY <1>3, <2>1 DEF Accepts, FnCall
  <2> QED BY <1>1, <2>2, <2>3
<1> QED BY <1>2, <1>3 DEF EveryNumberIsTaken

LEMMA RandInstrsFit ==
    ASSUME NEW n \in Nat, NEW instr \in RandInstrs(n)
    PROVE  instr \in Instrs /\ instr # NoInstr /\ ArgsOk(instr, n)
<1>1. instr \in Instrs /\ ArgsOk(instr, n)
  <2>1. CASE \E type \in DOMAIN F : instr = F[type] /\ Accepts(F[type], n)
    BY <2>1, CallsAreInstrs DEF ArgsOk
  <2>2. CASE n = 0 /\ \E type \in DOMAIN T : \E sel \in 0 .. T[type] - 1 : instr = Terminal(type, sel)
    <3>1. PICK type \in DOMAIN T : \E sel \in 0 .. T[type] - 1 : instr = Terminal(type, sel)
      BY <2>2
    <3>2. PICK sel \in 0 .. T[type] - 1 : instr = Terminal(type, sel)
      BY <3>1
    <3>3. sel \in Nat
      BY <3>1, <3>2 DEF T
    <3>4. instr \in Instrs
      BY <3>1, <3>2, <3>3 DEF Instrs, Terminal
    <3>5. Accepts(instr, 0)
      BY <3>2 DEF Accepts, Terminal
    <3> QED BY <2>2, <3>4, <3>5 DEF ArgsOk
  <2> QED BY <2>1, <2>2 DEF RandInstrs
<1> QED BY <1>1, RandSearchAssumption


Programs == SoundTrees(Instrs \cup {NoInstr})

LEMMA SizesAreNaturals == \A t \in Programs : Size(t) \in Nat
<1> QED BY TreeIs DEF Programs, SoundTrees

LEMMA NodesLimit == Numbers(run) => MaxPgmNodes \in Int
<1> QED BY MinOfTwo DEF Numbers, MaxPgmNodes

AddedTo(trees) ==
    {AddChild(g, parent, NoInstr) : g \in trees, parent \in 0 .. MaxPgmNodes - 1}

LEMMA AddedAreSound == \A trees \in SUBSET Programs : AddedTo(trees) \in SUBSET Programs
<1> SUFFICES ASSUME NEW trees \in SUBSET Programs, NEW g \in trees, NEW parent \in 0 .. MaxPgmNodes - 1
             PROVE  AddChild(g, parent, NoInstr) \in Programs
  BY DEF AddedTo
<1>1. NoInstr \in Instrs \cup {NoInstr} /\ parent \in Nat
  OBVIOUS
<1> QED BY <1>1, AddChildSound DEF Programs

GrownBy(t, grown) ==
    /\ grown[0] = {t}
    /\ \A k \in 1 .. MaxPgmNodes : grown[k] = AddedTo(grown[k - 1])
    /\ Grown(t) = UNION {grown[k] : k \in 0 .. MaxPgmNodes}

(* Every addition gives well-formed trees, with at most a node more.       *)
LEMMA GrownIs ==
    ASSUME Numbers(run), MaxPgmNodes >= 0, NEW t \in Programs
    PROVE  \E grown \in [0 .. MaxPgmNodes -> SUBSET Programs] : GrownBy(t, grown)
<1> DEFINE most == MaxPgmNodes
           body(f) == [size \in 0 .. most |->
                         IF size = 0 THEN {t}
                         ELSE {AddChild(g, parent, NoInstr) :
                                 g \in f[size - 1], parent \in 0 .. most - 1}]
           step == [x \in (1 .. most) \X SUBSET Programs |-> AddedTo(x[2])]
           grown == CHOOSE f : f = body(f)
<1>1. most \in Nat
  BY NodesLimit
<1>2. step \in [(1 .. most) \X SUBSET Programs -> SUBSET Programs]
  <2> HIDE DEF most
  <2> QED BY AddedAreSound
<1>3. {t} \in SUBSET Programs
  OBVIOUS
<1>4. PICK run_k \in [0 .. most -> SUBSET Programs] : Rounds(most, {t}, step, run_k)
  <2> HIDE DEF step, most
  <2> QED BY <1>1, <1>2, <1>3, RunExists
<1>5. run_k[0] = {t} /\ \A k \in 1 .. most : run_k[k] = AddedTo(run_k[k - 1])
  <2>1. \A k \in 1 .. most : run_k[k - 1] \in SUBSET Programs
    <3> HIDE DEF most
    <3> QED BY <1>1
  <2>2. \A k \in 1 .. most : step[<<k, run_k[k - 1]>>] = AddedTo(run_k[k - 1])
    BY <2>1
  <2> HIDE DEF step, most
  <2> QED BY <1>4, <2>2 DEF Rounds
<1>6. run_k = body(run_k)
  <2>1. \A k \in 0 .. most : run_k[k] = body(run_k)[k]
    BY <1>5 DEF AddedTo
  <2> QED BY <2>1
<1>7. grown = body(grown)
  <2> HIDE DEF body
  <2> QED BY <1>6
<1>8. Grown(t) = UNION {grown[k] : k \in 0 .. most}
  BY DEF Grown
<1> HIDE DEF grown
<1>9. grown[0] = {t} /\ \A k \in 1 .. most : grown[k] = AddedTo(grown[k - 1])
  <2> HIDE DEF most
  <2>1. 0 \in 0 .. most /\ \A k \in 1 .. most : k \in 0 .. most /\ k # 0
    BY <1>1
  <2>2. body(grown)[0] = {t} /\ \A k \in 1 .. most : body(grown)[k] = AddedTo(grown[k - 1])
    BY <2>1 DEF AddedTo, most
  <2> HIDE DEF body
  <2> QED BY <1>7, <2>2
<1> HIDE DEF body, most
<1>10. \A k \in 0 .. most : grown[k] = run_k[k]
  <2> DEFINE Same == {j \in 0 .. most : grown[j] = run_k[j]}
  <2>1. 0 \in Same
    <3>1. 0 \in 0 .. most
      BY <1>1
    <3> QED BY <3>1, <1>5, <1>9
  <2>2. ASSUME NEW j \in 1 .. most, j - 1 \in Same PROVE j \in Same
    BY <1>1, <1>5, <1>9, <2>2
  <2> HIDE DEF Same
  <2>3. 0 .. most \subseteq Same
    BY <1>1, <2>1, <2>2, RoundsInduction
  <2> QED BY <2>3 DEF Same
<1>11. Grown(t) = UNION {run_k[k] : k \in 0 .. most}
  BY <1>8, <1>10
<1> QED BY <1>4, <1>5, <1>11 DEF most, GrownBy

LEMMA GrownSound ==
    ASSUME Numbers(run), NEW t \in Programs, NEW g \in Grown(t)
    PROVE  g \in Programs /\ MaxPgmNodes >= 0 /\ Size(g) <= Size(t) + MaxPgmNodes
<1>1. MaxPgmNodes \in Nat
  <2>1. MaxPgmNodes \in Int
    BY NodesLimit
  <2>2. MaxPgmNodes >= 0
    BY <2>1 DEF Grown
  <2> QED BY <2>1, <2>2
<1>2. PICK grown \in [0 .. MaxPgmNodes -> SUBSET Programs] : GrownBy(t, grown)
  <2>1. MaxPgmNodes >= 0
    BY <1>1
  <2> QED BY <2>1, GrownIs
<1> USE DEF GrownBy
<1> DEFINE Within(j) == \A h \in grown[j] : Size(h) <= Size(t) + j
           Bounded == {j \in 0 .. MaxPgmNodes : Within(j)}
<1>3. 0 \in Bounded
  BY <1>1, <1>2, SizesAreNaturals
<1>4. ASSUME NEW j \in 1 .. MaxPgmNodes, j - 1 \in Bounded PROVE j \in Bounded
  <2> SUFFICES ASSUME NEW h \in grown[j] PROVE Size(h) <= Size(t) + j
    BY <1>1
  <2>1. PICK old \in grown[j - 1], parent \in 0 .. MaxPgmNodes - 1 : h = AddChild(old, parent, NoInstr)
    BY <1>2 DEF AddedTo
  <2>2. Size(old) <= Size(t) + (j - 1) /\ old \in Programs
    <3>1. j - 1 \in 0 .. MaxPgmNodes
      BY <1>1
    <3> QED BY <1>2, <1>4, <2>1, <3>1
  <2>3. Size(h) \in {Size(old), Size(old) + 1}
    <3>1. parent \in Nat /\ NoInstr \in Instrs \cup {NoInstr}
      BY <2>1
    <3> QED BY <2>1, <2>2, <3>1, AddChildSound DEF Programs
  <2>4. Size(old) \in Nat /\ Size(t) \in Nat
    BY <2>2, SizesAreNaturals
  <2> QED BY <2>2, <2>3, <2>4
<1>5. 0 .. MaxPgmNodes \subseteq Bounded
  <2> HIDE DEF Bounded
  <2> QED BY <1>1, <1>3, <1>4, RoundsInduction
<1>6. PICK k \in 0 .. MaxPgmNodes : g \in grown[k]
  BY <1>2
<1>7. Size(g) <= Size(t) + k /\ g \in Programs
  BY <1>2, <1>5, <1>6
<1> QED BY <1>1, <1>6, <1>7, SizesAreNaturals


(* Every node has an instruction that takes the node's children.           *)
Complete(t) ==
    \A id \in NodeIds(t) :
        t.nodes[id].instr # NoInstr /\ ArgsOk(t.nodes[id].instr, NumChildren(t, id))

LEMMA InstructedSound ==
    ASSUME EveryNumberIsTaken, NEW g \in Programs, NEW t \in Instructed(g)
    PROVE  t \in Programs /\ Size(t) = Size(g) /\ Complete(t)
<1> DEFINE I == Instrs \cup {NoInstr}
           n == g.next_id
<1>1. /\ n \in Nat /\ g.nodes \in [0 .. n - 1 -> Nodes(I)] /\ NodeIds(g) = 0 .. n - 1
      /\ g = [nodes |-> g.nodes, next_id |-> n]
      /\ Size(g) = n
  BY TreeIs DEF Programs, SoundTrees
<1>2. PICK chosen \in [NodeIds(g) -> UNION {InstrsFor(g, id) : id \in NodeIds(g)}] :
        /\ \A id \in NodeIds(g) : chosen[id] \in InstrsFor(g, id)
        /\ t = [g EXCEPT !.nodes = [id \in NodeIds(g) |-> [g.nodes[id] EXCEPT !.instr = chosen[id]]]]
  BY DEF Instructed
<1> DEFINE nodes == [id \in 0 .. n - 1 |-> [g.nodes[id] EXCEPT !.instr = chosen[id]]]
<1>3. t = [nodes |-> nodes, next_id |-> n]
  <2>1. t = [g EXCEPT !.nodes = nodes]
    BY <1>1, <1>2
  <2> HIDE DEF nodes, n
  <2> QED BY <1>1, <2>1
<1>4. ASSUME NEW id \in 0 .. n - 1
      PROVE  /\ chosen[id] \in Instrs /\ chosen[id] # NoInstr
             /\ ArgsOk(chosen[id], NumChildren(g, id))
  <2>1. g.nodes[id] \in Nodes(I)
    BY <1>1
  <2>2. NumChildren(g, id) \in Nat
    BY <2>1 DEF NumChildren, Children, Nodes
  <2>3. chosen[id] \in RandInstrs(NumChildren(g, id))
    BY <1>1, <1>2, <2>2 DEF InstrsFor, EveryNumberIsTaken
  <2> QED BY <2>2, <2>3, RandInstrsFit
<1>5. ASSUME NEW id \in 0 .. n - 1
      PROVE  /\ nodes[id] \in Nodes(I)
             /\ nodes[id].parent = g.nodes[id].parent
             /\ nodes[id].children = g.nodes[id].children
             /\ nodes[id].instr = chosen[id]
  <2>1. g.nodes[id] \in Nodes(I) /\ chosen[id] \in I
    BY <1>1, <1>4
  <2>2. nodes[id] = [g.nodes[id] EXCEPT !.instr = chosen[id]]
    OBVIOUS
  <2> HIDE DEF nodes, I
  <2> QED BY <2>1, <2>2 DEF Nodes
<1>6. t \in Trees(I) /\ NodeIds(t) = NodeIds(g) /\ Size(t) = n
  <2>1. nodes \in [0 .. n - 1 -> Nodes(I)]
    BY <1>5
  <2> HIDE DEF nodes, I, n
  <2>2. t \in Trees(I) /\ t.next_id = n
    BY <1>1, <1>3, <2>1, IsTree
  <2> QED BY <1>1, <2>2, TreeIs
<1>7. \A id \in NodeIds(t) : t.nodes[id] = nodes[id] /\ id \in 0 .. n - 1
  BY <1>1, <1>3, <1>6
<1> HIDE DEF nodes, n, I
<1>8. WellFormed(t)
  <2>1. \A id \in NodeIds(g) : NodeFormed(g, id)
    BY NodesFormed DEF Programs, SoundTrees
  <2>2. \A id \in NodeIds(t) :
          Children(t, id) = Children(g, id) /\ t.nodes[id].parent = g.nodes[id].parent
    BY <1>5, <1>7 DEF Children
  <2>3. ASSUME NEW id \in NodeIds(t) PROVE NodeFormed(t, id)
    <3>1. NodeFormed(g, id)
      BY <1>6, <2>1
    <3> QED BY <1>6, <2>2, <3>1 DEF NodeFormed, Listed, NumChildren
  <2> QED BY <2>3, NodesFormed
<1>9. Complete(t)
  <2>1. ASSUME NEW id \in NodeIds(t) PROVE NumChildren(t, id) = NumChildren(g, id)
    BY <1>5, <1>7 DEF NumChildren, Children
  <2> QED BY <1>4, <1>5, <1>7, <2>1 DEF Complete
<1> QED BY <1>1, <1>6, <1>8, <1>9 DEF Programs, SoundTrees, I

(* From the last node to the root, every node is printable.                *)
LEMMA CompleteIsPrintable ==
    ASSUME NEW t \in Programs, Complete(t)
    PROVE  Printable(t) /\ NumUnfilled(t) = 0
<1> DEFINE n == t.next_id
           kids(id) == ToSet(Children(t, id))
           body(f) == [id \in NodeIds(t) |->
                         t.nodes[id].instr # NoInstr =>
                           /\ ArgsOk(t.nodes[id].instr, NumChildren(t, id))
                           /\ \A kid \in kids(id) : f[kid]]
           printable == CHOOSE f : f = body(f)
           all == [id \in NodeIds(t) |-> TRUE]
<1>1. n \in Nat /\ NodeIds(t) = 0 .. n - 1 /\ Size(t) = n
  BY TreeIs DEF Programs, SoundTrees
<1>2. ASSUME NEW id \in NodeIds(t), NEW kid \in kids(id)
      PROVE  kid \in NodeIds(t) /\ id < kid
  <2>1. Children(t, id) \in Seq(Nat)
    <3>1. t.nodes[id] \in Nodes(Instrs \cup {NoInstr})
      BY TreeIs DEF Programs, SoundTrees
    <3> QED BY <3>1 DEF Children, Nodes
  <2>2. PICK i \in 1 .. NumChildren(t, id) : kid = Children(t, id)[i]
    BY <2>1 DEF ToSet, NumChildren
  <2> QED BY <2>2, ChildrenAreYounger DEF Programs
<1> HIDE DEF kids, n
<1>3. all = body(all)
  <2>1. ASSUME NEW id \in NodeIds(t) PROVE body(all)[id] = TRUE
    BY <1>2 DEF Complete
  <2> QED BY <2>1
<1>4. printable = body(printable)
  <2> HIDE DEF body, all
  <2> QED BY <1>3
<1> HIDE DEF printable
<1>5. ASSUME NEW id \in NodeIds(t), \A kid \in kids(id) : printable[kid]
      PROVE  printable[id]
  BY <1>4, <1>5 DEF Complete
<1> DEFINE Reached == {k \in Nat : \A id \in NodeIds(t) : id >= n - k => printable[id]}
<1>6. 0 \in Reached
  BY <1>1
<1>7. ASSUME NEW k \in Nat, k \in Reached PROVE k + 1 \in Reached
  <2>1. ASSUME NEW id \in NodeIds(t), id >= n - (k + 1) PROVE printable[id]
    <3>1. ASSUME NEW kid \in kids(id) PROVE printable[kid]
      <4>1. kid \in NodeIds(t) /\ id < kid
        BY <1>2
      <4>2. kid >= n - k
        BY <1>1, <2>1, <4>1
      <4> QED BY <1>7, <4>1, <4>2
    <3> QED BY <1>5, <3>1
  <2> QED BY <2>1
<1>8. n \in Reached
  <2> HIDE DEF Reached
  <2> QED BY <1>1, <1>6, <1>7, NatSetInduction
<1>9. HasRoot(t) => printable[0]
  BY <1>1, <1>8 DEF HasRoot
<1>10. Printable(t)
  BY <1>9 DEF Printable, printable, kids
<1>11. NumUnfilled(t) = 0
  <2>1. {id \in NodeIds(t) : t.nodes[id].instr # NoInstr} = NodeIds(t)
    BY DEF Complete
  <2>2. NumFilled(t) = Size(t)
    BY <2>1 DEF NumFilled, Size
  <2> QED BY <1>1, <2>2 DEF NumUnfilled
<1> QED BY <1>10, <1>11


ProgramsInv ==
    pc = "run_alg" /\ rand_alg =>
        ptype \in Programs /\ Complete(ptype) /\ Size(ptype) <= tried * MaxPgmNodes

LEMMA NoProgram == EmptyTree \in Programs /\ Complete(EmptyTree) /\ Size(EmptyTree) = 0
<1>1. NodeIds(EmptyTree) = {}
  BY DEF EmptyTree, NodeIds
<1> QED BY <1>1, EmptyTreeSound DEF Programs, Complete

LEMMA OneMoreTry == \A n, m \in Int : (n + 1) * m = n * m + m /\ n * m \in Int /\ 0 * m = 0
<1> QED OBVIOUS

LEMMA TryOnePrograms ==
    ASSUME EveryNumberIsTaken, ControlOK, ptype \in Programs,
           Size(ptype) <= tried * MaxPgmNodes, TryOne
    PROVE  ptype' \in Programs /\ Complete(ptype') /\ Size(ptype') <= tried' * MaxPgmNodes'
<1>1. PICK g \in Grown(ptype) : ptype' \in Instructed(g)
  BY DEF TryOne, Randomized
<1>2. tried' = tried + 1 /\ MaxPgmNodes' = MaxPgmNodes
  BY DEF TryOne, MaxPgmNodes
<1>3. g \in Programs /\ Size(g) <= Size(ptype) + MaxPgmNodes
  BY <1>1, GrownSound DEF ControlOK
<1>4. ptype' \in Programs /\ Size(ptype') = Size(g) /\ Complete(ptype')
  BY <1>1, <1>3, InstructedSound
<1>5. Size(ptype') <= tried' * MaxPgmNodes'
  <2>1. MaxPgmNodes \in Int /\ tried \in Int
    BY NodesLimit DEF ControlOK
  <2>2. (tried + 1) * MaxPgmNodes = tried * MaxPgmNodes + MaxPgmNodes /\ tried * MaxPgmNodes \in Int
    BY <2>1, OneMoreTry
  <2>3. Size(ptype) \in Int /\ Size(g) \in Int
    BY <1>3, SizesAreNaturals
  <2> QED BY <1>2, <1>3, <1>4, <2>1, <2>2, <2>3
<1> QED BY <1>4, <1>5

LEMMA ProgramsStay ==
    ASSUME EveryNumberIsTaken
    PROVE  MainInv /\ ProgramsInv /\ [Next]_vars => ProgramsInv'
<1> SUFFICES ASSUME MainInv, ProgramsInv, [Next]_vars, pc' = "run_alg", rand_alg'
             PROVE  ptype' \in Programs /\ Complete(ptype') /\ Size(ptype') <= tried' * MaxPgmNodes'
  BY DEF ProgramsInv
<1>1. ControlOK
  BY DEF MainInv
<1>2. ASSUME ptype' = EmptyTree, tried' = 0, run' = run
      PROVE  ptype' \in Programs /\ Complete(ptype') /\ Size(ptype') <= tried' * MaxPgmNodes'
  <2>1. MaxPgmNodes' \in Int
    BY <1>1, <1>2, NodesLimit DEF ControlOK, MaxPgmNodes
  <2>2. 0 * MaxPgmNodes' = 0
    BY <2>1, OneMoreTry
  <2> QED BY <1>2, <2>2, NoProgram
<1>3. CASE Construct
  <2>1. StartSearch /\ run' = run
    BY <1>3 DEF Construct
  <2> QED BY <1>2, <2>1 DEF StartSearch
<1>4. CASE Search
  <2>1. ptype \in Programs /\ Size(ptype) <= tried * MaxPgmNodes
    BY <1>4 DEF Search, ProgramsInv
  <2>2. CASE TryOne
    BY <1>1, <2>1, <2>2, TryOnePrograms
  <2>3. CASE NextIteration
    BY <1>2, <2>3 DEF NextIteration
  <2> QED BY <1>4, <2>2, <2>3 DEF Search
<1>5. CASE UNCHANGED vars
  BY <1>5 DEF vars, shared, search, ProgramsInv, Complete, MaxPgmNodes
<1>6. ParseRuns \/ GetNext \/ SearchEnds \/ Evolve \/ Destroy \/ Crash => pc' # "run_alg"
  BY DEF ParseRuns, GetNext, SearchEnds, Evolve, Destroy, Crash
<1> QED BY <1>3, <1>4, <1>5, <1>6 DEF Next

(* When some active type takes any number of children, as the types that   *)
(* the factory has do, every program that a random search evaluates is     *)
(* complete: to_code never fails on it, and it has at most max_pgm_size    *)
(* nodes for every try of the iteration (rand_search.cpp, tree.cpp,        *)
(* instr_factory.cpp).  Without such types a node is left without an       *)
(* instruction (rand_search.cpp:71), and the program is not complete.      *)
THEOREM ProgramsAreComplete ==
    ASSUME EveryNumberIsTaken
    PROVE  Spec => []ProgramsComplete
<1>1. Init => ProgramsInv
  BY DEF Init, ProgramsInv
<1>2. ProgramsInv => ProgramsComplete
  <2>1. ptype \in Programs => WellFormed(ptype)
    BY DEF Programs, SoundTrees
  <2> QED BY <2>1, CompleteIsPrintable DEF ProgramsInv, ProgramsComplete
<1> QED BY <1>1, <1>2, MainInit, MainStays, ProgramsStay, PTL DEF Spec

(***************************************************************************)
(* The shape of a tree of n nodes: the children of each and its parent     *)
(***************************************************************************)
Shape(n, kids, up) ==
    /\ \A id \in 0 .. n - 1 : kids[id] \in [1 .. Len(kids[id]) -> 0 .. n - 1] /\ Len(kids[id]) \in Nat
    /\ \A id \in 0 .. n - 1 : \A i \in 1 .. Len(kids[id]) :
         /\ kids[id][i] \in id + 1 .. n - 1 /\ up[kids[id][i]] = id
         /\ \A j \in 1 .. Len(kids[id]) : kids[id][i] = kids[id][j] => i = j
    /\ \A id \in 1 .. n - 1 :
         /\ up[id] \in 0 .. id - 1
         /\ \E i \in 1 .. Len(kids[up[id]]) : kids[up[id]][i] = id

KidsOf(t) == [id \in NodeIds(t) |-> Children(t, id)]
UpOf(t) == [id \in NodeIds(t) |-> t.nodes[id].parent]

LEMMA TreesHaveAShape ==
    ASSUME NEW I, NEW t \in SoundTrees(I)
    PROVE  /\ Size(t) \in Nat /\ NodeIds(t) = 0 .. Size(t) - 1
           /\ Shape(Size(t), KidsOf(t), UpOf(t))
<1> DEFINE n == Size(t)
           kids == KidsOf(t)
           up == UpOf(t)
<1>1. /\ n \in Nat /\ NodeIds(t) = 0 .. n - 1
      /\ t.nodes \in [0 .. n - 1 -> Nodes(I)] /\ \A id \in NodeIds(t) : NodeFormed(t, id)
  BY TreeIs, NodesFormed DEF SoundTrees
<1> HIDE DEF n
<1>2. /\ \A id \in 0 .. n - 1 : kids[id] = Children(t, id) /\ up[id] = t.nodes[id].parent
      /\ \A id \in 0 .. n - 1 : NumChildren(t, id) = Len(kids[id])
  BY <1>1 DEF KidsOf, UpOf, NumChildren
<1> HIDE DEF kids, up
<1>3. ASSUME NEW id \in 0 .. n - 1
      PROVE  /\ kids[id] \in [1 .. Len(kids[id]) -> 0 .. n - 1] /\ Len(kids[id]) \in Nat
             /\ \A i \in 1 .. Len(kids[id]) : kids[id][i] \in id + 1 .. n - 1
  <2>1. t.nodes[id] \in Nodes(I)
    BY <1>1
  <2>2. Children(t, id) \in Seq(Nat)
    BY <2>1 DEF Children, Nodes
  <2>3. \A i \in 1 .. Len(kids[id]) : kids[id][i] \in NodeIds(t) /\ id < kids[id][i]
    BY <1>1, <1>2, ChildrenAreYounger
  <2>4. \A i \in 1 .. Len(kids[id]) : kids[id][i] \in 0 .. n - 1
    BY <1>1, <2>3
  <2>5. kids[id] \in Seq(Nat) /\ Len(kids[id]) \in Nat
    BY <1>2, <2>2
  <2>6. kids[id] \in [1 .. Len(kids[id]) -> 0 .. n - 1]
    <3>1. PICK s \in Seq(Nat) : s = kids[id]
      BY <2>5
    <3>2. \A i \in 1 .. Len(s) : s[i] \in 0 .. n - 1
      BY <2>4, <3>1
    <3>3. s \in [1 .. Len(s) -> 0 .. n - 1]
      BY <3>2
    <3> QED BY <3>1, <3>3
  <2> QED BY <1>1, <2>3, <2>4, <2>5, <2>6
<1>4. ASSUME NEW p \in 0 .. n - 1, NEW id \in 0 .. n - 1
      PROVE  /\ Cardinality(Places(kids[p], id)) = IF up[id] = p THEN 1 ELSE 0
             /\ IsFiniteSet(Places(kids[p], id))
  <2>1. NodeFormed(t, id)
    BY <1>1
  <2>2. Listed(t, p, id) = IF t.nodes[id].parent = p THEN 1 ELSE 0
    BY <1>1, <2>1 DEF NodeFormed
  <2>3. IsFiniteSet(1 .. Len(kids[p]))
    <3>1. Len(kids[p]) \in Int /\ 1 \in Int
      BY <1>3
    <3> QED BY <3>1, FS_Interval
  <2>4. Places(kids[p], id) \subseteq 1 .. Len(kids[p])
    BY DEF Places
  <2> QED BY <1>2, <2>2, <2>3, <2>4, FS_Subset DEF Listed
<1>5. ASSUME NEW p \in 0 .. n - 1, NEW i \in 1 .. Len(kids[p])
      PROVE  up[kids[p][i]] = p /\ \A j \in 1 .. Len(kids[p]) : kids[p][i] = kids[p][j] => i = j
  <2>1. PICK id \in 0 .. n - 1 : id = kids[p][i]
    BY <1>1, <1>3
  <2>2. i \in Places(kids[p], id)
    BY <2>1 DEF Places
  <2>3. up[id] = p
    <3>1. Cardinality(Places(kids[p], id)) # 0
      BY <1>4, <2>2, FS_EmptySet
    <3> QED BY <1>4, <3>1
  <2>4. \E x : Places(kids[p], id) = {x}
    BY <1>4, <2>3, FS_Singleton
  <2>5. ASSUME NEW j \in 1 .. Len(kids[p]), kids[p][i] = kids[p][j] PROVE i = j
    <3>1. j \in Places(kids[p], id)
      BY <2>1, <2>5 DEF Places
    <3> QED BY <2>2, <2>4, <3>1
  <2> QED BY <2>1, <2>3, <2>5
<1>6. ASSUME NEW id \in 1 .. n - 1
      PROVE  up[id] \in 0 .. id - 1 /\ \E i \in 1 .. Len(kids[up[id]]) : kids[up[id]][i] = id
  <2>1. id \in 0 .. n - 1 /\ id # 0
    BY <1>1
  <2>2. NodeFormed(t, id)
    BY <1>1, <2>1
  <2>3. t.nodes[id].parent \in 0 .. n - 1 /\ t.nodes[id].parent < id
    BY <1>1, <2>1, <2>2 DEF NodeFormed
  <2>4. up[id] \in 0 .. n - 1 /\ up[id] < id
    BY <1>2, <2>1, <2>3
  <2>5. Cardinality(Places(kids[up[id]], id)) = 1
    BY <1>4, <2>1, <2>4
  <2>6. Places(kids[up[id]], id) # {}
    BY <2>5, FS_EmptySet
  <2> QED BY <1>1, <2>4, <2>6 DEF Places
<1> QED BY <1>1, <1>3, <1>5, <1>6 DEF Shape, n, kids, up

(* The nodes below a node, itself among them: the least set that has it    *)
(* and every node whose parent it has.                                     *)
Grows(n, up, X) == \A k \in 1 .. n - 1 : up[k] \in X => k \in X
Below(n, up, id) ==
    {m \in 0 .. n - 1 : \A X \in SUBSET (0 .. n - 1) : id \in X /\ Grows(n, up, X) => m \in X}

LEMMA BelowGrows ==
    ASSUME NEW n \in Nat, NEW kids, NEW up, Shape(n, kids, up), NEW id \in 0 .. n - 1
    PROVE  /\ id \in Below(n, up, id) /\ Below(n, up, id) \in SUBSET (id .. n - 1)
           /\ Grows(n, up, Below(n, up, id))
           /\ \A X \in SUBSET (0 .. n - 1) : id \in X /\ Grows(n, up, X) => Below(n, up, id) \subseteq X
           /\ \A m \in Below(n, up, id) : m # id => m \in 1 .. n - 1 /\ up[m] \in Below(n, up, id)
<1> DEFINE B == Below(n, up, id)
<1>1. id \in B /\ \A X \in SUBSET (0 .. n - 1) : id \in X /\ Grows(n, up, X) => B \subseteq X
  BY DEF Below
<1>2. Grows(n, up, B)
  BY DEF Below, Grows
<1>3. B \subseteq id .. n - 1
  <2>1. id .. n - 1 \in SUBSET (0 .. n - 1) /\ id \in id .. n - 1
    OBVIOUS
  <2>2. Grows(n, up, id .. n - 1)
    <3> SUFFICES ASSUME NEW k \in 1 .. n - 1, up[k] \in id .. n - 1 PROVE k \in id .. n - 1
      BY DEF Grows
    <3>1. up[k] \in 0 .. k - 1
      BY DEF Shape
    <3> QED BY <3>1
  <2> QED BY <1>1, <2>1, <2>2
<1>4. ASSUME NEW m \in B, m # id PROVE m \in 1 .. n - 1 /\ up[m] \in B
  <2> DEFINE X == {k \in B : k = id \/ up[k] \in B}
  <2>1. Grows(n, up, X) /\ id \in X
    BY <1>1, <1>2 DEF Grows
  <2>2. X \in SUBSET (0 .. n - 1)
    BY <1>3
  <2>3. m \in X
    <3> HIDE DEF X, B
    <3> QED BY <1>1, <2>1, <2>2
  <2>4. m \in id .. n - 1
    BY <1>3
  <2> QED BY <1>4, <2>3, <2>4
<1> HIDE DEF B
<1> QED BY <1>1, <1>2, <1>3, <1>4 DEF B

LEMMA AllAreBelowTheRoot ==
    ASSUME NEW n \in Nat \ {0}, NEW kids, NEW up, Shape(n, kids, up)
    PROVE  Below(n, up, 0) = 0 .. n - 1
<1> DEFINE B == Below(n, up, 0)
<1>1. 0 \in B /\ B \in SUBSET (0 .. n - 1) /\ Grows(n, up, B)
  BY BelowGrows
<1> HIDE DEF B
<1>2. ASSUME NEW k \in 0 .. n - 1, \A j \in 0 .. k - 1 : j \in B PROVE k \in B
  <2>1. CASE k = 0
    BY <1>1, <2>1
  <2>2. CASE k # 0
    <3>1. k \in 1 .. n - 1
      BY <2>2
    <3>2. up[k] \in B
      BY <1>2, <3>1 DEF Shape
    <3> QED BY <1>1, <3>1, <3>2 DEF Grows
  <2> QED BY <2>1, <2>2
<1>3. 0 .. n - 1 \subseteq B
  BY <1>2, UpwardInduction
<1> QED BY <1>1, <1>3 DEF B

(* Below a node are itself and what is below its children, ...             *)
LEMMA BelowIsOfTheChildren ==
    ASSUME NEW n \in Nat, NEW kids, NEW up, Shape(n, kids, up), NEW id \in 0 .. n - 1
    PROVE  Below(n, up, id) = {id} \cup UNION {Below(n, up, kids[id][i]) : i \in 1 .. Len(kids[id])}
<1> DEFINE B == Below(n, up, id)
           l == Len(kids[id])
           K(i) == Below(n, up, kids[id][i])
           U == {id} \cup UNION {K(i) : i \in 1 .. l}
<1>1. id \in B /\ B \in SUBSET (0 .. n - 1) /\ Grows(n, up, B)
      /\ \A X \in SUBSET (0 .. n - 1) : id \in X /\ Grows(n, up, X) => B \subseteq X
  BY BelowGrows
<1>2. ASSUME NEW i \in 1 .. l
      PROVE  /\ kids[id][i] \in 1 .. n - 1 /\ up[kids[id][i]] = id
             /\ kids[id][i] \in K(i) /\ K(i) \in SUBSET (0 .. n - 1) /\ Grows(n, up, K(i))
             /\ \A X \in SUBSET (0 .. n - 1) : kids[id][i] \in X /\ Grows(n, up, X) => K(i) \subseteq X
  <2>1. kids[id][i] \in 1 .. n - 1 /\ up[kids[id][i]] = id
    BY DEF Shape
  <2>2. kids[id][i] \in 0 .. n - 1
    BY <2>1
  <2>3. PICK k \in 0 .. n - 1 : k = kids[id][i]
    BY <2>2
  <2>4. Below(n, up, k) \in SUBSET (k .. n - 1)
    BY BelowGrows
  <2>5. Below(n, up, k) \in SUBSET (0 .. n - 1)
    BY <2>4
  <2> QED BY <2>1, <2>3, <2>5, BelowGrows
<1> HIDE DEF B, K
<1>3. ASSUME NEW i \in 1 .. l PROVE K(i) \subseteq B
  <2>1. kids[id][i] \in B
    BY <1>1, <1>2 DEF Grows
  <2> QED BY <1>1, <1>2, <2>1
<1>4. Grows(n, up, U)
  <2> SUFFICES ASSUME NEW k \in 1 .. n - 1, up[k] \in U PROVE k \in U
    BY DEF Grows
  <2>1. CASE up[k] = id
    <3>1. PICK i \in 1 .. l : kids[id][i] = k
      BY <2>1 DEF Shape
    <3>2. k \in K(i)
      BY <1>2, <3>1
    <3> QED BY <3>2
  <2>2. CASE up[k] # id
    <3>1. PICK i \in 1 .. l : up[k] \in K(i)
      BY <2>2
    <3>2. k \in K(i)
      BY <1>2, <3>1 DEF Grows
    <3> QED BY <3>2
  <2> QED BY <2>1, <2>2
<1>5. U \in SUBSET (0 .. n - 1) /\ id \in U
  BY <1>2
<1>6. B \subseteq U
  BY <1>1, <1>4, <1>5
<1>7. U \subseteq B
  BY <1>1, <1>3
<1> QED BY <1>6, <1>7 DEF B, K

(* ... and nothing is below two of them.                                   *)
LEMMA BranchesAreApart ==
    ASSUME NEW n \in Nat, NEW kids, NEW up, Shape(n, kids, up),
           NEW a \in 1 .. n - 1, NEW b \in 1 .. n - 1, a # b, up[a] = up[b]
    PROVE  Below(n, up, a) \cap Below(n, up, b) = {}
<1> DEFINE p == up[a]
           X == {k \in p + 1 .. n - 1 : k \notin Below(n, up, b)}
<1>1. p \in 0 .. a - 1 /\ p \in 0 .. b - 1
  BY DEF Shape
<1>2. /\ b \in Below(n, up, b) /\ Below(n, up, b) \in SUBSET (b .. n - 1)
      /\ \A m \in Below(n, up, b) : m # b => m \in 1 .. n - 1 /\ up[m] \in Below(n, up, b)
  <2>1. b \in 0 .. n - 1
    OBVIOUS
  <2> QED BY <2>1, BelowGrows
<1>3. a \in X
  <2>1. p \notin Below(n, up, b)
    BY <1>1, <1>2
  <2>2. a \notin Below(n, up, b)
    BY <1>2, <2>1
  <2> QED BY <1>1, <2>2
<1>4. Grows(n, up, X)
  <2> SUFFICES ASSUME NEW k \in 1 .. n - 1, up[k] \in X PROVE k \in X
    BY DEF Grows
  <2>1. up[k] \in 0 .. k - 1
    BY DEF Shape
  <2>2. k \in p + 1 .. n - 1
    BY <1>1, <2>1
  <2>3. k # b
    BY <1>1
  <2>4. k \notin Below(n, up, b)
    BY <1>2, <2>3
  <2> QED BY <2>2, <2>4
<1>5. X \in SUBSET (0 .. n - 1)
  BY <1>1
<1>6. Below(n, up, a) \subseteq X
  <2>1. a \in 0 .. n - 1
    OBVIOUS
  <2> HIDE DEF X
  <2> QED BY <1>3, <1>4, <1>5, <2>1, BelowGrows
<1> QED BY <1>6

(* What is of X below a node is counted child by child.                    *)
Counted(v, n, up, id, s, X) ==
    /\ v[0] = IF id \in X THEN 1 ELSE 0
    /\ \A i \in 1 .. Len(s) : v[i] = v[i - 1] + Cardinality(X \cap Below(n, up, s[i]))
    /\ v[Len(s)] = Cardinality(X \cap Below(n, up, id))

LEMMA CountedByChildren ==
    ASSUME NEW n \in Nat, NEW kids, NEW up, Shape(n, kids, up), NEW id \in 0 .. n - 1,
           NEW X \in SUBSET (0 .. n - 1)
    PROVE  \E v \in [0 .. Len(kids[id]) -> Nat] : Counted(v, n, up, id, kids[id], X)
<1> DEFINE l == Len(kids[id])
           K(i) == Below(n, up, kids[id][i])
           Upto(i) == {id} \cup UNION {K(j) : j \in 1 .. i}
           v == [i \in 0 .. l |-> Cardinality(X \cap Upto(i))]
<1>1. l \in Nat /\ \A i \in 1 .. l : kids[id][i] \in id + 1 .. n - 1 /\ up[kids[id][i]] = id
  BY DEF Shape
<1>2. ASSUME NEW i \in 1 .. l PROVE K(i) \in SUBSET (id + 1 .. n - 1)
  <2>1. PICK k \in 0 .. n - 1 : k = kids[id][i] /\ k \in id + 1 .. n - 1
    BY <1>1
  <2>2. Below(n, up, k) \in SUBSET (k .. n - 1)
    BY BelowGrows
  <2>3. K(i) \in SUBSET (k .. n - 1)
    BY <2>1, <2>2
  <2> HIDE DEF K
  <2> QED BY <2>1, <2>3
<1>3. ASSUME NEW i \in 1 .. l, NEW j \in 1 .. l, i # j PROVE K(i) \cap K(j) = {}
  <2>1. PICK a \in 1 .. n - 1, b \in 1 .. n - 1 : a = kids[id][i] /\ b = kids[id][j]
    BY <1>1
  <2>2. a # b /\ up[a] = up[b]
    BY <1>1, <1>3, <2>1 DEF Shape
  <2> QED BY <2>1, <2>2, BranchesAreApart
<1>4. K(0) = K(0) /\ Upto(l) = Below(n, up, id)
  BY BelowIsOfTheChildren
<1> HIDE DEF K
<1>5. ASSUME NEW S \in SUBSET (0 .. n - 1) PROVE IsFiniteSet(S) /\ Cardinality(S) \in Nat
  <2>1. IsFiniteSet(0 .. n - 1)
    BY FS_Interval
  <2> QED BY <2>1, FS_Subset, FS_CardinalityType
<1>6. v[0] = IF id \in X THEN 1 ELSE 0
  <2>1. Upto(0) = {id} /\ v[0] = Cardinality(X \cap Upto(0))
    BY <1>1
  <2>2. X \cap {id} = IF id \in X THEN {id} ELSE {}
    OBVIOUS
  <2>3. Cardinality({id}) = 1 /\ Cardinality({}) = 0
    BY FS_Singleton, FS_EmptySet
  <2> HIDE DEF v, Upto
  <2> QED BY <2>1, <2>2, <2>3
<1>7. ASSUME NEW i \in 1 .. l PROVE v[i] = v[i - 1] + Cardinality(X \cap K(i))
  <2>1. Upto(i) = Upto(i - 1) \cup K(i)
    <3>1. 1 .. i = (1 .. i - 1) \cup {i}
      BY <1>1
    <3> QED BY <3>1
  <2>2. Upto(i - 1) \cap K(i) = {}
    <3>1. id \notin K(i)
      BY <1>2
    <3>2. ASSUME NEW j \in 1 .. i - 1 PROVE K(j) \cap K(i) = {}
      <4>1. j \in 1 .. l /\ j # i
        BY <1>1
      <4> QED BY <1>3, <4>1
    <3> QED BY <3>1, <3>2
  <2>3. v[i] = Cardinality(X \cap Upto(i)) /\ v[i - 1] = Cardinality(X \cap Upto(i - 1))
    BY <1>1
  <2> HIDE DEF v, Upto
  <2>4. X \cap Upto(i) = (X \cap Upto(i - 1)) \cup (X \cap K(i))
    BY <2>1
  <2>5. (X \cap Upto(i - 1)) \cap (X \cap K(i)) = {}
    BY <2>2
  <2>6. X \cap Upto(i - 1) \in SUBSET (0 .. n - 1) /\ X \cap K(i) \in SUBSET (0 .. n - 1)
    OBVIOUS
  <2>7. PICK A, C : A = X \cap Upto(i - 1) /\ C = X \cap K(i)
    OBVIOUS
  <2>8. IsFiniteSet(A) /\ IsFiniteSet(C) /\ A \cap C = {} /\ Cardinality(A) \in Nat /\ Cardinality(C) \in Nat
    BY <1>5, <2>5, <2>6, <2>7
  <2>9. Cardinality(A \cup C) = Cardinality(A) + Cardinality(C)
    <3>1. Cardinality(A \cup C) = Cardinality(A) + Cardinality(C) - Cardinality(A \cap C)
      BY <2>8, FS_Union
    <3>2. Cardinality(A \cap C) = 0
      BY <2>8, FS_EmptySet
    <3> QED BY <2>8, <3>1, <3>2
  <2> QED BY <2>3, <2>4, <2>7, <2>9
<1>8. v \in [0 .. l -> Nat]
  BY <1>5
<1>9. v[l] = Cardinality(X \cap Below(n, up, id))
  <2>1. v[l] = Cardinality(X \cap Upto(l))
    BY <1>1
  <2> HIDE DEF v, Upto
  <2> QED BY <1>4, <2>1
<1> HIDE DEF v, Upto
<1> QED BY <1>6, <1>7, <1>8, <1>9 DEF K, Counted

LEMMA GreatestIs ==
    ASSUME NEW n \in Nat, NEW s \in SUBSET (0 .. n), s # {}
    PROVE  Max(s) \in s /\ \A x \in s : Max(s) >= x
BY GreatestExists DEF Max

(* A fold over a sequence, from left to right, one element at a time.      *)
Threaded(f, base, s) == FoldLeft(LAMBDA so_far, kid : f[<<kid, so_far>>], base, s)

Threads(v, f, base, s) ==
    /\ v[0] = base /\ \A i \in DOMAIN s : v[i] = f[<<s[i], v[i - 1]>>]
    /\ Threaded(f, base, s) = v[Len(s)]

LEMMA ThreadedFold ==
    ASSUME NEW P, NEW l \in Nat, NEW s, DOMAIN s = 1 .. l, Len(s) = l, NEW f, NEW base \in P,
           \A i \in 1 .. l, p \in P : f[<<s[i], p>>] \in P
    PROVE  \E v \in [0 .. l -> P] : Threads(v, f, base, s)
<1> DEFINE S == 1 .. l
           next(g, u) == IF u = {} THEN base ELSE f[<<s[Max(u)], g[u \ {Max(u)}]>>]
           c == [u \in (SUBSET S) \ {{}} |-> Max(u)]
           step == [at \in S \X P |-> f[<<s[at[1]], at[2]>>]]
           Fold == CHOOSE g : g = [u \in SUBSET S |-> next(g, u)]
<1>1. Threaded(f, base, s) = Fold[S]
  BY DEF Threaded, FoldLeft, MapThenFoldSet
<1>2. \A u \in (SUBSET S) \ {{}} : c[u] = Max(u) /\ c[u] \in u
  <2> SUFFICES ASSUME NEW u \in (SUBSET S) \ {{}} PROVE c[u] = Max(u) /\ Max(u) \in u
    OBVIOUS
  <2>1. u \in SUBSET (0 .. l) /\ u # {}
    OBVIOUS
  <2> QED BY <2>1, GreatestIs
<1>3. step \in [S \X P -> P]
  OBVIOUS
<1>4. PICK G \in [SUBSET S -> P] : Folds(G, S, base, step, c)
  <2>1. IsFiniteSet(S)
    <3>1. 1 \in Int /\ l \in Int
      OBVIOUS
    <3> QED BY <3>1, FS_Interval
  <2> HIDE DEF c, step, S
  <2> QED BY <1>2, <1>3, <2>1, FoldExists
<1>5. ASSUME NEW u \in SUBSET S PROVE G[u] = next(G, u)
  <2>1. CASE u = {}
    BY <1>4, <2>1 DEF Folds
  <2>2. CASE u # {}
    <3>1. PICK x : x = c[u] /\ x \in u /\ x = Max(u)
      BY <1>2, <2>2
    <3>2. G[u] = step[<<x, G[u \ {x}]>>]
      BY <1>4, <2>2, <3>1 DEF Folds
    <3>3. PICK v \in P : v = G[u \ {x}]
      <4>1. u \ {x} \in SUBSET S
        OBVIOUS
      <4> QED BY <4>1
    <3>4. step[<<x, v>>] = f[<<s[x], v>>]
      BY <3>1
    <3> HIDE DEF step
    <3> QED BY <2>2, <3>1, <3>2, <3>3, <3>4
  <2> QED BY <2>1, <2>2
<1>6. Fold = [u \in SUBSET S |-> next(Fold, u)]
  <2>1. G = [u \in SUBSET S |-> next(G, u)]
    <3>1. G = [u \in SUBSET S |-> G[u]]
      BY <1>4
    <3> HIDE DEF next
    <3> QED BY <1>5, <3>1
  <2> HIDE DEF next
  <2> QED BY <2>1
<1> HIDE DEF Fold
<1>7. Fold[{}] = base /\ \A k \in S : Fold[1 .. k] = f[<<s[k], Fold[1 .. k - 1]>>]
  <2>1. ASSUME NEW k \in S PROVE Fold[1 .. k] = f[<<s[k], Fold[1 .. k - 1]>>]
    <3>1. 1 .. k \in SUBSET S /\ 1 .. k # {} /\ k \in 1 .. k /\ 1 .. k \in SUBSET (0 .. l)
      OBVIOUS
    <3>2. Max(1 .. k) = k
      <4>1. Max(1 .. k) \in 1 .. k /\ Max(1 .. k) >= k
        BY <3>1, GreatestIs
      <4> QED BY <4>1
    <3>3. (1 .. k) \ {k} = 1 .. k - 1
      OBVIOUS
    <3>4. Fold[1 .. k] = next(Fold, 1 .. k)
      <4> HIDE DEF next
      <4> QED BY <1>6, <3>1
    <3> QED BY <3>1, <3>2, <3>3, <3>4
  <2>2. Fold[{}] = base
    BY <1>6
  <2> QED BY <2>1, <2>2
<1> DEFINE v == [k \in 0 .. l |-> Fold[1 .. k]]
<1>8. v[0] = base /\ \A i \in 1 .. l : v[i] = f[<<s[i], v[i - 1]>>]
  <2>1. v[0] = base
    <3>1. 1 .. 0 = {}
      OBVIOUS
    <3> QED BY <1>7, <3>1
  <2>2. ASSUME NEW k \in 1 .. l PROVE v[k] = f[<<s[k], v[k - 1]>>]
    <3>1. k \in 0 .. l /\ k - 1 \in 0 .. l
      OBVIOUS
    <3> QED BY <1>7, <3>1
  <2> HIDE DEF v
  <2> QED BY <2>1, <2>2
<1>9. v \in [0 .. l -> P]
  <2> HIDE DEF v
  <2> DEFINE Good == {k \in 0 .. l : v[k] \in P}
  <2>1. 0 \in Good
    BY <1>8
  <2>2. ASSUME NEW k \in 1 .. l, k - 1 \in Good PROVE k \in Good
    <3>1. v[k] = f[<<s[k], v[k - 1]>>] /\ v[k - 1] \in P
      BY <1>8, <2>2
    <3>2. v[k] \in P
      <4>1. PICK p \in P : p = v[k - 1]
        BY <3>1
      <4> QED BY <3>1, <4>1
    <3> QED BY <3>2
  <2> HIDE DEF Good
  <2>3. 0 .. l \subseteq Good
    BY <2>1, <2>2, RoundsInduction
  <2>4. \A k \in 0 .. l : v[k] \in P
    BY <2>3 DEF Good
  <2> QED BY <2>4 DEF v
<1>10. v[l] = Fold[S]
  OBVIOUS
<1> HIDE DEF v
<1>11. Threaded(f, base, s) = v[l]
  BY <1>1, <1>10
<1> QED BY <1>8, <1>9, <1>11 DEF Threads

(***************************************************************************)
(* Branches and split points                                               *)
(***************************************************************************)
Sums == Nat \X Nat
InfoStep(t, f, at) ==
    IF NumChildren(t, at[1]) = 0 THEN at[2]
    ELSE Threaded(f, <<at[2][1] + NumChildren(t, at[1]), at[2][2] + 1>>, Children(t, at[1]))

(* What is added to the sums below a node: all nodes but itself, and those *)
(* that have children.                                                     *)
Added(n, up, inner, at) ==
    <<at[2][1] + Cardinality(Below(n, up, at[1])) - 1,
      at[2][2] + Cardinality(inner \cap Below(n, up, at[1]))>>

(* f adds to the sums, at each of the nodes s, what is below it.            *)
Adds(f, n, up, inner, s, l) ==
    \A i \in 1 .. l, sums \in Sums : f[<<s[i], sums>>] = Added(n, up, inner, <<s[i], sums>>)

Summed(f, x, y, s, l) == IF l = 0 THEN <<x, y>> ELSE Threaded(f, <<x + l, y + 1>>, s)

(* The l nodes s are the children of a node, which is inner if there is one. *)
AreOf(s, l, kids, id, inner) == s = kids[id] /\ l = Len(s) /\ (id \in inner <=> l > 0)

LEMMA ChildrenAdd ==
    ASSUME NEW n \in Nat, NEW kids, NEW up, Shape(n, kids, up), NEW id \in 0 .. n - 1,
           NEW inner \in SUBSET (0 .. n - 1), NEW s, NEW l \in Nat, AreOf(s, l, kids, id, inner),
           NEW x \in Nat, NEW y \in Nat, NEW f,
           Adds(f, n, up, inner, s, l)
    PROVE  Summed(f, x, y, s, l) = Added(n, up, inner, <<id, <<x, y>>>>)
<1>1. SUFFICES (IF l = 0 THEN <<x, y>> ELSE Threaded(f, <<x + l, y + 1>>, s))
                 = Added(n, up, inner, <<id, <<x, y>>>>)
  BY DEF Summed
<1>0. s = kids[id] /\ l = Len(s) /\ (id \in inner <=> l > 0)
  BY DEF AreOf
<1>2. DOMAIN s = 1 .. l /\ \A i \in 1 .. l : s[i] \in 0 .. n - 1
  <2>1. kids[id] \in [1 .. Len(kids[id]) -> 0 .. n - 1]
    BY DEF Shape
  <2>2. s \in [1 .. l -> 0 .. n - 1]
    BY <1>0, <2>1
  <2> QED BY <2>2
<1>3. \A i \in 1 .. l, sums \in Sums : f[<<s[i], sums>>] = Added(n, up, inner, <<s[i], sums>>)
  BY DEF Adds
<1>8. PICK a \in [0 .. l -> Nat] :
        /\ a[0] = 1 /\ a[l] = Cardinality(Below(n, up, id))
        /\ \A i \in 1 .. l : a[i] = a[i - 1] + Cardinality(Below(n, up, s[i]))
  <2>1. PICK X \in SUBSET (0 .. n - 1) : X = 0 .. n - 1
    OBVIOUS
  <2>2. PICK a \in [0 .. Len(kids[id]) -> Nat] : Counted(a, n, up, id, kids[id], X)
    BY CountedByChildren
  <2>3. \A k : X \cap Below(n, up, k) = Below(n, up, k)
    BY <2>1 DEF Below
  <2>4. a \in [0 .. l -> Nat] /\ id \in X
    BY <1>0, <2>1
  <2>5. a[0] = 1
    BY <2>2, <2>4 DEF Counted
  <2>6. a[l] = Cardinality(X \cap Below(n, up, id))
    BY <1>0, <2>2 DEF Counted
  <2>7. \A i \in 1 .. l : a[i] = a[i - 1] + Cardinality(X \cap Below(n, up, s[i]))
    BY <1>0, <2>2 DEF Counted
  <2>8. a[l] = Cardinality(Below(n, up, id))
    BY <2>3, <2>6
  <2>9. \A i \in 1 .. l : a[i] = a[i - 1] + Cardinality(Below(n, up, s[i]))
    BY <2>3, <2>7
  <2> QED BY <2>4, <2>5, <2>8, <2>9
<1>9. PICK c \in [0 .. l -> Nat] :
        /\ c[0] = (IF l > 0 THEN 1 ELSE 0) /\ c[l] = Cardinality(inner \cap Below(n, up, id))
        /\ \A i \in 1 .. l : c[i] = c[i - 1] + Cardinality(inner \cap Below(n, up, s[i]))
  <2>1. PICK c \in [0 .. Len(kids[id]) -> Nat] : Counted(c, n, up, id, kids[id], inner)
    BY CountedByChildren
  <2> QED BY <1>0, <2>1 DEF Counted
<1>10. Added(n, up, inner, <<id, <<x, y>>>>) = <<x + a[l] - 1, y + c[l]>>
  BY <1>8, <1>9 DEF Added
<1>11. CASE l = 0
  <2>1. x + 1 - 1 = x /\ y + 0 = y
    OBVIOUS
  <2> QED BY <1>8, <1>9, <1>10, <1>11, <2>1
<1>12. CASE l > 0
  <2>1. ASSUME NEW i \in 1 .. l
        PROVE  /\ Cardinality(Below(n, up, s[i])) \in Nat \ {0} /\ Cardinality(inner \cap Below(n, up, s[i])) \in Nat
               /\ a[i - 1] \in Nat /\ c[i - 1] \in Nat
               /\ a[i] = a[i - 1] + Cardinality(Below(n, up, s[i]))
               /\ c[i] = c[i - 1] + Cardinality(inner \cap Below(n, up, s[i]))
    <3>1. PICK k \in 0 .. n - 1 : k = s[i]
      BY <1>2
    <3>2. k \in Below(n, up, k) /\ Below(n, up, k) \in SUBSET (0 .. n - 1)
      <4>1. Below(n, up, k) \in SUBSET (k .. n - 1) /\ k \in Below(n, up, k)
        BY BelowGrows
      <4> QED BY <4>1
    <3>3. IsFiniteSet(0 .. n - 1)
      <4>1. 0 \in Int /\ n - 1 \in Int
        OBVIOUS
      <4> QED BY <4>1, FS_Interval
    <3>4. IsFiniteSet(Below(n, up, k)) /\ IsFiniteSet(inner \cap Below(n, up, k))
      BY <3>2, <3>3, FS_Subset
    <3>5. /\ Cardinality(Below(n, up, k)) \in Nat /\ Cardinality(inner \cap Below(n, up, k)) \in Nat
          /\ Cardinality(Below(n, up, k)) # 0
      BY <3>2, <3>4, FS_CardinalityType, FS_EmptySet
    <3>6. i - 1 \in 0 .. l
      BY <1>2
    <3> QED BY <1>8, <1>9, <3>1, <3>5, <3>6
  <2> DEFINE base == <<x + l, y + 1>>
  <2>2. base \in Sums /\ DOMAIN s = 1 .. l
    BY <1>2 DEF Sums
  <2>3. ASSUME NEW i \in 1 .. l, NEW p \in Sums PROVE f[<<s[i], p>>] \in Sums
    <3>1. PICK p1 \in Nat, p2 \in Nat : p = <<p1, p2>>
      BY DEF Sums
    <3>2. f[<<s[i], p>>] = <<p1 + Cardinality(Below(n, up, s[i])) - 1, p2 + Cardinality(inner \cap Below(n, up, s[i]))>>
      BY <1>3, <3>1 DEF Added
    <3>3. PICK q \in Nat \ {0}, r \in Nat : q = Cardinality(Below(n, up, s[i])) /\ r = Cardinality(inner \cap Below(n, up, s[i]))
      BY <2>1
    <3>4. p1 + q - 1 \in Nat /\ p2 + r \in Nat
      OBVIOUS
    <3> QED BY <3>2, <3>3, <3>4 DEF Sums
  <2>4. PICK v \in [0 .. l -> Sums] :
          /\ v[0] = base /\ \A i \in 1 .. l : v[i] = f[<<s[i], v[i - 1]>>]
          /\ Threaded(f, base, s) = v[l]
    <3> HIDE DEF base
    <3>1. \E v \in [0 .. l -> Sums] : Threads(v, f, base, s)
      BY <1>0, <2>2, <2>3, ThreadedFold
    <3> QED BY <1>0, <1>2, <3>1 DEF Threads
  <2> DEFINE Good == {i \in 0 .. l : v[i] = <<x + (l - i) + a[i] - 1, y + c[i]>>}
  <2>5. 0 \in Good
    <3>1. x + (l - 0) + 1 - 1 = x + l
      BY <1>2
    <3>2. <<x + (l - 0) + a[0] - 1, y + c[0]>> = base
      BY <1>8, <1>9, <1>12, <3>1
    <3> QED BY <1>2, <2>4, <3>2
  <2>6. ASSUME NEW i \in 1 .. l, i - 1 \in Good PROVE i \in Good
    <3>1. v[i] = f[<<s[i], v[i - 1]>>]
      BY <2>4
    <3>2. PICK q \in Nat, r \in Nat, a0 \in Nat, c0 \in Nat :
            /\ q = Cardinality(Below(n, up, s[i])) /\ r = Cardinality(inner \cap Below(n, up, s[i]))
            /\ a0 = a[i - 1] /\ c0 = c[i - 1] /\ a[i] = a0 + q /\ c[i] = c0 + r
      <4>1. PICK q, r, a0, c0 :
              /\ q = Cardinality(Below(n, up, s[i])) /\ r = Cardinality(inner \cap Below(n, up, s[i]))
              /\ a0 = a[i - 1] /\ c0 = c[i - 1]
        OBVIOUS
      <4>2. q \in Nat /\ r \in Nat /\ a0 \in Nat /\ c0 \in Nat /\ a[i] = a0 + q /\ c[i] = c0 + r
        BY <2>1, <4>1
      <4> QED BY <4>1, <4>2
    <3>3. v[i - 1] = <<x + (l - (i - 1)) + a0 - 1, y + c0>> /\ v[i - 1] \in Sums
      <4>1. i - 1 \in 0 .. l
        BY <1>2
      <4> QED BY <2>4, <2>6, <3>2, <4>1
    <3>4. f[<<s[i], v[i - 1]>>] = <<(x + (l - (i - 1)) + a0 - 1) + q - 1, (y + c0) + r>>
      <4>1. PICK p : p = v[i - 1]
        OBVIOUS
      <4>2. f[<<s[i], p>>] = Added(n, up, inner, <<s[i], p>>)
        BY <1>3, <3>3, <4>1
      <4>3. Added(n, up, inner, <<s[i], p>>) = <<p[1] + q - 1, p[2] + r>>
        BY <3>2 DEF Added
      <4>4. p[1] = x + (l - (i - 1)) + a0 - 1 /\ p[2] = y + c0
        BY <3>3, <4>1
      <4> QED BY <4>1, <4>2, <4>3, <4>4
    <3>5. (x + (l - (i - 1)) + a0 - 1) + q - 1 = x + (l - i) + (a0 + q) - 1 /\ (y + c0) + r = y + (c0 + r)
      <4>1. i \in Int /\ l \in Int /\ x \in Int /\ a0 \in Int /\ q \in Int /\ y \in Int /\ c0 \in Int /\ r \in Int
        OBVIOUS
      <4> QED BY ONLY <4>1
    <3>6. v[i] = <<x + (l - i) + a[i] - 1, y + c[i]>>
      <4>1. v[i] = <<x + (l - i) + (a0 + q) - 1, (y + c0) + r>>
        BY ONLY <3>1, <3>4, <3>5
      <4>2. (y + c0) + r = y + (c0 + r)
        OBVIOUS
      <4> QED BY ONLY <4>1, <4>2, <3>2
    <3> QED BY <1>2, <3>6
  <2> HIDE DEF Good
  <2>7. l \in Good
    <3>1. 0 .. l \subseteq Good
      BY <1>2, <2>5, <2>6, RoundsInduction
    <3> QED BY <1>2, <3>1
  <2>8. v[l] = <<x + a[l] - 1, y + c[l]>>
    <3>1. a[l] \in Nat /\ x + (l - l) + a[l] - 1 = x + a[l] - 1
      BY <1>2
    <3> QED BY <2>7, <3>1 DEF Good
  <2>9. l # 0
    BY <1>12
  <2>10. (IF l = 0 THEN <<x, y>> ELSE Threaded(f, base, s)) = v[l]
    BY <2>4, <2>9
  <2>11. v[l] = Added(n, up, inner, <<id, <<x, y>>>>)
    BY <1>10, <2>8
  <2> QED BY <2>10, <2>11
<1> QED BY <1>11, <1>12

InfoOf(t) == CHOOSE f : f = [at \in NodeIds(t) \X Sums |-> InfoStep(t, f, at)]

LEMMA BranchInfoIs ==
    ASSUME NEW t
    PROVE  BranchInfo(t) = InfoOf(t)[<<0, <<0, 0>>>>]
BY DEF BranchInfo, InfoOf, InfoStep, Threaded, Sums, FoldLeft, MapThenFoldSet

LEMMA BranchesAreCounted ==
    ASSUME NEW I, NEW t \in SoundTrees(I), HasRoot(t)
    PROVE  BranchInfo(t) = <<Size(t) - 1, Cardinality({id \in NodeIds(t) : NumChildren(t, id) > 0})>>
<1> DEFINE n == Size(t)
           inner == {id \in NodeIds(t) : NumChildren(t, id) > 0}
           S == NodeIds(t) \X Sums
           up == UpOf(t)
           G == [at \in S |-> Added(n, up, inner, at)]
           info == InfoOf(t)
<1>1. n \in Nat /\ NodeIds(t) = 0 .. n - 1 /\ Shape(n, KidsOf(t), up)
  BY TreesHaveAShape
<1>2. inner \in SUBSET (0 .. n - 1)
  BY <1>1
<1>3. ASSUME NEW id \in 0 .. n - 1
      PROVE  /\ KidsOf(t)[id] = Children(t, id) /\ NumChildren(t, id) = Len(Children(t, id))
             /\ NumChildren(t, id) \in Nat /\ (id \in inner <=> NumChildren(t, id) > 0)
             /\ \A i \in 1 .. NumChildren(t, id) : Children(t, id)[i] \in id + 1 .. n - 1
  <2>1. KidsOf(t)[id] = Children(t, id) /\ NumChildren(t, id) = Len(Children(t, id))
    BY <1>1 DEF KidsOf, NumChildren
  <2>2. NumChildren(t, id) \in Nat
    BY <1>1, <2>1 DEF Shape
  <2>3. id \in inner <=> NumChildren(t, id) > 0
    BY <1>1
  <2>4. \A i \in 1 .. NumChildren(t, id) : Children(t, id)[i] \in id + 1 .. n - 1
    BY <1>1, <2>1 DEF Shape
  <2> QED BY <2>1, <2>2, <2>3, <2>4
<1> HIDE DEF n, inner, up
<1>4. ASSUME NEW f, NEW id \in 0 .. n - 1, NEW x \in Nat, NEW y \in Nat,
             \A i \in 1 .. NumChildren(t, id), sums \in Sums :
               f[<<Children(t, id)[i], sums>>] = Added(n, up, inner, <<Children(t, id)[i], sums>>)
      PROVE  InfoStep(t, f, <<id, <<x, y>>>>) = Added(n, up, inner, <<id, <<x, y>>>>)
  <2>1. PICK l \in Nat : l = NumChildren(t, id)
    BY <1>3
  <2>0. PICK s : s = Children(t, id)
    OBVIOUS
  <2>2. AreOf(s, l, KidsOf(t), id, inner)
    BY <1>3, <2>0, <2>1 DEF AreOf
  <2>3. Adds(f, n, up, inner, s, l)
    BY <1>4, <2>0, <2>1 DEF Adds
  <2>4. Summed(f, x, y, s, l) = Added(n, up, inner, <<id, <<x, y>>>>)
    BY ONLY <1>1, <1>2, <2>2, <2>3, ChildrenAdd, id \in 0 .. n - 1, x \in Nat, y \in Nat, l \in Nat
  <2>5. InfoStep(t, f, <<id, <<x, y>>>>) = Summed(f, x, y, s, l)
    BY <2>0, <2>1 DEF InfoStep, Summed
  <2> QED BY <2>4, <2>5
<1>5. G = [at \in S |-> InfoStep(t, G, at)]
  <2>1. ASSUME NEW at \in S PROVE G[at] = InfoStep(t, G, at)
    <3>1. PICK id \in 0 .. n - 1, x \in Nat, y \in Nat : at = <<id, <<x, y>>>>
      BY <1>1 DEF Sums
    <3>2. \A i \in 1 .. NumChildren(t, id), sums \in Sums :
            G[<<Children(t, id)[i], sums>>] = Added(n, up, inner, <<Children(t, id)[i], sums>>)
      <4>1. \A i \in 1 .. NumChildren(t, id) : Children(t, id)[i] \in NodeIds(t)
        BY <1>1, <1>3
      <4> QED BY <4>1
    <3>3. G[at] = Added(n, up, inner, at)
      OBVIOUS
    <3> HIDE DEF G
    <3> QED BY <1>4, <3>1, <3>2, <3>3
  <2> QED BY <2>1
<1>6. info = [at \in S |-> InfoStep(t, info, at)]
  <2>1. \E f : f = [at \in S |-> InfoStep(t, f, at)]
    BY <1>5
  <2> QED BY <2>1 DEF InfoOf
<1> DEFINE Settled == {id \in 0 .. n - 1 :
                         \A sums \in Sums : info[<<id, sums>>] = Added(n, up, inner, <<id, sums>>)}
<1> HIDE DEF info, G
<1>7. ASSUME NEW id \in 0 .. n - 1, \A j \in id + 1 .. n - 1 : j \in Settled PROVE id \in Settled
  <2>1. \A i \in 1 .. NumChildren(t, id), sums \in Sums :
          info[<<Children(t, id)[i], sums>>] = Added(n, up, inner, <<Children(t, id)[i], sums>>)
    BY <1>3, <1>7
  <2>2. ASSUME NEW sums \in Sums PROVE info[<<id, sums>>] = Added(n, up, inner, <<id, sums>>)
    <3>1. PICK x \in Nat, y \in Nat : sums = <<x, y>>
      BY DEF Sums
    <3>2. InfoStep(t, info, <<id, <<x, y>>>>) = Added(n, up, inner, <<id, <<x, y>>>>)
      BY <1>4, <2>1
    <3>3. <<id, sums>> \in S
      BY <1>1
    <3>4. info[<<id, sums>>] = InfoStep(t, info, <<id, sums>>)
      BY <1>6, <3>3
    <3> QED BY <3>1, <3>2, <3>4
  <2> QED BY <2>2
<1> HIDE DEF Settled
<1>8. 0 .. n - 1 \subseteq Settled
  BY <1>1, <1>7, DownwardInduction
<1>9. n \in Nat \ {0} /\ 0 \in 0 .. n - 1
  BY <1>1 DEF HasRoot
<1>10. info[<<0, <<0, 0>>>>] = Added(n, up, inner, <<0, <<0, 0>>>>)
  <2>1. 0 \in Settled /\ <<0, 0>> \in Sums
    BY <1>8, <1>9 DEF Sums
  <2> QED BY <2>1 DEF Settled
<1>11. Below(n, up, 0) = 0 .. n - 1
  BY <1>1, <1>9, AllAreBelowTheRoot
<1>12. Cardinality(0 .. n - 1) = n
  BY <1>9, FS_Interval
<1>13. Added(n, up, inner, <<0, <<0, 0>>>>) = <<n - 1, Cardinality(inner)>>
  <2>1. inner \cap Below(n, up, 0) = inner
    BY <1>2, <1>11
  <2>2. Cardinality(inner) \in Nat
    <3>1. IsFiniteSet(0 .. n - 1)
      BY <1>9, FS_Interval
    <3> QED BY <1>2, <3>1, FS_Subset, FS_CardinalityType
  <2>3. PICK c \in Nat : c = Cardinality(inner)
    BY <2>2
  <2>4. 0 + n - 1 = n - 1 /\ 0 + c = c
    BY <1>9
  <2> QED BY <1>11, <1>12, <2>1, <2>3, <2>4 DEF Added
<1>14. BranchInfo(t) = info[<<0, <<0, 0>>>>]
  BY BranchInfoIs DEF info
<1> QED BY <1>10, <1>13, <1>14 DEF n, inner

(***************************************************************************)
(* Heights                                                                 *)
(***************************************************************************)
Depths(depth, n, up) ==
    /\ depth \in [0 .. n - 1 -> Nat]
    /\ n > 0 => depth[0] = 1
    /\ \A k \in 0 .. n - 1 : depth[k] \in 1 .. k + 1
    /\ \A k \in 1 .. n - 1 : depth[k] = depth[up[k]] + 1

DepthOf(t) == CHOOSE depth : depth = [id \in NodeIds(t) |->
                                        IF id = 0 THEN 1 ELSE depth[t.nodes[id].parent] + 1]

LEMMA DepthsGrow ==
    ASSUME NEW n \in Nat, NEW kids, NEW up, Shape(n, kids, up), NEW depth, Depths(depth, n, up),
           NEW id \in 0 .. n - 1, NEW k \in Below(n, up, id)
    PROVE  k \in 0 .. n - 1 /\ depth[k] \in 1 .. n /\ depth[id] \in 1 .. depth[k]
<1> DEFINE X == {j \in 0 .. n - 1 : depth[id] <= depth[j]}
<1>1. ASSUME NEW j \in 0 .. n - 1 PROVE depth[j] \in Nat /\ depth[j] \in 1 .. n
  <2>1. depth[j] \in 1 .. j + 1
    BY DEF Depths
  <2> QED BY <2>1
<1>2. id \in X
  BY <1>1
<1>3. Grows(n, up, X)
  <2>1. ASSUME NEW j \in 1 .. n - 1, up[j] \in X PROVE j \in X
    <3>1. up[j] \in 0 .. n - 1 /\ depth[id] <= depth[up[j]] /\ j \in 0 .. n - 1
      BY <2>1
    <3>2. depth[j] = depth[up[j]] + 1
      BY DEF Depths
    <3> QED BY <1>1, <3>1, <3>2
  <2> HIDE DEF X
  <2> QED BY <2>1 DEF Grows
<1>4. X \in SUBSET (0 .. n - 1)
  OBVIOUS
<1>5. k \in X
  <2> HIDE DEF X
  <2>1. Below(n, up, id) \subseteq X
    BY <1>2, <1>3, <1>4, BelowGrows
  <2> QED BY <2>1
<1> QED BY <1>1, <1>5

(* The depths below a node, if its own is d.                               *)
Reach(n, up, depth, id, d) == {d + depth[k] - depth[id] : k \in Below(n, up, id)}

LEMMA ReachIs ==
    ASSUME NEW n \in Nat, NEW kids, NEW up, Shape(n, kids, up), NEW depth, Depths(depth, n, up),
           NEW id \in 0 .. n - 1, NEW d \in Nat
    PROVE  /\ Reach(n, up, depth, id, d) \in SUBSET (d .. d + n)
           /\ d \in Reach(n, up, depth, id, d)
           /\ Max(Reach(n, up, depth, id, d)) \in Reach(n, up, depth, id, d)
           /\ \A x \in Reach(n, up, depth, id, d) : x <= Max(Reach(n, up, depth, id, d))
<1> DEFINE R == Reach(n, up, depth, id, d)
<1>1. ASSUME NEW k \in Below(n, up, id) PROVE d + depth[k] - depth[id] \in d .. d + n
  <2>1. depth[k] \in 1 .. n /\ depth[id] \in 1 .. depth[k]
    BY DepthsGrow
  <2> QED BY <2>1
<1>2. R \in SUBSET (d .. d + n)
  BY <1>1 DEF Reach
<1>3. d \in R
  <2>1. id \in Below(n, up, id)
    BY BelowGrows
  <2>2. depth[id] \in 1 .. n
    BY <2>1, DepthsGrow
  <2>3. d + depth[id] - depth[id] = d
    BY <2>2
  <2> QED BY <2>1, <2>3 DEF Reach
<1> HIDE DEF R
<1>4. R \in SUBSET (0 .. d + n) /\ R # {} /\ d + n \in Nat
  BY <1>2, <1>3
<1>5. Max(R) \in R /\ \A x \in R : Max(R) >= x
  BY <1>4, GreatestIs
<1>6. \A x \in R : x <= Max(R)
  BY <1>2, <1>5
<1> QED BY <1>2, <1>3, <1>5, <1>6 DEF R

(* Two sets of numbers whose elements are bounded by each other's.         *)
LEMMA SameGreatest ==
    ASSUME NEW m \in Nat, NEW A \in SUBSET (0 .. m), A # {}, NEW B \in SUBSET (0 .. m), B # {},
           \A x \in A : \E y \in B : x <= y, \A y \in B : \E x \in A : y <= x
    PROVE  Max(A) = Max(B)
<1>1. Max(A) \in A /\ \A x \in A : Max(A) >= x
  BY GreatestIs
<1>2. Max(B) \in B /\ \A x \in B : Max(B) >= x
  BY GreatestIs
<1>3. PICK a \in Nat, b \in Nat : a = Max(A) /\ b = Max(B)
  <2>1. Max(A) \in 0 .. m /\ Max(B) \in 0 .. m
    BY <1>1, <1>2
  <2>2. Max(A) \in Nat /\ Max(B) \in Nat
    BY <2>1
  <2> QED BY <2>2
<1>4. a <= b
  <2>1. PICK y \in B : a <= y
    BY <1>1, <1>3
  <2>2. y \in Nat /\ y <= b
    BY <1>2, <1>3
  <2> QED BY <2>1, <2>2
<1>5. b <= a
  <2>1. PICK x \in A : b <= x
    BY <1>2, <1>3
  <2>2. x \in Nat /\ x <= a
    BY <1>1, <1>3
  <2> QED BY <2>1, <2>2
<1> QED BY <1>3, <1>4, <1>5

(* calc_max_depth with what it gives for the children.                     *)
DeepStep(t, f, at) == Max({at[2]} \cup {f[<<kid, at[2] + 1>>] : kid \in ToSet(Children(t, at[1]))})
DeepestOf(t) == CHOOSE f : f = [at \in NodeIds(t) \X Nat |-> DeepStep(t, f, at)]

LEMMA MaxDepthIs ==
    ASSUME NEW t
    PROVE  MaxDepth(t, 0, 1) = DeepestOf(t)[<<0, 1>>]
BY DEF MaxDepth, DeepestOf, DeepStep

(* f gives the greatest depth below each of the nodes s, if it is at d.    *)
Reaches(f, n, up, depth, s, d) ==
    \A i \in 1 .. Len(s) : f[<<s[i], d>>] = Max(Reach(n, up, depth, s[i], d))

Deeper(f, s, d) == Max({d} \cup {f[<<kid, d + 1>>] : kid \in ToSet(s)})

LEMMA DeepestOfChildren ==
    ASSUME NEW n \in Nat, NEW kids, NEW up, Shape(n, kids, up), NEW depth, Depths(depth, n, up),
           NEW id \in 0 .. n - 1, NEW d \in Nat, NEW f,
           Reaches(f, n, up, depth, kids[id], d + 1)
    PROVE  Deeper(f, kids[id], d) = Max(Reach(n, up, depth, id, d))
<1> DEFINE l == Len(kids[id])
           kid(i) == kids[id][i]
           A == {d} \cup {f[<<k, d + 1>>] : k \in ToSet(kids[id])}
           B == Reach(n, up, depth, id, d)
<1>1. kids[id] \in [1 .. l -> 0 .. n - 1] /\ l \in Nat
  BY DEF Shape
<1>2. A = {d} \cup {f[<<kid(i), d + 1>>] : i \in 1 .. l}
  BY <1>1 DEF ToSet
<1>3. ASSUME NEW i \in 1 .. l
      PROVE  /\ kid(i) \in 0 .. n - 1 /\ depth[kid(i)] = depth[id] + 1 /\ depth[id] \in Nat
             /\ f[<<kid(i), d + 1>>] = Max(Reach(n, up, depth, kid(i), d + 1))
             /\ Reach(n, up, depth, kid(i), d + 1) \subseteq B
  <2>1. PICK k : k = kid(i)
    OBVIOUS
  <2>2. k \in 1 .. n - 1 /\ up[k] = id
    BY <1>1, <2>1 DEF Shape
  <2>3. depth[k] = depth[id] + 1
    BY <2>2 DEF Depths
  <2>4. depth[id] \in Nat
    BY DEF Depths
  <2>5. f[<<k, d + 1>>] = Max(Reach(n, up, depth, k, d + 1))
    BY <2>1 DEF Reaches
  <2>6. Below(n, up, k) \subseteq Below(n, up, id)
    BY <2>1, BelowIsOfTheChildren
  <2>7. ASSUME NEW j \in Below(n, up, k) PROVE d + 1 + depth[j] - depth[k] = d + depth[j] - depth[id]
    <3>1. depth[j] \in Nat
      <4>1. k \in 0 .. n - 1
        BY <2>2
      <4>2. depth[j] \in 1 .. n
        BY <4>1, DepthsGrow
      <4> QED BY <4>2
    <3> QED BY <2>3, <2>4, <3>1
  <2>8. Reach(n, up, depth, k, d + 1) \subseteq B
    BY <2>6, <2>7 DEF Reach
  <2> QED BY <2>1, <2>2, <2>3, <2>4, <2>5, <2>8
<1>4. /\ B \in SUBSET (0 .. d + n) /\ B # {} /\ d \in B /\ d + n \in Nat
      /\ \A x \in B : x \in Nat
  <2>1. B \in SUBSET (d .. d + n) /\ d \in B
    BY ReachIs
  <2> HIDE DEF B
  <2> QED BY <2>1
<1>5. ASSUME NEW i \in 1 .. l
      PROVE  /\ f[<<kid(i), d + 1>>] \in B
             /\ \A x \in Reach(n, up, depth, kid(i), d + 1) : x <= f[<<kid(i), d + 1>>]
  <2>1. PICK k \in 0 .. n - 1 : k = kid(i)
    BY <1>3
  <2>2. d + 1 \in Nat
    OBVIOUS
  <2>3. /\ Max(Reach(n, up, depth, k, d + 1)) \in Reach(n, up, depth, k, d + 1)
        /\ \A x \in Reach(n, up, depth, k, d + 1) : x <= Max(Reach(n, up, depth, k, d + 1))
    BY <2>2, ReachIs
  <2> HIDE DEF B
  <2> QED BY <1>3, <2>1, <2>3
<1>6. A \in SUBSET (0 .. d + n) /\ A # {}
  <2> HIDE DEF A, B
  <2>1. A \subseteq B
    BY <1>2, <1>4, <1>5
  <2>2. d \in A
    BY <1>2
  <2> QED BY <1>4, <2>1, <2>2
<1>7. \A x \in A : \E y \in B : x <= y
  <2>1. ASSUME NEW x \in A PROVE x \in B /\ x <= x
    <3> HIDE DEF A, B
    <3>1. x \in B
      BY <1>2, <1>4, <1>5
    <3>2. x \in Nat
      BY <1>4, <3>1
    <3> QED BY <3>1, <3>2
  <2> QED BY <2>1
<1>8. \A y \in B : \E x \in A : y <= x
  <2> SUFFICES ASSUME NEW y \in B PROVE \E x \in A : y <= x
    OBVIOUS
  <2>1. PICK j \in Below(n, up, id) : y = d + depth[j] - depth[id]
    BY DEF Reach
  <2>2. CASE j = id
    <3>1. depth[id] \in Nat
      BY DEF Depths
    <3>2. y = d /\ d <= d
      BY <2>1, <2>2, <3>1
    <3>3. d \in A
      BY <1>2
    <3> HIDE DEF A
    <3> QED BY <3>2, <3>3
  <2>3. CASE j # id
    <3>1. PICK i \in 1 .. l : j \in Below(n, up, kid(i))
      <4>1. PICK U : U = Below(n, up, id)
        OBVIOUS
      <4>2. U = {id} \cup UNION {Below(n, up, kids[id][i]) : i \in 1 .. Len(kids[id])}
        BY <4>1, BelowIsOfTheChildren
      <4>3. j \in U
        BY <4>1
      <4> QED BY <2>3, <4>2, <4>3
    <3>2. PICK k \in 0 .. n - 1 : k = kid(i)
      BY <1>3
    <3>3. depth[j] \in Nat
      <4>1. depth[j] \in 1 .. n
        BY DepthsGrow
      <4> QED BY <4>1
    <3>4. d + 1 + depth[j] - depth[k] = y
      <4>1. PICK p \in Nat, q \in Nat : p = depth[id] /\ q = depth[j]
        BY <1>3, <3>3
      <4>2. depth[k] = p + 1 /\ y = d + q - p
        BY <1>3, <2>1, <3>2, <4>1
      <4>3. d + 1 + q - (p + 1) = d + q - p
        OBVIOUS
      <4> QED BY <4>1, <4>2, <4>3
    <3>5. y \in Reach(n, up, depth, kid(i), d + 1)
      BY <3>1, <3>2, <3>4 DEF Reach
    <3>6. y <= f[<<kid(i), d + 1>>]
      BY <1>5, <3>5
    <3>7. f[<<kid(i), d + 1>>] \in A
      BY <1>2
    <3> QED BY <3>6, <3>7
  <2> QED BY <2>2, <2>3
<1>9. Max(A) = Max(B)
  <2> HIDE DEF A, B
  <2> QED BY <1>4, <1>6, <1>7, <1>8, SameGreatest
<1> QED BY <1>9 DEF Deeper

LEMMA DepthsExist ==
    ASSUME NEW I, NEW t \in SoundTrees(I)
    PROVE  Depths(DepthOf(t), Size(t), UpOf(t))
<1> DEFINE n == Size(t)
           S == 0 .. n - 1
           up == UpOf(t)
           depth == DepthOf(t)
           next(f, id) == IF id = 0 THEN 1 ELSE f[up[id]] + 1
           step == [at \in S \X [S -> Nat] |-> next(at[2], at[1])]
           rank == [id \in S |-> id]
<1>1. n \in Nat /\ NodeIds(t) = S /\ Shape(n, KidsOf(t), up)
  BY TreesHaveAShape
<1>2. \A id \in S : up[id] = t.nodes[id].parent
  BY <1>1 DEF UpOf
<1> HIDE DEF n, up
<1>3. \A id \in S : id # 0 => up[id] \in 0 .. id - 1 /\ up[id] \in S
  <2> SUFFICES ASSUME NEW id \in S, id # 0 PROVE up[id] \in 0 .. id - 1 /\ up[id] \in S
    OBVIOUS
  <2>1. id \in 1 .. n - 1
    BY <1>1
  <2>2. up[id] \in 0 .. id - 1
    BY <1>1, <2>1 DEF Shape
  <2> QED BY <1>1, <2>1, <2>2
<1>4. \E f \in [S -> Nat] : \A id \in S : f[id] = next(f, id)
  <2>1. step \in [S \X [S -> Nat] -> Nat]
    <3>1. ASSUME NEW id \in S, NEW f \in [S -> Nat] PROVE next(f, id) \in Nat
      BY <1>3
    <3> HIDE DEF next
    <3> QED BY <3>1
  <2>2. \A id \in S, f \in [S -> Nat] : step[<<id, f>>] = next(f, id)
    <3> HIDE DEF next
    <3> QED OBVIOUS
  <2>3. rank \in [S -> 0 .. n]
    BY <1>1
  <2>4. ASSUME NEW id \in S, NEW f \in [S -> Nat], NEW g \in [S -> Nat],
               \A j \in S : rank[j] < rank[id] => f[j] = g[j]
        PROVE  step[<<id, f>>] = step[<<id, g>>]
    <3>1. CASE id = 0
      BY <2>2, <3>1
    <3>2. CASE id # 0
      <4>1. PICK j \in S : j = up[id] /\ j \in 0 .. id - 1
        BY <1>3, <3>2
      <4>2. rank[j] < rank[id]
        BY <1>1, <4>1
      <4>3. f[j] = g[j]
        BY <2>4, <4>2
      <4>4. next(f, id) = next(g, id)
        BY <3>2, <4>1, <4>3
      <4> HIDE DEF step, next
      <4> QED BY <2>2, <4>4
    <3> QED BY <3>1, <3>2
  <2> HIDE DEF step, rank, S
  <2>5. Ranked(step, rank, S, Nat)
    BY <2>1, <2>4 DEF Ranked
  <2>6. PICK f \in [S -> Nat] : \A id \in S : f[id] = step[<<id, f>>]
    <3>1. PICK D : D = Nat
      OBVIOUS
    <3>2. PICK zero \in D : TRUE
      BY <3>1
    <3>3. Ranked(step, rank, S, D)
      BY <2>5, <3>1
    <3>4. \E f \in [S -> D] : Solution(f, step, S)
      BY ONLY <1>1, <2>3, <3>3, SolutionExists, zero \in D, n \in Nat
    <3> QED BY <3>1, <3>4 DEF Solution
  <2> HIDE DEF next
  <2> QED BY <2>2, <2>6
<1>5. depth = [id \in S |-> next(depth, id)]
  <2>1. PICK f \in [S -> Nat] : \A id \in S : f[id] = next(f, id)
    BY <1>4
  <2>2. f = [id \in S |-> f[id]]
    OBVIOUS
  <2>3. f = [id \in S |-> next(f, id)]
    BY <2>1, <2>2
  <2>4. \A g : [id \in S |-> next(g, id)] = [id \in NodeIds(t) |-> IF id = 0 THEN 1 ELSE g[t.nodes[id].parent] + 1]
    BY <1>1, <1>2
  <2>5. depth = CHOOSE g : g = [id \in S |-> next(g, id)]
    BY <2>4 DEF DepthOf
  <2> HIDE DEF depth, next
  <2> QED BY <2>3, <2>5
<1> DEFINE Settled == {id \in S : depth[id] \in 1 .. id + 1}
<1> HIDE DEF depth
<1>6. ASSUME NEW id \in S, \A j \in 0 .. id - 1 : j \in Settled PROVE id \in Settled
  <2>1. depth[id] = next(depth, id)
    BY <1>5
  <2>2. CASE id = 0
    BY <2>1, <2>2
  <2>3. CASE id # 0
    <3>1. PICK j \in S : j = up[id] /\ j \in 0 .. id - 1
      BY <1>3, <2>3
    <3>2. depth[j] \in 1 .. j + 1
      BY <1>6, <3>1
    <3>3. depth[id] = depth[j] + 1
      BY <2>1, <2>3, <3>1
    <3> QED BY <1>1, <3>1, <3>2, <3>3
  <2> QED BY <2>2, <2>3
<1>7. S \subseteq Settled
  <2> HIDE DEF Settled
  <2> QED BY <1>1, <1>6, UpwardInduction
<1>8. \A id \in S : depth[id] \in 1 .. id + 1 /\ depth[id] \in Nat
  <2>1. \A id \in S : depth[id] \in 1 .. id + 1
    BY <1>7
  <2> QED BY <1>1, <2>1
<1>9. depth \in [S -> Nat]
  <2> HIDE DEF next
  <2>1. depth = [id \in S |-> depth[id]]
    BY <1>5
  <2> QED BY <1>8, <2>1
<1>10. n > 0 => depth[0] = 1
  BY <1>1, <1>5
<1>11. \A k \in 1 .. n - 1 : depth[k] = depth[up[k]] + 1
  <2>1. \A k \in 1 .. n - 1 : k \in S /\ k # 0
    BY <1>1
  <2> QED BY <1>5, <2>1
<1>12. Depths(depth, n, up)
  BY <1>8, <1>9, <1>10, <1>11 DEF Depths
<1> QED BY <1>12 DEF depth, n, up

LEMMA HeightIs ==
    ASSUME NEW I, NEW t \in SoundTrees(I)
    PROVE  Height(t) = Max({0} \cup {DepthOf(t)[id] : id \in NodeIds(t)})
<1> DEFINE n == Size(t)
           up == UpOf(t)
           depth == DepthOf(t)
           S == NodeIds(t) \X Nat
           below(at) == Max(Reach(n, up, depth, at[1], at[2]))
           G == [at \in S |-> below(at)]
           deepest == DeepestOf(t)
           all == {0} \cup {depth[id] : id \in NodeIds(t)}
<1>1. n \in Nat /\ NodeIds(t) = 0 .. n - 1 /\ Shape(n, KidsOf(t), up)
  BY TreesHaveAShape
<1>2. Depths(depth, n, up)
  BY DepthsExist
<1>3. ASSUME NEW id \in 0 .. n - 1
      PROVE  /\ KidsOf(t)[id] = Children(t, id)
             /\ \A i \in 1 .. Len(Children(t, id)) : Children(t, id)[i] \in id + 1 .. n - 1
  <2>1. KidsOf(t)[id] = Children(t, id)
    BY <1>1 DEF KidsOf
  <2>2. \A i \in 1 .. Len(KidsOf(t)[id]) : KidsOf(t)[id][i] \in id + 1 .. n - 1
    BY <1>1 DEF Shape
  <2> QED BY <2>1, <2>2
<1> HIDE DEF n, up, depth
<1>4. ASSUME NEW f, NEW id \in 0 .. n - 1, NEW d \in Nat,
             Reaches(f, n, up, depth, Children(t, id), d + 1)
      PROVE  DeepStep(t, f, <<id, d>>) = below(<<id, d>>)
  <2>1. Reaches(f, n, up, depth, KidsOf(t)[id], d + 1)
    BY <1>3, <1>4
  <2>2. Deeper(f, KidsOf(t)[id], d) = Max(Reach(n, up, depth, id, d))
    BY <1>1, <1>2, <2>1, DeepestOfChildren
  <2>3. Deeper(f, Children(t, id), d) = DeepStep(t, f, <<id, d>>)
    BY DEF Deeper, DeepStep
  <2> QED BY <1>3, <2>2, <2>3
<1>5. G = [at \in S |-> DeepStep(t, G, at)]
  <2>1. ASSUME NEW at \in S PROVE G[at] = DeepStep(t, G, at)
    <3>1. PICK id \in 0 .. n - 1, d \in Nat : at = <<id, d>>
      BY <1>1
    <3>2. Reaches(G, n, up, depth, Children(t, id), d + 1)
      <4>1. ASSUME NEW i \in 1 .. Len(Children(t, id))
            PROVE  G[<<Children(t, id)[i], d + 1>>] = Max(Reach(n, up, depth, Children(t, id)[i], d + 1))
        <5>1. PICK k : k = Children(t, id)[i] /\ k \in NodeIds(t)
          BY <1>1, <1>3
        <5>2. <<k, d + 1>> \in S
          BY <5>1
        <5> QED BY <5>1, <5>2
      <4> HIDE DEF G
      <4> QED BY <4>1 DEF Reaches
    <3>3. G[at] = below(at)
      OBVIOUS
    <3> HIDE DEF G, below
    <3> QED BY <1>4, <3>1, <3>2, <3>3
  <2> QED BY <2>1
<1>6. deepest = [at \in S |-> DeepStep(t, deepest, at)]
  <2>1. \E f : f = [at \in S |-> DeepStep(t, f, at)]
    BY <1>5
  <2> QED BY <2>1 DEF DeepestOf
<1> DEFINE Settled == {id \in 0 .. n - 1 : \A d \in Nat : deepest[<<id, d>>] = below(<<id, d>>)}
<1> HIDE DEF deepest, G
<1>7. ASSUME NEW id \in 0 .. n - 1, \A j \in id + 1 .. n - 1 : j \in Settled PROVE id \in Settled
  <2>1. ASSUME NEW d \in Nat PROVE deepest[<<id, d>>] = below(<<id, d>>)
    <3>1. Reaches(deepest, n, up, depth, Children(t, id), d + 1)
      <4>1. ASSUME NEW i \in 1 .. Len(Children(t, id))
            PROVE  deepest[<<Children(t, id)[i], d + 1>>] = Max(Reach(n, up, depth, Children(t, id)[i], d + 1))
        <5>1. PICK k : k = Children(t, id)[i] /\ k \in id + 1 .. n - 1
          BY <1>3
        <5>2. k \in Settled /\ d + 1 \in Nat
          BY <1>7, <5>1
        <5>3. deepest[<<k, d + 1>>] = below(<<k, d + 1>>)
          <6> HIDE DEF below
          <6> QED BY <5>2
        <5> QED BY <5>1, <5>3
      <4> QED BY <4>1 DEF Reaches
    <3>2. <<id, d>> \in S
      BY <1>1
    <3>3. deepest[<<id, d>>] = DeepStep(t, deepest, <<id, d>>)
      BY <1>6, <3>2
    <3> HIDE DEF below
    <3> QED BY <1>4, <3>1, <3>3
  <2> HIDE DEF below
  <2> QED BY <2>1
<1> HIDE DEF Settled
<1>8. 0 .. n - 1 \subseteq Settled
  BY <1>1, <1>7, DownwardInduction
<1>9. CASE n # 0
  <2>1. n \in Nat \ {0} /\ 0 \in 0 .. n - 1 /\ HasRoot(t) /\ 1 \in Nat
    BY <1>1, <1>9 DEF HasRoot
  <2>2. Height(t) = deepest[<<0, 1>>]
    BY <2>1, MaxDepthIs DEF Height, deepest
  <2>3. deepest[<<0, 1>>] = Max(Reach(n, up, depth, 0, 1))
    <3>1. 0 \in Settled
      BY <1>8, <2>1
    <3> QED BY <2>1, <3>1 DEF Settled
  <2> DEFINE R == Reach(n, up, depth, 0, 1)
  <2>4. \A k \in 0 .. n - 1 : depth[k] \in Nat /\ depth[k] \in 1 .. n
    <3>1. ASSUME NEW k \in 0 .. n - 1 PROVE depth[k] \in Nat /\ depth[k] \in 1 .. n
      <4>1. depth[k] \in 1 .. k + 1
        BY <1>2 DEF Depths
      <4> QED BY <1>1, <4>1
    <3> QED BY <3>1
  <2>5. R = {depth[k] : k \in 0 .. n - 1}
    <3>1. Below(n, up, 0) = 0 .. n - 1
      BY <1>1, <2>1, AllAreBelowTheRoot
    <3>2. depth[0] = 1
      BY <1>2, <2>1 DEF Depths
    <3>3. \A k \in 0 .. n - 1 : 1 + depth[k] - depth[0] = depth[k]
      BY <2>4, <3>2
    <3> QED BY <3>1, <3>3 DEF Reach
  <2> HIDE DEF R
  <2>6. all = {0} \cup R
    BY <1>1, <2>5
  <2>7. R \in SUBSET (0 .. n) /\ R # {} /\ all \in SUBSET (0 .. n) /\ all # {} /\ \A x \in R : x \in Nat /\ 0 <= x
    <3>1. \A x \in R : x \in 1 .. n
      BY <2>4, <2>5
    <3>2. depth[0] \in R
      BY <2>1, <2>5
    <3> HIDE DEF all
    <3> QED BY <1>1, <2>6, <3>1, <3>2
  <2>8. \A x \in R : \E y \in all : x <= y
    <3> HIDE DEF all
    <3>1. \A x \in R : x \in all /\ x <= x
      BY <2>6, <2>7
    <3> QED BY <3>1
  <2>9. \A y \in all : \E x \in R : y <= x
    <3> HIDE DEF all
    <3>1. PICK z : z \in R
      BY <2>7
    <3>2. ASSUME NEW y \in all PROVE \E x \in R : y <= x
      <4>1. CASE y = 0
        BY <2>7, <3>1, <4>1
      <4>2. CASE y \in R
        <5>1. y <= y
          BY <2>7, <4>2
        <5> QED BY <4>2, <5>1
      <4> QED BY <2>6, <3>2, <4>1, <4>2
    <3> QED BY <3>2
  <2>10. Max(R) = Max(all)
    <3> HIDE DEF all
    <3> QED BY <1>1, <2>7, <2>8, <2>9, SameGreatest
  <2> QED BY <2>2, <2>3, <2>10 DEF R, depth
<1>10. CASE n = 0
  <2>1. NodeIds(t) = {} /\ ~ HasRoot(t)
    BY <1>1, <1>10 DEF HasRoot
  <2>2. Height(t) = 0
    BY <2>1 DEF Height
  <2>3. all = {0}
    BY <2>1
  <2>4. Max({0}) = 0
    BY DEF Max
  <2> QED BY <2>2, <2>3, <2>4 DEF depth
<1> QED BY <1>9, <1>10

(***************************************************************************)
(* The text of a program                                                   *)
(***************************************************************************)
Joined(f, s) == FoldLeft(LAMBDA tokens, kid : tokens \o f[kid], << >>, s)
Joins(v, f, s) ==
    /\ v[0] = << >> /\ \A i \in DOMAIN s : v[i] = v[i - 1] \o f[s[i]]
    /\ Joined(f, s) = v[Len(s)]

LEMMA JoinedFold ==
    ASSUME NEW D, NEW l \in Nat, NEW s, DOMAIN s = 1 .. l, Len(s) = l, NEW f,
           \A i \in 1 .. l : f[s[i]] \in Seq(D)
    PROVE  \E v \in [0 .. l -> Seq(D)] : Joins(v, f, s)
<1>0. PICK P, base : P = Seq(D) /\ base = << >>
  OBVIOUS
<1>01. base \in P /\ \A i \in 1 .. l, p \in P : p \o f[s[i]] \in P
  BY <1>0
<1> DEFINE S == 1 .. l
           next(g, u) == IF u = {} THEN base ELSE g[u \ {Max(u)}] \o f[s[Max(u)]]
           c == [u \in (SUBSET S) \ {{}} |-> Max(u)]
           step == [at \in S \X P |-> at[2] \o f[s[at[1]]]]
           Fold == CHOOSE g : g = [u \in SUBSET S |-> next(g, u)]
<1>1. Joined(f, s) = Fold[S]
  BY <1>0 DEF Joined, FoldLeft, MapThenFoldSet
<1>2. \A u \in (SUBSET S) \ {{}} : c[u] = Max(u) /\ c[u] \in u
  <2> SUFFICES ASSUME NEW u \in (SUBSET S) \ {{}} PROVE c[u] = Max(u) /\ Max(u) \in u
    OBVIOUS
  <2>1. u \in SUBSET (0 .. l) /\ u # {}
    OBVIOUS
  <2> QED BY <2>1, GreatestIs
<1>3. step \in [S \X P -> P]
  BY <1>01
<1>4. PICK G \in [SUBSET S -> P] : Folds(G, S, base, step, c)
  <2>1. IsFiniteSet(S)
    <3>1. 1 \in Int /\ l \in Int
      OBVIOUS
    <3> QED BY <3>1, FS_Interval
  <2> HIDE DEF c, step, S
  <2> QED BY <1>01, <1>2, <1>3, <2>1, FoldExists
<1>5. ASSUME NEW u \in SUBSET S PROVE G[u] = next(G, u)
  <2>1. CASE u = {}
    BY <1>4, <2>1 DEF Folds
  <2>2. CASE u # {}
    <3>1. PICK x : x = c[u] /\ x \in u /\ x = Max(u)
      BY <1>2, <2>2
    <3>2. G[u] = step[<<x, G[u \ {x}]>>]
      BY <1>4, <2>2, <3>1 DEF Folds
    <3>3. PICK v \in P : v = G[u \ {x}]
      <4>1. u \ {x} \in SUBSET S
        OBVIOUS
      <4> QED BY <4>1
    <3>4. step[<<x, v>>] = v \o f[s[x]]
      BY <3>1
    <3> HIDE DEF step
    <3> QED BY <2>2, <3>1, <3>2, <3>3, <3>4
  <2> QED BY <2>1, <2>2
<1>6. Fold = [u \in SUBSET S |-> next(Fold, u)]
  <2>1. G = [u \in SUBSET S |-> next(G, u)]
    <3>1. G = [u \in SUBSET S |-> G[u]]
      BY <1>4
    <3> HIDE DEF next
    <3> QED BY <1>5, <3>1
  <2> HIDE DEF next
  <2> QED BY <2>1
<1> HIDE DEF Fold
<1>7. Fold[{}] = base /\ \A k \in S : Fold[1 .. k] = Fold[1 .. k - 1] \o f[s[k]]
  <2>1. ASSUME NEW k \in S PROVE Fold[1 .. k] = Fold[1 .. k - 1] \o f[s[k]]
    <3>1. 1 .. k \in SUBSET S /\ 1 .. k # {} /\ k \in 1 .. k /\ 1 .. k \in SUBSET (0 .. l)
      OBVIOUS
    <3>2. Max(1 .. k) = k
      <4>1. Max(1 .. k) \in 1 .. k /\ Max(1 .. k) >= k
        BY <3>1, GreatestIs
      <4> QED BY <4>1
    <3>3. (1 .. k) \ {k} = 1 .. k - 1
      OBVIOUS
    <3>4. Fold[1 .. k] = next(Fold, 1 .. k)
      <4> HIDE DEF next
      <4> QED BY <1>6, <3>1
    <3> QED BY <3>1, <3>2, <3>3, <3>4
  <2>2. Fold[{}] = base
    BY <1>6
  <2> QED BY <2>1, <2>2
<1> DEFINE v == [k \in 0 .. l |-> Fold[1 .. k]]
<1>8. v[0] = base /\ \A i \in 1 .. l : v[i] = v[i - 1] \o f[s[i]]
  <2>1. v[0] = base
    <3>1. 1 .. 0 = {}
      OBVIOUS
    <3> QED BY <1>7, <3>1
  <2>2. ASSUME NEW k \in 1 .. l PROVE v[k] = v[k - 1] \o f[s[k]]
    <3>1. k \in 0 .. l /\ k - 1 \in 0 .. l
      OBVIOUS
    <3> QED BY <1>7, <3>1
  <2> HIDE DEF v
  <2> QED BY <2>1, <2>2
<1>9. v \in [0 .. l -> P]
  <2> HIDE DEF v
  <2> DEFINE Good == {k \in 0 .. l : v[k] \in P}
  <2>1. 0 \in Good
    BY <1>01, <1>8
  <2>2. ASSUME NEW k \in 1 .. l, k - 1 \in Good PROVE k \in Good
    <3>1. v[k] = v[k - 1] \o f[s[k]] /\ v[k - 1] \in P
      BY <1>8, <2>2
    <3>2. v[k] \in P
      <4>1. PICK p \in P : p = v[k - 1]
        BY <3>1
      <4> QED BY <1>01, <2>2, <3>1, <4>1
    <3> QED BY <3>2
  <2> HIDE DEF Good
  <2>3. 0 .. l \subseteq Good
    BY <2>1, <2>2, RoundsInduction
  <2>4. \A k \in 0 .. l : v[k] \in P
    BY <2>3 DEF Good
  <2> QED BY <2>4 DEF v
<1>10. v[l] = Fold[S]
  OBVIOUS
<1> HIDE DEF v
<1>11. Joined(f, s) = v[l]
  BY <1>1, <1>10
<1> QED BY <1>0, <1>8, <1>9, <1>11 DEF Joins

Alike(f, g, s, D) == \A i \in DOMAIN s : f[s[i]] \in Seq(D) /\ f[s[i]] = g[s[i]]

LEMMA JoinedAlike ==
    ASSUME NEW D, NEW l \in Nat, NEW s, DOMAIN s = 1 .. l, Len(s) = l, NEW f, NEW g, Alike(f, g, s, D)
    PROVE  Joined(f, s) = Joined(g, s) /\ Joined(f, s) \in Seq(D)
<1>0. \A i \in 1 .. l : f[s[i]] \in Seq(D) /\ f[s[i]] = g[s[i]]
  BY DEF Alike
<1>1. PICK v \in [0 .. l -> Seq(D)] : Joins(v, f, s)
  BY <1>0, JoinedFold
<1>2. PICK w \in [0 .. l -> Seq(D)] : Joins(w, g, s)
  <2>1. \A i \in 1 .. l : g[s[i]] \in Seq(D)
    BY <1>0
  <2> QED BY <2>1, JoinedFold
<1> DEFINE Good == {k \in 0 .. l : v[k] = w[k]}
<1>3. 0 \in Good
  BY <1>1, <1>2 DEF Joins
<1>4. ASSUME NEW k \in 1 .. l, k - 1 \in Good PROVE k \in Good
  <2>1. v[k] = v[k - 1] \o f[s[k]] /\ w[k] = w[k - 1] \o g[s[k]]
    BY <1>1, <1>2 DEF Joins
  <2>2. v[k - 1] = w[k - 1] /\ f[s[k]] = g[s[k]]
    BY <1>0, <1>4
  <2>3. v[k] = w[k]
    BY <2>1, <2>2
  <2> QED BY <2>3
<1> HIDE DEF Good
<1>5. l \in Good
  <2>1. 0 .. l \subseteq Good
    BY <1>3, <1>4, RoundsInduction
  <2> QED BY <2>1
<1>6. Joined(f, s) = v[l] /\ Joined(g, s) = w[l]
  BY <1>1, <1>2 DEF Joins
<1> QED BY <1>5, <1>6 DEF Good

CodeStep(t, f, id) ==
    LET instr == t.nodes[id].instr
    IN IF instr = NoInstr THEN << >>
       ELSE IF instr.type \in DOMAIN F THEN <<"(", instr>> \o Joined(f, Children(t, id)) \o <<")">>
       ELSE <<instr>>
CodeOf(t) == CHOOSE f : f = [id \in NodeIds(t) |-> CodeStep(t, f, id)]

LEMMA ToCodeIs ==
    ASSUME NEW t
    PROVE  ToCode(t) = IF HasRoot(t) THEN CodeOf(t)[0] ELSE << >>
BY DEF ToCode, CodeOf, CodeStep, Joined, FoldLeft, MapThenFoldSet

LEMMA CodeExists ==
    ASSUME NEW t, NEW n \in Nat, NodeIds(t) = 0 .. n - 1, NEW up, Shape(n, KidsOf(t), up)
    PROVE  CodeOf(t) = [id \in NodeIds(t) |-> CodeStep(t, CodeOf(t), id)]
<1> DEFINE S == 0 .. n - 1
           Token == {"(", ")"} \cup {t.nodes[id].instr : id \in NodeIds(t)}
           rank == [id \in S |-> n - 1 - id]
<1>1. PICK D : D = Seq(Token)
  OBVIOUS
<1> DEFINE step == [at \in S \X [S -> D] |-> CodeStep(t, at[2], at[1])]
<1>2. ASSUME NEW id \in S
      PROVE  /\ Len(Children(t, id)) \in Nat /\ DOMAIN Children(t, id) = 1 .. Len(Children(t, id))
             /\ \A i \in 1 .. Len(Children(t, id)) : Children(t, id)[i] \in id + 1 .. n - 1
  <2>1. KidsOf(t)[id] = Children(t, id)
    BY DEF KidsOf
  <2>2. /\ Len(KidsOf(t)[id]) \in Nat /\ DOMAIN KidsOf(t)[id] = 1 .. Len(KidsOf(t)[id])
        /\ \A i \in 1 .. Len(KidsOf(t)[id]) : KidsOf(t)[id][i] \in id + 1 .. n - 1
    BY DEF Shape
  <2> QED BY <2>1, <2>2
<1>3. ASSUME NEW id \in S, NEW f \in [S -> D], NEW g \in [S -> D],
             \A j \in id + 1 .. n - 1 : f[j] = g[j]
      PROVE  CodeStep(t, f, id) = CodeStep(t, g, id) /\ CodeStep(t, f, id) \in D
  <2>1. PICK s : s = Children(t, id)
    OBVIOUS
  <2>0. PICK l \in Nat : l = Len(s)
    BY <1>2, <2>1
  <2>2. \A i \in 1 .. l : f[s[i]] \in Seq(Token) /\ f[s[i]] = g[s[i]]
    <3>1. ASSUME NEW i \in 1 .. l PROVE f[s[i]] \in Seq(Token) /\ f[s[i]] = g[s[i]]
      <4>1. PICK j : j = s[i] /\ j \in id + 1 .. n - 1
        BY <1>2, <2>0, <2>1
      <4>2. j \in S
        BY <4>1
      <4> QED BY <1>1, <1>3, <4>1, <4>2
    <3> QED BY <3>1
  <2>3. DOMAIN s = 1 .. l /\ Len(s) = l
    BY <1>2, <2>0, <2>1
  <2>4. Joined(f, s) = Joined(g, s) /\ Joined(f, s) \in Seq(Token)
    <3>1. PICK tokens : tokens = Token
      OBVIOUS
    <3>2. Alike(f, g, s, tokens)
      BY <2>2, <2>3, <3>1 DEF Alike
    <3> HIDE DEF Token
    <3>3. Joined(f, s) = Joined(g, s) /\ Joined(f, s) \in Seq(tokens)
      BY <2>3, <3>2, JoinedAlike
    <3> QED BY <3>1, <3>3
  <2>5. PICK instr \in Token : instr = t.nodes[id].instr
    OBVIOUS
  <2>6. CodeStep(t, f, id) = CodeStep(t, g, id)
    BY <2>1, <2>4 DEF CodeStep
  <2>7. CodeStep(t, f, id) \in Seq(Token)
    <3>1. "(" \in Token /\ ")" \in Token
      OBVIOUS
    <3>2. << >> \in Seq(Token) /\ <<instr>> \in Seq(Token) /\ <<"(", instr>> \in Seq(Token) /\ <<")">> \in Seq(Token)
      <4> HIDE DEF Token
      <4> QED BY <3>1
    <3>3. <<"(", instr>> \o Joined(f, s) \o <<")">> \in Seq(Token)
      <4> HIDE DEF Token
      <4> QED BY <2>4, <3>2
    <3> HIDE DEF Token
    <3> QED BY <2>1, <2>5, <3>2, <3>3 DEF CodeStep
  <2> QED BY <1>1, <2>6, <2>7
<1>4. Ranked(step, rank, S, D)
  <2>1. step \in [S \X [S -> D] -> D]
    <3>1. ASSUME NEW id \in S, NEW f \in [S -> D] PROVE CodeStep(t, f, id) \in D
      BY <1>3
    <3> QED BY <3>1
  <2>2. \A id \in S, f \in [S -> D] : step[<<id, f>>] = CodeStep(t, f, id)
    OBVIOUS
  <2>3. ASSUME NEW id \in S, NEW f \in [S -> D], NEW g \in [S -> D],
               \A j \in S : rank[j] < rank[id] => f[j] = g[j]
        PROVE  step[<<id, f>>] = step[<<id, g>>]
    <3>1. ASSUME NEW j \in id + 1 .. n - 1 PROVE f[j] = g[j]
      <4>1. j \in S /\ rank[j] < rank[id]
        OBVIOUS
      <4> QED BY <2>3, <4>1
    <3>2. CodeStep(t, f, id) = CodeStep(t, g, id)
      BY <1>3, <3>1
    <3> HIDE DEF step
    <3> QED BY <2>2, <3>2
  <2> HIDE DEF step, rank, S
  <2> QED BY <2>1, <2>3 DEF Ranked
<1>5. PICK f \in [S -> D] : Solution(f, step, S)
  <2>1. rank \in [S -> 0 .. n]
    OBVIOUS
  <2>2. PICK none \in D : TRUE
    <3>1. << >> \in D
      BY <1>1
    <3> QED BY <3>1
  <2> HIDE DEF step, rank, S
  <2> QED BY <1>4, <2>1, <2>2, SolutionExists
<1>6. f = [id \in S |-> CodeStep(t, f, id)]
  <2>1. \A id \in S : f[id] = CodeStep(t, f, id)
    <3>1. \A id \in S : step[<<id, f>>] = CodeStep(t, f, id)
      OBVIOUS
    <3> HIDE DEF step
    <3> QED BY <1>5, <3>1 DEF Solution
  <2> QED BY <2>1
<1>7. \E g : g = [id \in NodeIds(t) |-> CodeStep(t, g, id)]
  BY <1>6
<1> QED BY <1>7 DEF CodeOf

(* One token for each node below that is in P, and two more if it is in C. *)
Weight(n, up, P, C, k) == Cardinality(P \cap Below(n, up, k)) + 2 * Cardinality(C \cap Below(n, up, k))
Measures(f, n, up, P, C, s, D) ==
    \A i \in DOMAIN s : f[s[i]] \in Seq(D) /\ Len(f[s[i]]) = Weight(n, up, P, C, s[i])
Own(id, X) == IF id \in X THEN 1 ELSE 0

Measured(tokens, n, up, P, C, id, D) ==
    tokens \in Seq(D) /\ Len(tokens) + Own(id, P) + 2 * Own(id, C) = Weight(n, up, P, C, id)

LEMMA JoinedLength ==
    ASSUME NEW n \in Nat, NEW kids, NEW up, Shape(n, kids, up), NEW id \in 0 .. n - 1,
           NEW P \in SUBSET (0 .. n - 1), NEW C \in SUBSET (0 .. n - 1), NEW f, NEW D,
           Measures(f, n, up, P, C, kids[id], D)
    PROVE  Measured(Joined(f, kids[id]), n, up, P, C, id, D)
<1>1. PICK s : s = kids[id]
  OBVIOUS
<1>2. PICK l \in Nat : l = Len(s)
  BY <1>1 DEF Shape
<1>3. DOMAIN s = 1 .. l
  <2>1. kids[id] \in [1 .. Len(kids[id]) -> 0 .. n - 1]
    BY DEF Shape
  <2> QED BY <1>1, <1>2, <2>1
<1>4. PICK a \in [0 .. l -> Nat] : Counted(a, n, up, id, s, P)
  BY <1>1, <1>2, CountedByChildren
<1>5. PICK c \in [0 .. l -> Nat] : Counted(c, n, up, id, s, C)
  BY <1>1, <1>2, CountedByChildren
<1>6. /\ a[0] = Own(id, P) /\ c[0] = Own(id, C)
      /\ \A i \in 1 .. l : /\ a[i] = a[i - 1] + Cardinality(P \cap Below(n, up, s[i]))
                            /\ c[i] = c[i - 1] + Cardinality(C \cap Below(n, up, s[i]))
      /\ a[l] + 2 * c[l] = Weight(n, up, P, C, id)
  BY <1>2, <1>4, <1>5 DEF Counted, Own, Weight
<1>7. \A i \in 1 .. l : f[s[i]] \in Seq(D) /\ Len(f[s[i]]) = Weight(n, up, P, C, s[i])
  BY <1>1, <1>3 DEF Measures
<1>8. PICK v \in [0 .. l -> Seq(D)] : Joins(v, f, s)
  BY <1>2, <1>3, <1>7, JoinedFold
<1>9. v[0] = << >> /\ Joined(f, s) = v[l] /\ \A i \in 1 .. l : v[i] = v[i - 1] \o f[s[i]]
  BY <1>2, <1>3, <1>8 DEF Joins
<1> DEFINE Good == {k \in 0 .. l : Len(v[k]) + Own(id, P) + 2 * Own(id, C) = a[k] + 2 * c[k]}
<1>10. 0 \in Good
  <2>1. PICK o \in Nat, q \in Nat : o = Own(id, P) /\ q = Own(id, C)
    BY DEF Own
  <2>2. Len(v[0]) = 0 /\ 0 + o + 2 * q = o + 2 * q
    BY <1>9
  <2> QED BY <1>6, <2>1, <2>2
<1>11. ASSUME NEW k \in 1 .. l, k - 1 \in Good PROVE k \in Good
  <2>1. PICK o \in Nat, q \in Nat : o = Own(id, P) /\ q = Own(id, C)
    BY DEF Own
  <2>2. k - 1 \in 0 .. l /\ k \in 0 .. l
    OBVIOUS
  <2>3. PICK a0 \in Nat, c0 \in Nat, a1 \in Nat, c1 \in Nat :
          a0 = a[k - 1] /\ c0 = c[k - 1] /\ a1 = a[k] /\ c1 = c[k]
    BY <2>2
  <2>4. PICK x, y : x = Cardinality(P \cap Below(n, up, s[k])) /\ y = Cardinality(C \cap Below(n, up, s[k]))
    OBVIOUS
  <2>5. x \in Nat /\ y \in Nat
    <3>1. \A X \in SUBSET (0 .. n - 1) : Cardinality(X \cap Below(n, up, s[k])) \in Nat
      <4>1. IsFiniteSet(0 .. n - 1)
        <5>1. 0 \in Int /\ n - 1 \in Int
          OBVIOUS
        <5> QED BY <5>1, FS_Interval
      <4>2. \A X \in SUBSET (0 .. n - 1) : IsFiniteSet(X \cap Below(n, up, s[k]))
        <5> SUFFICES ASSUME NEW X \in SUBSET (0 .. n - 1) PROVE IsFiniteSet(X \cap Below(n, up, s[k]))
          OBVIOUS
        <5>1. X \cap Below(n, up, s[k]) \in SUBSET (0 .. n - 1)
          OBVIOUS
        <5> QED BY <4>1, <5>1, FS_Subset
      <4> QED BY <4>2, FS_CardinalityType
    <3> QED BY <2>4, <3>1
  <2>6. a1 = a0 + x /\ c1 = c0 + y
    BY <1>6, <2>3, <2>4
  <2>7. PICK u \in Nat, w \in Nat : u = Len(v[k - 1]) /\ w = Len(f[s[k]])
    <3>1. v[k - 1] \in Seq(D) /\ f[s[k]] \in Seq(D)
      BY <1>7, <2>2
    <3> QED BY <3>1
  <2>8. w = x + 2 * y
    BY <1>7, <2>4, <2>7 DEF Weight
  <2>9. Len(v[k]) = u + w
    <3>1. v[k - 1] \in Seq(D) /\ f[s[k]] \in Seq(D) /\ v[k] = v[k - 1] \o f[s[k]]
      BY <1>7, <1>9, <2>2
    <3> QED BY <2>7, <3>1
  <2>10. u + o + 2 * q = a0 + 2 * c0
    BY <1>11, <2>1, <2>3, <2>7
  <2>11. (u + w) + o + 2 * q = a1 + 2 * c1
    BY <2>5, <2>6, <2>8, <2>10
  <2> QED BY <2>1, <2>2, <2>3, <2>9, <2>11
<1> HIDE DEF Good
<1>12. l \in Good
  <2>1. 0 .. l \subseteq Good
    BY <1>2, <1>10, <1>11, RoundsInduction
  <2> QED BY <1>2, <2>1
<1>13. Len(Joined(f, s)) + Own(id, P) + 2 * Own(id, C) = Weight(n, up, P, C, id)
  BY <1>6, <1>9, <1>12 DEF Good
<1>14. Joined(f, s) \in Seq(D)
  <2>1. l \in 0 .. l
    BY <1>2
  <2> QED BY <1>9, <2>1
<1> QED BY <1>1, <1>13, <1>14 DEF Measured

PrintedOf(t, ids) ==
    CHOOSE printed : printed = [id \in NodeIds(t) |->
                                  id \in ids /\ (id = 0 \/ printed[t.nodes[id].parent])]

(* The nodes that hang below filled ones.                                  *)
Hanging(n, up, ids) ==
    {k \in 0 .. n - 1 : \E X \in SUBSET (ids \cap (0 .. n - 1)) :
                           k \in X /\ \A j \in X : j = 0 \/ up[j] \in X}

LEMMA HangingIs ==
    ASSUME NEW n \in Nat, NEW up, NEW ids, NEW id \in 0 .. n - 1
    PROVE  id \in Hanging(n, up, ids) <=> id \in ids /\ (id = 0 \/ up[id] \in Hanging(n, up, ids))
<1>1. ASSUME id \in Hanging(n, up, ids) PROVE id \in ids /\ (id = 0 \/ up[id] \in Hanging(n, up, ids))
  <2>1. PICK X \in SUBSET (ids \cap (0 .. n - 1)) : id \in X /\ \A j \in X : j = 0 \/ up[j] \in X
    BY <1>1 DEF Hanging
  <2>2. \A j \in X : j \in Hanging(n, up, ids)
    BY <2>1 DEF Hanging
  <2> QED BY <2>1, <2>2
<1>2. ASSUME id \in ids, id = 0 \/ up[id] \in Hanging(n, up, ids) PROVE id \in Hanging(n, up, ids)
  <2>1. CASE id = 0
    <3>1. {id} \in SUBSET (ids \cap (0 .. n - 1)) /\ \A j \in {id} : j = 0
      BY <1>2, <2>1
    <3> QED BY <3>1 DEF Hanging
  <2>2. CASE up[id] \in Hanging(n, up, ids)
    <3>1. PICK X \in SUBSET (ids \cap (0 .. n - 1)) : up[id] \in X /\ \A j \in X : j = 0 \/ up[j] \in X
      BY <2>2 DEF Hanging
    <3>2. X \cup {id} \in SUBSET (ids \cap (0 .. n - 1)) /\ id \in X \cup {id}
      BY <1>2
    <3>3. \A j \in X \cup {id} : j = 0 \/ up[j] \in X \cup {id}
      BY <3>1
    <3> QED BY <3>2, <3>3 DEF Hanging
  <2> QED BY <1>2, <2>1, <2>2
<1> QED BY <1>1, <1>2

LEMMA PrintedIs ==
    ASSUME NEW I, NEW t \in SoundTrees(I), NEW ids
    PROVE  \A id \in NodeIds(t) : PrintedOf(t, ids)[id] <=> id \in Hanging(Size(t), UpOf(t), ids)
<1> DEFINE n == Size(t)
           up == UpOf(t)
           H == Hanging(n, up, ids)
           G == [id \in NodeIds(t) |-> id \in H]
           printed == PrintedOf(t, ids)
<1>1. n \in Nat /\ NodeIds(t) = 0 .. n - 1 /\ Shape(n, KidsOf(t), up)
  BY TreesHaveAShape
<1>2. \A id \in 0 .. n - 1 : up[id] = t.nodes[id].parent /\ (id # 0 => up[id] \in 0 .. id - 1 /\ up[id] \in 0 .. n - 1)
  <2>1. ASSUME NEW id \in 0 .. n - 1, id # 0 PROVE up[id] \in 0 .. id - 1
    <3>1. id \in 1 .. n - 1
      BY <1>1, <2>1
    <3> QED BY <1>1, <3>1 DEF Shape
  <2>2. \A id \in 0 .. n - 1 : up[id] = t.nodes[id].parent
    BY <1>1 DEF UpOf
  <2>3. \A id \in 0 .. n - 1 : 0 .. id - 1 \subseteq 0 .. n - 1
    BY <1>1
  <2> HIDE DEF n, up
  <2> QED BY <2>1, <2>2, <2>3
<1> HIDE DEF n, up
<1>3. \A id \in 0 .. n - 1 : id \in H <=> id \in ids /\ (id = 0 \/ up[id] \in H)
  BY <1>1, HangingIs
<1> HIDE DEF H
<1>4. G = [id \in NodeIds(t) |-> id \in ids /\ (id = 0 \/ G[t.nodes[id].parent])]
  <2>1. ASSUME NEW id \in NodeIds(t)
        PROVE  (id \in H) <=> (id \in ids /\ (id = 0 \/ G[t.nodes[id].parent]))
    <3>1. CASE id = 0
      BY <1>1, <1>3, <3>1
    <3>2. CASE id # 0
      <4>1. up[id] = t.nodes[id].parent /\ up[id] \in NodeIds(t)
        BY <1>1, <1>2, <3>2
      <4>2. G[t.nodes[id].parent] = (up[id] \in H)
        BY <4>1
      <4> HIDE DEF G
      <4> QED BY <1>1, <1>3, <3>2, <4>2
    <3> QED BY <3>1, <3>2
  <2> QED BY <2>1
<1>5. printed = [id \in NodeIds(t) |-> id \in ids /\ (id = 0 \/ printed[t.nodes[id].parent])]
  <2>1. \E g : g = [id \in NodeIds(t) |-> id \in ids /\ (id = 0 \/ g[t.nodes[id].parent])]
    BY <1>4
  <2> QED BY <2>1 DEF PrintedOf
<1> DEFINE Settled == {id \in 0 .. n - 1 : printed[id] <=> id \in H}
<1> HIDE DEF printed, G
<1>6. ASSUME NEW id \in 0 .. n - 1, \A j \in 0 .. id - 1 : j \in Settled PROVE id \in Settled
  <2>1. printed[id] <=> id \in ids /\ (id = 0 \/ printed[t.nodes[id].parent])
    BY <1>1, <1>5
  <2>2. CASE id = 0
    BY <1>3, <2>1, <2>2
  <2>3. CASE id # 0
    <3>1. up[id] = t.nodes[id].parent /\ up[id] \in Settled
      BY <1>2, <1>6, <2>3
    <3>2. printed[up[id]] <=> up[id] \in H
      BY <3>1
    <3>3. printed[id] <=> id \in H
      BY <1>3, <2>1, <2>3, <3>1, <3>2
    <3> QED BY <3>3
  <2> QED BY <2>2, <2>3
<1>7. 0 .. n - 1 \subseteq Settled
  <2> HIDE DEF Settled
  <2> QED BY <1>1, <1>6, UpwardInduction
<1>8. \A id \in NodeIds(t) : printed[id] <=> id \in H
  BY <1>1, <1>7
<1> QED BY <1>8 DEF printed, H, n, up

(* Every number of children that a node of the tree has is one that some   *)
(* instruction takes.                                                      *)
Fillable(t) == \A id \in NodeIds(t) : RandInstrs(NumChildren(t, id)) # {}

LEMMA FittingIs ==
    ASSUME NEW k \in Nat, RandInstrs(k) # {}, NoInstr \notin Instrs
    PROVE  FittingInstr(k) # NoInstr /\ (k # 0 => FittingInstr(k).type \in DOMAIN F)
<1>1. PICK i : i = FittingInstr(k) /\ i \in RandInstrs(k)
  BY DEF FittingInstr
<1>2. CASE \E type \in DOMAIN F : i = F[type]
  <2>1. PICK type \in DOMAIN F : i = F[type]
    BY <1>2
  <2>2. F[type] \in Instrs /\ F[type].type = type
    BY DEF F, FnCall, Instrs, Unlimited
  <2> QED BY <1>1, <2>1, <2>2
<1>3. CASE k = 0 /\ \E t \in DOMAIN T : \E sel \in 0 .. T[t] - 1 : i = Terminal(t, sel)
  <2>0. PICK t \in DOMAIN T : \E sel \in 0 .. T[t] - 1 : i = Terminal(t, sel)
    BY <1>3
  <2>1. PICK sel \in 0 .. T[t] - 1 : i = Terminal(t, sel)
    BY <2>0
  <2>2. T[t] \in Nat
    BY DEF T
  <2>3. Terminal(t, sel) \in Instrs
    BY <2>2 DEF Terminal, Instrs
  <2> QED BY <1>1, <1>3, <2>1, <2>3
<1>4. (\E type \in DOMAIN F : i = F[type]) \/ (k = 0 /\ \E t \in DOMAIN T : \E sel \in 0 .. T[t] - 1 : i = Terminal(t, sel))
  BY <1>1 DEF RandInstrs
<1> QED BY <1>2, <1>3, <1>4

(* u is t with the nodes ids filled: those with children by calls.         *)
IsFilling(u, t, ids) ==
    /\ NodeIds(u) = NodeIds(t) /\ KidsOf(u) = KidsOf(t)
    /\ \A id \in NodeIds(t) :
         /\ Children(u, id) = Children(t, id)
         /\ u.nodes[id].instr = NoInstr <=> id \notin ids
         /\ id \in ids /\ Len(Children(t, id)) # 0 => u.nodes[id].instr.type \in DOMAIN F

LEMMA FilledIs ==
    ASSUME NEW t \in SoundTrees({NoInstr}), Fillable(t), NoInstr \notin Instrs, NEW ids
    PROVE  IsFilling(Filled(t, ids), t, ids)
<1> DEFINE u == Filled(t, ids)
           node(id) == IF id \in ids THEN [t.nodes[id] EXCEPT !.instr = FittingInstr(NumChildren(t, id))]
                       ELSE t.nodes[id]
<1>1. t = [nodes |-> t.nodes, next_id |-> t.next_id] /\ t.nodes \in [NodeIds(t) -> Nodes({NoInstr})]
  BY TreeIs DEF SoundTrees
<1>2. u.nodes = [id \in NodeIds(t) |-> node(id)]
  BY <1>1 DEF Filled
<1>3. NodeIds(u) = NodeIds(t)
  <2> HIDE DEF u, node
  <2> QED BY <1>2 DEF NodeIds
<1>4. ASSUME NEW id \in NodeIds(t)
      PROVE  /\ Children(u, id) = Children(t, id)
             /\ u.nodes[id].instr = NoInstr <=> id \notin ids
             /\ id \in ids /\ Len(Children(t, id)) # 0 => u.nodes[id].instr.type \in DOMAIN F
  <2>1. u.nodes[id] = node(id)
    BY <1>2
  <2>2. t.nodes[id] \in [parent : Nat \cup {NoParent}, children : Seq(Nat), instr : {NoInstr}]
    BY <1>1 DEF Nodes
  <2>3. NumChildren(t, id) \in Nat /\ NumChildren(t, id) = Len(Children(t, id))
    BY <2>2 DEF NumChildren, Children
  <2>4. FittingInstr(NumChildren(t, id)) # NoInstr
        /\ (NumChildren(t, id) # 0 => FittingInstr(NumChildren(t, id)).type \in DOMAIN F)
    BY <2>3, FittingIs DEF Fillable
  <2> HIDE DEF u
  <2>5. Children(u, id) = Children(t, id)
    BY <2>1, <2>2 DEF Children
  <2>6. u.nodes[id].instr = IF id \in ids THEN FittingInstr(NumChildren(t, id)) ELSE NoInstr
    BY <2>1, <2>2
  <2> QED BY <2>3, <2>4, <2>5, <2>6
<1> HIDE DEF u
<1>5. KidsOf(u) = KidsOf(t)
  BY <1>3, <1>4 DEF KidsOf
<1>6. \A id \in NodeIds(t) :
        /\ Children(u, id) = Children(t, id)
        /\ u.nodes[id].instr = NoInstr <=> id \notin ids
        /\ id \in ids /\ Len(Children(t, id)) # 0 => u.nodes[id].instr.type \in DOMAIN F
  BY <1>4
<1>7. IsFilling(u, t, ids)
  BY <1>3, <1>5, <1>6 DEF IsFilling
<1> QED BY <1>7 DEF u

(* A filled node of u, with the children s.  Only a call has any.          *)
IsFilled(u, id, s, C) ==
    /\ Children(u, id) = s /\ u.nodes[id].instr # NoInstr
    /\ id \in C <=> u.nodes[id].instr.type \in DOMAIN F
    /\ id \in C \/ Len(s) = 0

Weighs(tokens, n, up, P, C, id) == Len(tokens) = Weight(n, up, P, C, id)

(* The text of one node, from those of its children.                       *)
LEMMA NodeLength ==
    ASSUME NEW n \in Nat, NEW kids, NEW up, Shape(n, kids, up), NEW id \in 0 .. n - 1,
           NEW P \in SUBSET (0 .. n - 1), NEW C \in SUBSET P, NEW f, NEW D,
           Measures(f, n, up, P, C, kids[id], D), id \in P,
           NEW u, IsFilled(u, id, kids[id], C)
    PROVE  Weighs(CodeStep(u, f, id), n, up, P, C, id)
<1>1. PICK s : s = kids[id]
  OBVIOUS
<1>2. C \in SUBSET (0 .. n - 1)
  OBVIOUS
<1>0. /\ Children(u, id) = s /\ u.nodes[id].instr # NoInstr
      /\ id \in C <=> u.nodes[id].instr.type \in DOMAIN F
      /\ id \in C \/ Len(s) = 0
  BY <1>1 DEF IsFilled
<1>3. Joined(f, s) \in Seq(D) /\ Len(Joined(f, s)) + Own(id, P) + 2 * Own(id, C) = Weight(n, up, P, C, id)
  <2>1. Measured(Joined(f, kids[id]), n, up, P, C, id, D)
    BY <1>2, JoinedLength
  <2> QED BY <1>1, <2>1 DEF Measured
<1>4. PICK instr : instr = u.nodes[id].instr
  OBVIOUS
<1>5. Own(id, P) = 1
  BY DEF Own
<1>6. CASE id \in C
  <2>1. CodeStep(u, f, id) = <<"(", instr>> \o Joined(f, s) \o <<")">>
    BY <1>0, <1>4, <1>6 DEF CodeStep
  <2>2. Len(CodeStep(u, f, id)) = Len(Joined(f, s)) + 3
    <3>1. PICK E : E = D \cup {"(", ")", instr}
      OBVIOUS
    <3>2. Joined(f, s) \in Seq(E) /\ <<"(", instr>> \in Seq(E) /\ <<")">> \in Seq(E)
      BY <1>3, <3>1
    <3>3. PICK j \in Seq(E), a \in Seq(E), b \in Seq(E) : j = Joined(f, s) /\ a = <<"(", instr>> /\ b = <<")">>
      BY <3>2
    <3>4. Len(a) = 2 /\ Len(b) = 1
      BY <3>3
    <3>5. Len(a \o j \o b) = Len(a) + Len(j) + Len(b)
      OBVIOUS
    <3> QED BY <2>1, <3>3, <3>4, <3>5
  <2>3. Own(id, C) = 1 /\ Len(Joined(f, s)) \in Nat
    BY <1>3, <1>6 DEF Own
  <2> QED BY <1>3, <1>5, <2>2, <2>3 DEF Weighs
<1>7. CASE id \notin C
  <2>1. CodeStep(u, f, id) = <<instr>>
    BY <1>0, <1>4, <1>7 DEF CodeStep
  <2>2. Len(s) = 0 /\ DOMAIN s = {}
    <3>1. s \in [1 .. Len(s) -> 0 .. n - 1]
      BY <1>1 DEF Shape
    <3> QED BY <1>0, <1>7, <3>1
  <2>3. Joined(f, s) = << >>
    <3>1. DOMAIN s = 1 .. 0 /\ Len(s) = 0 /\ \A i \in 1 .. 0 : f[s[i]] \in Seq(D)
      BY <2>2
    <3>2. 0 \in Nat
      OBVIOUS
    <3>3. PICK l \in Nat : l = 0
      OBVIOUS
    <3>4. PICK v \in [0 .. l -> Seq(D)] : Joins(v, f, s)
      BY <3>1, <3>3, JoinedFold
    <3> QED BY <2>2, <3>4 DEF Joins
  <2>4. Own(id, C) = 0 /\ Len(<<instr>>) = 1 /\ Len(Joined(f, s)) = 0
    BY <1>7, <2>3 DEF Own
  <2> QED BY <1>3, <1>5, <2>1, <2>4 DEF Weighs
<1> QED BY <1>6, <1>7 DEF Weighs

(* Whichever nodes are filled, the text has a token for every node that    *)
(* hangs below filled ones, and two parentheses if it is a call.           *)
CallsAmong(u, P) == {id \in P : u.nodes[id].instr.type \in DOMAIN F}
LengthIs(tokens, P, C) == Len(tokens) = Cardinality(P) + 2 * Cardinality(C)

LEMMA TextLength ==
    ASSUME NEW t \in SoundTrees({NoInstr}), Fillable(t), NoInstr \notin Instrs, NEW ids
    PROVE  LET P == Hanging(Size(t), UpOf(t), ids)
           IN LengthIs(ToCode(Filled(t, ids)), P, CallsAmong(Filled(t, ids), P))
<1>0. PICK P, C : P = Hanging(Size(t), UpOf(t), ids) /\ C = CallsAmong(Filled(t, ids), P)
  OBVIOUS
<1>1. PICK u : u = Filled(t, ids)
  OBVIOUS
<1>2. PICK n, kids, up : n = Size(t) /\ kids = KidsOf(t) /\ up = UpOf(t)
  OBVIOUS
<1>3. n \in Nat /\ NodeIds(t) = 0 .. n - 1 /\ Shape(n, kids, up)
  BY <1>2, TreesHaveAShape
<1>4. /\ NodeIds(u) = 0 .. n - 1 /\ KidsOf(u) = kids
      /\ \A id \in 0 .. n - 1 :
           /\ Children(u, id) = kids[id]
           /\ u.nodes[id].instr = NoInstr <=> id \notin ids
           /\ id \in ids /\ Len(kids[id]) # 0 => u.nodes[id].instr.type \in DOMAIN F
  <2>1. \A id \in 0 .. n - 1 : kids[id] = Children(t, id)
    BY <1>2, <1>3 DEF KidsOf
  <2>2. /\ NodeIds(u) = NodeIds(t) /\ KidsOf(u) = KidsOf(t)
        /\ \A id \in NodeIds(t) :
             /\ Children(u, id) = Children(t, id)
             /\ u.nodes[id].instr = NoInstr <=> id \notin ids
             /\ id \in ids /\ Len(Children(t, id)) # 0 => u.nodes[id].instr.type \in DOMAIN F
    <3>1. IsFilling(u, t, ids)
      BY <1>1, FilledIs
    <3> QED BY <3>1 DEF IsFilling
  <2> QED BY <1>2, <1>3, <2>1, <2>2
<1>5. P \in SUBSET (0 .. n - 1) /\ C \in SUBSET P
  BY <1>0, <1>2 DEF Hanging, CallsAmong
<1>6. \A id \in 0 .. n - 1 : id \in P <=> id \in ids /\ (id = 0 \/ up[id] \in P)
  BY <1>0, <1>2, <1>3, HangingIs
<1>7. \A id \in P : id \in C <=> u.nodes[id].instr.type \in DOMAIN F
  BY <1>0, <1>1 DEF CallsAmong
<1>8. PICK code : code = CodeOf(u)
  OBVIOUS
<1>9. DOMAIN code = 0 .. n - 1 /\ \A id \in 0 .. n - 1 : code[id] = CodeStep(u, code, id)
  <2>1. Shape(n, KidsOf(u), up)
    BY <1>3, <1>4
  <2>2. code = [id \in NodeIds(u) |-> CodeStep(u, code, id)]
    BY <1>3, <1>4, <1>8, <2>1, CodeExists
  <2> QED BY <1>4, <2>2
<1>10. PICK D : D = {"(", ")"} \cup {u.nodes[id].instr : id \in 0 .. n - 1}
  OBVIOUS
<1> DEFINE Reached(id) == id = 0 \/ up[id] \in P
           Done(id) == code[id] \in Seq(D) /\ (Reached(id) => Len(code[id]) = Weight(n, up, P, C, id))
           Settled == {id \in 0 .. n - 1 : Done(id)}
<1>11. ASSUME NEW id \in 0 .. n - 1, \A j \in id + 1 .. n - 1 : j \in Settled PROVE id \in Settled
  <2>1. PICK s, instr : s = kids[id] /\ instr = u.nodes[id].instr
    OBVIOUS
  <2>2. /\ Len(s) \in Nat /\ DOMAIN s = 1 .. Len(s)
        /\ \A i \in DOMAIN s : s[i] \in id + 1 .. n - 1 /\ up[s[i]] = id
    <3>1. Len(kids[id]) \in Nat /\ kids[id] \in [1 .. Len(kids[id]) -> 0 .. n - 1]
      BY <1>3 DEF Shape
    <3>2. \A i \in 1 .. Len(kids[id]) : kids[id][i] \in id + 1 .. n - 1 /\ up[kids[id][i]] = id
      BY <1>3 DEF Shape
    <3> QED BY <2>1, <3>1, <3>2
  <2>3. ASSUME NEW i \in DOMAIN s
        PROVE  /\ code[s[i]] \in Seq(D) /\ (id \in P => Len(code[s[i]]) = Weight(n, up, P, C, s[i]))
    <3>1. PICK j : j = s[i] /\ j \in id + 1 .. n - 1 /\ up[j] = id
      BY <2>2
    <3>2. j \in Settled
      BY <1>11, <3>1
    <3>3. Done(j)
      <4> HIDE DEF Done
      <4> QED BY <3>2
    <3>4. id \in P => Reached(j)
      BY <3>1
    <3>5. code[j] \in Seq(D) /\ (Reached(j) => Len(code[j]) = Weight(n, up, P, C, j))
      BY <3>3
    <3> HIDE DEF Reached
    <3> QED BY <3>1, <3>4, <3>5
  <2>4. Joined(code, s) \in Seq(D)
    <3>1. Alike(code, code, s, D)
      BY <2>3 DEF Alike
    <3>2. PICK l \in Nat : l = Len(s)
      BY <2>2
    <3>3. DOMAIN s = 1 .. l /\ Len(s) = l
      BY <2>2, <3>2
    <3> QED BY <3>1, <3>3, JoinedAlike
  <2>5. code[id] \in Seq(D)
    <3>1. instr \in D /\ "(" \in D /\ ")" \in D
      BY <1>10, <2>1
    <3>2. << >> \in Seq(D) /\ <<instr>> \in Seq(D) /\ <<"(", instr>> \in Seq(D) /\ <<")">> \in Seq(D)
      BY <3>1
    <3>3. <<"(", instr>> \o Joined(code, s) \o <<")">> \in Seq(D)
      BY <2>4, <3>2
    <3>4. Children(u, id) = s
      BY <1>4, <2>1
    <3>5. CodeStep(u, code, id) \in Seq(D)
      BY <2>1, <3>2, <3>3, <3>4 DEF CodeStep
    <3> QED BY <1>9, <3>5
  <2>6. ASSUME Reached(id) PROVE Len(code[id]) = Weight(n, up, P, C, id)
    <3>1. CASE id \in ids
      <4>1. id \in P
        BY <1>6, <2>6, <3>1
      <4>2. Measures(code, n, up, P, C, kids[id], D)
        BY <2>1, <2>3, <4>1 DEF Measures
      <4>3. Children(u, id) = kids[id] /\ u.nodes[id].instr # NoInstr
        BY <1>4, <3>1
      <4>4. (id \in C <=> u.nodes[id].instr.type \in DOMAIN F) /\ (id \in C \/ Len(kids[id]) = 0)
        BY <1>4, <1>7, <3>1, <4>1
      <4>5. IsFilled(u, id, kids[id], C)
        BY <4>3, <4>4 DEF IsFilled
      <4>6. Weighs(CodeStep(u, code, id), n, up, P, C, id)
        BY <1>3, <1>5, <4>1, <4>2, <4>5, NodeLength
      <4> QED BY <1>9, <4>6 DEF Weighs
    <3>2. CASE id \notin ids
      <4>1. code[id] = << >>
        <5>1. CodeStep(u, code, id) = << >>
          BY <1>4, <3>2 DEF CodeStep
        <5> QED BY <1>9, <5>1
      <4> DEFINE X == (0 .. n - 1) \ P
      <4>2. id \in X
        BY <1>6, <3>2
      <4>3. Grows(n, up, X)
        <5>1. ASSUME NEW k \in 1 .. n - 1, up[k] \in X PROVE k \in X
          <6>1. k \in 0 .. n - 1 /\ k # 0
            OBVIOUS
          <6> QED BY <1>6, <5>1, <6>1
        <5> HIDE DEF X
        <5> QED BY <5>1 DEF Grows
      <4>4. Below(n, up, id) \subseteq X
        <5>1. X \in SUBSET (0 .. n - 1)
          OBVIOUS
        <5> HIDE DEF X
        <5> QED BY <1>3, <4>2, <4>3, <5>1, BelowGrows
      <4>5. P \cap Below(n, up, id) = {} /\ C \cap Below(n, up, id) = {}
        BY <1>5, <4>4
      <4>6. Weight(n, up, P, C, id) = 0
        <5>1. Cardinality({}) = 0 /\ 0 + 2 * 0 = 0
          BY FS_EmptySet
        <5> QED BY <4>5, <5>1 DEF Weight
      <4>7. Len(<< >>) = 0
        OBVIOUS
      <4> QED BY <4>1, <4>6, <4>7
    <3> QED BY <3>1, <3>2
  <2>7. Done(id)
    BY <2>5, <2>6
  <2> HIDE DEF Done
  <2> QED BY <2>7
<1> HIDE DEF Settled
<1>12. 0 .. n - 1 \subseteq Settled
  BY <1>3, <1>11, DownwardInduction
<1>13. ASSUME n # 0 PROVE Len(ToCode(Filled(t, ids))) = Cardinality(P) + 2 * Cardinality(C)
  <2>1. n \in Nat \ {0} /\ 0 \in 0 .. n - 1 /\ HasRoot(u)
    BY <1>3, <1>4, <1>13 DEF HasRoot
  <2>2. ToCode(u) = code[0]
    BY <1>8, <2>1, ToCodeIs
  <2>3. Len(code[0]) = Weight(n, up, P, C, 0)
    <3>1. 0 \in Settled
      BY <1>12, <2>1
    <3>2. Reached(0)
      OBVIOUS
    <3>3. Done(0)
      <4> HIDE DEF Done
      <4> QED BY <3>1 DEF Settled
    <3> HIDE DEF Reached
    <3> QED BY <3>2, <3>3
  <2>4. Below(n, up, 0) = 0 .. n - 1
    BY <1>3, <2>1, AllAreBelowTheRoot
  <2>5. P \cap Below(n, up, 0) = P /\ C \cap Below(n, up, 0) = C
    BY <1>5, <2>4
  <2> QED BY <1>1, <2>2, <2>3, <2>5 DEF Weight
<1>14. ASSUME n = 0 PROVE Len(ToCode(Filled(t, ids))) = Cardinality(P) + 2 * Cardinality(C)
  <2>1. ~ HasRoot(u) /\ P = {} /\ C = {}
    BY <1>3, <1>4, <1>5, <1>14 DEF HasRoot
  <2>2. ToCode(u) = << >>
    BY <2>1, ToCodeIs
  <2>3. Cardinality({}) = 0 /\ 0 + 2 * 0 = 0 /\ Len(<< >>) = 0
    BY FS_EmptySet
  <2> QED BY <1>1, <2>1, <2>2, <2>3
<1>15. Len(ToCode(Filled(t, ids))) = Cardinality(P) + 2 * Cardinality(C)
  BY <1>13, <1>14
<1> QED BY <1>0, <1>15 DEF LengthIs

(* What to_code gives, by what is printed.                                 *)
LEMMA TextIs ==
    ASSUME NEW t \in SoundTrees({NoInstr}), Fillable(t), NoInstr \notin Instrs, NEW ids
    PROVE  LengthIs(ToCode(Filled(t, ids)),
                    {id \in NodeIds(t) : PrintedOf(t, ids)[id]},
                    {id \in NodeIds(t) : /\ PrintedOf(t, ids)[id]
                                         /\ Filled(t, ids).nodes[id].instr.type \in DOMAIN F})
<1>1. PICK P : P = Hanging(Size(t), UpOf(t), ids)
  OBVIOUS
<1>2. NodeIds(t) = 0 .. Size(t) - 1
  BY TreesHaveAShape
<1>3. \A id \in NodeIds(t) : PrintedOf(t, ids)[id] <=> id \in P
  BY <1>1, PrintedIs
<1>4. P \subseteq NodeIds(t)
  BY <1>1, <1>2 DEF Hanging
<1>5. {id \in NodeIds(t) : PrintedOf(t, ids)[id]} = P
  BY <1>3, <1>4
<1>6. {id \in NodeIds(t) : PrintedOf(t, ids)[id] /\ Filled(t, ids).nodes[id].instr.type \in DOMAIN F}
        = CallsAmong(Filled(t, ids), P)
  BY <1>3, <1>4 DEF CallsAmong
<1>7. LengthIs(ToCode(Filled(t, ids)), P, CallsAmong(Filled(t, ids), P))
  BY <1>1, TextLength
<1> QED BY <1>5, <1>6, <1>7

(* For every tree that add_child built without instructions, and whose     *)
(* numbers of children some instruction takes: height() is the longest     *)
(* chain of parents, branching_factor() counts every node but the root and *)
(* every node that has a child (tree.cpp:278-329), and to_code prints the  *)
(* instruction of every node below filled ones and two parentheses for     *)
(* every call, whichever nodes are filled (tree.cpp:175-194).              *)
THEOREM WalksCountAllNodes ==
    ASSUME input.tree \in SoundTrees({NoInstr}),
           \A id \in NodeIds(input.tree) : RandInstrs(NumChildren(input.tree, id)) # {}
    PROVE  WalksCountEveryNode
<1> DEFINE t == input.tree
<1>1. Fillable(t)
  BY DEF Fillable
<1>2. Height(t) = Max({0} \cup {DepthOf(t)[id] : id \in NodeIds(t)})
  BY HeightIs
<1>3. HasRoot(t) =>
        BranchInfo(t) = <<Size(t) - 1, Cardinality({id \in NodeIds(t) : NumChildren(t, id) > 0})>>
  BY BranchesAreCounted
<1>4. ASSUME NEW ids
      PROVE  LengthIs(ToCode(Filled(t, ids)),
                      {id \in NodeIds(t) : PrintedOf(t, ids)[id]},
                      {id \in NodeIds(t) : /\ PrintedOf(t, ids)[id]
                                           /\ Filled(t, ids).nodes[id].instr.type \in DOMAIN F})
  BY <1>1, TextIs, RandSearchAssumption
<1> QED BY <1>2, <1>3, <1>4 DEF WalksCountEveryNode, DepthOf, PrintedOf, LengthIs

(***************************************************************************)
(* The instruction of a gene                                               *)
(***************************************************************************)
Byte == [1 .. 8 -> {0, 1}]

(* The number of a byte, as BlockToUint adds it up from the left.          *)
Binary(c, v) == v \in [0 .. 8 -> Nat] /\ v[0] = 0 /\ \A i \in 1 .. 8 : v[i] = 2 * v[i - 1] + c[i]

LEMMA ByteNumber ==
    ASSUME NEW c \in Byte
    PROVE  \E v : Binary(c, v) /\ Bits!BlockToUint(c) = v[8]
<1> DEFINE step == [at \in (1 .. 8) \X Nat |-> 2 * at[2] + c[at[1]]]
           next(f, i) == IF i = 0 THEN 0 ELSE 2 * f[i - 1] + c[i]
           val == CHOOSE f : f = [i \in 0 .. 8 |-> next(f, i)]
<1>1. PICK sums \in [0 .. 8 -> Nat] : Rounds(8, 0, step, sums)
  <2>1. step \in [(1 .. 8) \X Nat -> Nat]
    BY DEF Byte
  <2> HIDE DEF step
  <2> QED BY <2>1, RunExists
<1>2. sums[0] = 0 /\ \A i \in 1 .. 8 : sums[i] = 2 * sums[i - 1] + c[i]
  <2>1. sums[0] = 0
    BY <1>1 DEF Rounds
  <2>2. ASSUME NEW i \in 1 .. 8 PROVE sums[i] = 2 * sums[i - 1] + c[i]
    <3>1. sums[i] = step[<<i, sums[i - 1]>>] /\ i - 1 \in 0 .. 8
      <4> HIDE DEF step
      <4> QED BY <1>1 DEF Rounds
    <3>2. PICK x \in Nat : x = sums[i - 1]
      BY <3>1
    <3> QED BY <3>1, <3>2
  <2> QED BY <2>1, <2>2
<1>3. sums = [i \in 0 .. 8 |-> next(sums, i)]
  <2>1. ASSUME NEW i \in 0 .. 8 PROVE sums[i] = next(sums, i)
    <3>1. CASE i = 0
      BY <1>2, <3>1
    <3>2. CASE i \in 1 .. 8
      BY <1>2, <3>2
    <3> QED BY <3>1, <3>2
  <2> HIDE DEF next
  <2> QED BY <2>1
<1>4. val = [i \in 0 .. 8 |-> next(val, i)]
  <2> HIDE DEF next
  <2> QED BY <1>3
<1>5. Bits!BlockToUint(c) = val[8]
  BY DEF Bits!BlockToUint
<1> HIDE DEF val
<1>6. val[0] = 0 /\ \A i \in 1 .. 8 : val[i] = 2 * val[i - 1] + c[i]
  <2>1. 0 \in 0 .. 8 /\ \A i \in 1 .. 8 : i \in 0 .. 8 /\ i # 0
    OBVIOUS
  <2> QED BY <1>4, <2>1
<1>7. val \in [0 .. 8 -> Nat]
  <2> DEFINE T8 == {i \in 0 .. 8 : val[i] \in Nat}
  <2>1. 0 \in T8
    BY <1>6
  <2>2. ASSUME NEW i \in 1 .. 8, i - 1 \in T8 PROVE i \in T8
    <3>1. val[i] = 2 * val[i - 1] + c[i] /\ val[i - 1] \in Nat /\ c[i] \in Nat
      BY <1>6, <2>2 DEF Byte
    <3> QED BY <3>1
  <2> HIDE DEF T8
  <2>3. 0 .. 8 \subseteq T8
    BY <2>1, <2>2, RoundsInduction
  <2>4. \A i \in 0 .. 8 : val[i] \in Nat
    BY <2>3 DEF T8
  <2>5. val = [i \in 0 .. 8 |-> val[i]]
    BY <1>4
  <2> QED BY <2>4, <2>5
<1> QED BY <1>5, <1>6, <1>7 DEF Binary

LEMMA LastBitIsTheParity ==
    ASSUME NEW c \in Byte
    PROVE  /\ Bits!BlockToUint(c) \in Nat /\ Bits!BlockToUint(c) % 2 = c[8]
           /\ Bits!BlockToUint(c) % 1 = 0
<1>1. PICK v : Binary(c, v) /\ Bits!BlockToUint(c) = v[8]
  BY ByteNumber
<1>2. PICK x \in Nat, y \in {0, 1} : x = v[7] /\ y = c[8]
  BY <1>1 DEF Binary, Byte
<1>3. v[8] = 2 * x + y
  BY <1>1, <1>2 DEF Binary
<1>4. (2 * x + y) % 2 = y /\ (2 * x + y) % 1 = 0 /\ 2 * x + y \in Nat
  OBVIOUS
<1> QED BY <1>1, <1>2, <1>3, <1>4

(* Every number of k bits is that of a byte with no more than k bits.      *)
LEMMA NumbersHaveBytes ==
    ASSUME NEW k \in 0 .. 8, NEW m \in 0 .. Power(k) - 1
    PROVE  \E c \in Byte : Bits!BlockToUint(c) = m /\ \A j \in 1 .. 8 - k : c[j] = 0
<1> DEFINE Fits(l, x) == \E c \in Byte : Bits!BlockToUint(c) = x /\ \A j \in 1 .. 8 - l : c[j] = 0
           R == {l \in 0 .. 8 : \A x \in 0 .. Power(l) - 1 : Fits(l, x)}
<1>1. 0 \in R
  <2>1. PICK c \in Byte : \A i \in 1 .. 8 : c[i] = 0
    <3>1. [i \in 1 .. 8 |-> 0] \in Byte
      BY DEF Byte
    <3> QED BY <3>1
  <2>2. PICK v : Binary(c, v) /\ Bits!BlockToUint(c) = v[8]
    BY ByteNumber
  <2>3. \A i \in 1 .. 8 : v[i] = 2 * v[i - 1] + 0
    BY <2>1, <2>2 DEF Binary
  <2>4. v[8] = 0
    <3> DEFINE Z == {i \in 0 .. 8 : v[i] = 0}
    <3>1. 0 \in Z
      BY <2>2 DEF Binary
    <3>2. ASSUME NEW i \in 1 .. 8, i - 1 \in Z PROVE i \in Z
      BY <2>3, <3>2
    <3> HIDE DEF Z
    <3>3. 0 .. 8 \subseteq Z
      BY <3>1, <3>2, RoundsInduction
    <3> QED BY <3>3 DEF Z
  <2>5. 0 .. Power(0) - 1 = {0}
    BY PowerDoubles
  <2> QED BY <2>1, <2>2, <2>4, <2>5
<1>2. ASSUME NEW l \in 1 .. 8, l - 1 \in R PROVE l \in R
  <2> SUFFICES ASSUME NEW x \in 0 .. Power(l) - 1 PROVE Fits(l, x)
    OBVIOUS
  <2>1. PICK p \in Nat \ {0} : p = Power(l - 1) /\ Power(l) = 2 * p
    <3>1. l - 1 \in Nat /\ (l - 1) + 1 = l
      OBVIOUS
    <3> QED BY <3>1, PowerDoubles
  <2>2. PICK h \in 0 .. p - 1, d \in {0, 1} : x = 2 * h + d
    <3>1. x \in Nat /\ x < 2 * p
      BY <2>1
    <3>2. x \div 2 \in 0 .. p - 1 /\ x % 2 \in {0, 1} /\ x = 2 * (x \div 2) + (x % 2)
      BY <3>1
    <3> QED BY <3>2
  <2>3. PICK c \in Byte : Bits!BlockToUint(c) = h /\ \A j \in 1 .. 8 - (l - 1) : c[j] = 0
    BY <1>2, <2>1
  <2> DEFINE e == [j \in 1 .. 8 |-> IF j = 8 THEN d ELSE c[j + 1]]
  <2>4. /\ e \in Byte /\ e[8] = d /\ \A j \in 1 .. 7 : e[j] = c[j + 1]
        /\ \A j \in 1 .. 8 - l : e[j] = 0
    <3>1. c \in [1 .. 8 -> {0, 1}]
      BY DEF Byte
    <3>2. e \in Byte
      BY <3>1 DEF Byte
    <3>3. \A j \in 1 .. 8 - l : j \in 1 .. 7 /\ j + 1 \in 1 .. 8 - (l - 1)
      OBVIOUS
    <3> QED BY <2>3, <3>2, <3>3
  <2> HIDE DEF e
  <2>5. PICK v : Binary(c, v) /\ h = v[8]
    BY <2>3, ByteNumber
  <2>6. PICK w : Binary(e, w) /\ Bits!BlockToUint(e) = w[8]
    BY <2>4, ByteNumber
  <2> DEFINE S == {i \in 0 .. 7 : w[i] = v[i + 1]}
  <2>7. 0 \in S
    <3>1. c[1] = 0
      <4>1. 1 \in 1 .. 8 - (l - 1)
        OBVIOUS
      <4> QED BY <2>3, <4>1
    <3>2. v[1] = 2 * v[0] + c[1] /\ v[0] = 0 /\ w[0] = 0
      BY <2>5, <2>6 DEF Binary
    <3> QED BY <3>1, <3>2
  <2>8. ASSUME NEW i \in 1 .. 7, i - 1 \in S PROVE i \in S
    <3>1. w[i] = 2 * w[i - 1] + e[i] /\ v[i + 1] = 2 * v[(i + 1) - 1] + c[i + 1]
      <4>1. i \in 1 .. 8 /\ i + 1 \in 1 .. 8
        OBVIOUS
      <4> QED BY <2>5, <2>6, <4>1 DEF Binary
    <3>2. w[i - 1] = v[i] /\ (i + 1) - 1 = i /\ e[i] = c[i + 1]
      <4>1. (i - 1) + 1 = i /\ (i + 1) - 1 = i
        OBVIOUS
      <4> QED BY <2>4, <2>8, <4>1
    <3> QED BY <3>1, <3>2
  <2> HIDE DEF S
  <2>9. 7 \in S
    <3>1. 0 .. 7 \subseteq S
      BY <2>7, <2>8, RoundsInduction
    <3> QED BY <3>1
  <2>10. w[8] = 2 * h + d
    <3>1. w[8] = 2 * w[7] + e[8] /\ w[7] = v[8]
      BY <2>6, <2>9 DEF Binary, S
    <3> QED BY <2>4, <2>5, <3>1
  <2> QED BY <2>2, <2>4, <2>6, <2>10
<1> HIDE DEF R
<1>3. 0 .. 8 \subseteq R
  BY <1>1, <1>2, RoundsInduction
<1> QED BY <1>3 DEF R

(* CeilLog2(n) is the least exponent of a power that is not less than n.   *)
LEMMA CeilLog2Is ==
    ASSUME NEW n \in Nat
    PROVE  /\ CeilLog2(n) \in 0 .. n /\ Power(CeilLog2(n)) >= n
           /\ \A j \in 0 .. CeilLog2(n) - 1 : Power(j) < n
<1>1. \A e : Bits!Pow2(e) = Power(e)
  BY DEF Bits!Pow2, Power
<1>2. Power(n) >= n
  <2> DEFINE R == {k \in 0 .. n : Power(k) >= k}
  <2>1. 0 \in R
    BY PowerDoubles
  <2>2. ASSUME NEW k \in 1 .. n, k - 1 \in R PROVE k \in R
    <3>1. PICK p \in Nat \ {0} : p = Power(k - 1) /\ Power(k) = 2 * p
      <4>1. k - 1 \in Nat /\ (k - 1) + 1 = k
        OBVIOUS
      <4> QED BY <4>1, PowerDoubles
    <3>2. p >= k - 1
      BY <2>2, <3>1
    <3>3. 2 * p >= k
      BY <3>2
    <3> QED BY <3>1, <3>3
  <2> HIDE DEF R
  <2>3. 0 .. n \subseteq R
    BY <2>1, <2>2, RoundsInduction
  <2>4. n \in R
    BY <2>3
  <2> QED BY <2>4 DEF R
<1>3. PICK k \in 0 .. n : Power(k) >= n /\ \A j \in 0 .. n : Power(j) >= n => k <= j
  <2> DEFINE S == {j \in 0 .. n : Power(j) >= n}
  <2>1. S \in SUBSET Nat /\ S # {}
    BY <1>2
  <2>2. PICK k \in S : \A j \in S : k <= j
    BY <2>1, NatMinimum
  <2> QED BY <2>2
<1>4. ASSUME NEW j \in 0 .. k - 1 PROVE Power(j) < n
  <2>1. Power(j) \in Nat /\ j \in 0 .. n
    BY PowerDoubles
  <2>2. ~ (Power(j) >= n)
    BY <1>3, <2>1
  <2> QED BY <2>1, <2>2
<1>5. \E l \in 0 .. n : Bits!Pow2(l) >= n /\ \A j \in 0 .. l - 1 : Bits!Pow2(j) < n
  BY <1>1, <1>3, <1>4
<1>6. CeilLog2(n) \in 0 .. n /\ Bits!Pow2(CeilLog2(n)) >= n
      /\ \A j \in 0 .. CeilLog2(n) - 1 : Bits!Pow2(j) < n
  BY <1>5 DEF CeilLog2
<1> QED BY <1>1, <1>6

(* One bit selects among the constants of a type.                          *)
LEMMA OneBitSelects == ConstSelBits = 1
<1>1. (CHOOSE n \in {T[t] : t \in DOMAIN T} : \A t \in DOMAIN T : T[t] <= n) = 2
  <2>1. DOMAIN T = {"FLOAT_CONST", "INT_CONST", "VAR_CONST"}
        /\ T["FLOAT_CONST"] = 1 /\ T["INT_CONST"] = 2 /\ T["VAR_CONST"] = 2
    BY DEF T
  <2>2. {T[t] : t \in DOMAIN T} = {1, 2}
    BY <2>1
  <2>3. \A n \in {1, 2} : (\A t \in DOMAIN T : T[t] <= n) <=> n = 2
    BY <2>1
  <2> QED BY <2>2, <2>3
<1>2. CeilLog2(2) = 1
  <2>1. Power(0) = 1 /\ Power(1) = 2
    <3>1. 0 \in Nat /\ 0 + 1 = 1
      OBVIOUS
    <3> QED BY <3>1, PowerDoubles
  <2>2. PICK k : k = CeilLog2(2)
    OBVIOUS
  <2>3. k \in 0 .. 2 /\ Power(k) >= 2 /\ \A j \in 0 .. k - 1 : Power(j) < 2
    <3>1. 2 \in Nat
      OBVIOUS
    <3> QED BY <2>2, <3>1, CeilLog2Is
  <2>4. k # 0
    BY <2>1, <2>3
  <2>5. k # 2
    BY <2>1, <2>3
  <2> QED BY <2>2, <2>3, <2>4, <2>5
<1> QED BY <1>1, <1>2 DEF ConstSelBits

(* A vector of at most a byte.                                             *)
InByte(g, c) == [len |-> g, blocks |-> [k \in 1 .. 1 |-> c]]

(* Its number is that of the byte without the unused bits.                 *)
LEMMA NumberOfAByte ==
    ASSUME NEW g \in 1 .. 8, NEW c \in Byte
    PROVE  Bits!ToUint(InByte(g, c)) = Bits!BlockToUint(Bits!ShrBlock(c, 8 - g))
<1> DEFINE x == Bits!BlockToUint(Bits!ShrBlock(c, 8 - g))
           next(f, k) == IF k = 0 THEN 0 ELSE f[k - 1] * Bits!Pow2(8) + x
           bv == InByte(g, c)
           raw(f, k) == IF k = 0 THEN 0
                        ELSE f[k - 1] * Bits!Pow2(8)
                               + Bits!BlockToUint(Bits!ShrBlock(bv.blocks[k], Bits!UnusedBits(bv.len)))
           val == CHOOSE f : f = [k \in 0 .. Len(bv.blocks) |-> raw(f, k)]
<1>1. Bits!UnusedBits(g) = 8 - g
  <2>1. CASE g = 8
    <3>1. 8 % 8 = 0
      OBVIOUS
    <3> QED BY <2>1, <3>1 DEF Bits!UnusedBits
  <2>2. CASE g \in 1 .. 7
    <3>1. g % 8 = g
      BY <2>2
    <3> QED BY <2>2, <3>1 DEF Bits!UnusedBits
  <2> QED BY <2>1, <2>2
<1>2. x \in Nat
  <2>1. Bits!ShrBlock(c, 8 - g) \in Byte
    BY DEF Bits!ShrBlock, Bits!BitPos, Byte
  <2> QED BY <2>1, LastBitIsTheParity
<1>3. Bits!Pow2(8) \in Nat
  <2>1. Bits!Pow2(8) = Power(8)
    BY DEF Bits!Pow2, Power
  <2> QED BY <2>1, PowerDoubles
<1>4. Bits!ToUint(bv) = val[Len(bv.blocks)]
  BY DEF Bits!ToUint
<1>5. Len(bv.blocks) = 1 /\ bv.len = g /\ bv.blocks[1] = c
  BY DEF InByte
<1>6. \A f : \A k \in 0 .. 1 : raw(f, k) = next(f, k)
  <2> SUFFICES ASSUME NEW f, NEW k \in 0 .. 1 PROVE raw(f, k) = next(f, k)
    OBVIOUS
  <2>1. k # 0 => k = 1
    OBVIOUS
  <2> HIDE DEF bv
  <2> QED BY <1>1, <1>5, <2>1
<1> HIDE DEF bv
<1> HIDE DEF x
<1>7. val = [k \in 0 .. 1 |-> next(val, k)]
  <2>1. PICK f : f = [k \in 0 .. 1 |-> IF k = 0 THEN 0 ELSE x]
    OBVIOUS
  <2>2. f[0] = 0 /\ f[1] = x
    BY <2>1
  <2>3. 0 * Bits!Pow2(8) + x = x
    BY <1>2, <1>3
  <2>4. ASSUME NEW k \in 0 .. 1 PROVE f[k] = next(f, k)
    <3>1. CASE k = 0
      BY <2>2, <3>1
    <3>2. CASE k = 1
      <4>1. f[k - 1] = 0
        BY <2>2, <3>2
      <4> QED BY <2>2, <2>3, <3>2, <4>1
    <3> QED BY <3>1, <3>2
  <2>5. f = [k \in 0 .. 1 |-> next(f, k)]
    <3> HIDE DEF next
    <3> QED BY <2>1, <2>4
  <2> HIDE DEF next, raw
  <2>6. f = [k \in 0 .. Len(bv.blocks) |-> raw(f, k)]
    BY <1>5, <1>6, <2>5
  <2>7. val = [k \in 0 .. Len(bv.blocks) |-> raw(val, k)]
    BY <2>6
  <2> HIDE DEF val
  <2> QED BY <1>5, <1>6, <2>7
<1> HIDE DEF val
<1>8. val[0] = 0 /\ val[1] = val[0] * Bits!Pow2(8) + x
  <2>1. 0 \in 0 .. 1 /\ 1 \in 0 .. 1 /\ 1 - 1 = 0 /\ 1 # 0
    OBVIOUS
  <2>2. val[0] = next(val, 0) /\ val[1] = next(val, 1)
    <3> HIDE DEF next
    <3> QED BY <1>7, <2>1
  <2> QED BY <2>1, <2>2
<1>9. val[1] = x
  BY <1>2, <1>3, <1>8
<1> QED BY <1>4, <1>5, <1>9 DEF x, bv

(* The shifts of a vector of at most a byte.                               *)
ByteOf(g, b) == [i \in 1 .. 8 |-> IF i <= g THEN b[i] ELSE 0]
ToTheRight(g, c, d) == [i \in 1 .. 8 |-> IF i <= g /\ i > d THEN c[i - d] ELSE 0]

LEMMA ByteOfBits ==
    ASSUME NEW g \in 1 .. 8, NEW b \in [1 .. g -> {0, 1}]
    PROVE  ByteOf(g, b) \in Byte /\ Bits!OfBits(b) = InByte(g, ByteOf(g, b))
<1>1. Len(b) = g
  OBVIOUS
<1>2. Bits!NumBlocks(g) = 1
  <2>1. CASE g = 8
    <3>1. 8 \div 8 = 1 /\ 8 % 8 = 0
      OBVIOUS
    <3> QED BY <2>1, <3>1 DEF Bits!NumBlocks
  <2>2. CASE g \in 1 .. 7
    <3>1. g \div 8 = 0 /\ g % 8 = g
      BY <2>2
    <3> QED BY <2>2, <3>1 DEF Bits!NumBlocks
  <2> QED BY <2>1, <2>2
<1>3. ByteOf(g, b) \in Byte
  BY DEF ByteOf, Byte
<1>4. ASSUME NEW k \in 1 .. 1
      PROVE  [i \in Bits!BitPos |-> IF (k - 1) * 8 + i <= g THEN b[(k - 1) * 8 + i] ELSE 0] = ByteOf(g, b)
  <2>1. k = 1 /\ \A i \in 1 .. 8 : (1 - 1) * 8 + i = i
    OBVIOUS
  <2> QED BY <2>1 DEF ByteOf, Bits!BitPos
<1>5. Bits!OfBits(b) = [len |-> g, blocks |-> [k \in 1 .. 1 |->
         [i \in Bits!BitPos |-> IF (k - 1) * 8 + i <= g THEN b[(k - 1) * 8 + i] ELSE 0]]]
  BY <1>1, <1>2 DEF Bits!OfBits
<1> QED BY <1>3, <1>4, <1>5 DEF InByte

LEMMA ShiftedRight ==
    ASSUME NEW g \in 1 .. 8, NEW c \in Byte, NEW d \in 0 .. 7
    PROVE  /\ ToTheRight(g, c, d) \in Byte
           /\ Bits!ShiftRight(InByte(g, c), d) = InByte(g, ToTheRight(g, c, d))
<1>1. d \div 8 = 0 /\ d % 8 = d
  OBVIOUS
<1>2. PICK bv : bv = InByte(g, c)
  OBVIOUS
<1>3. bv = [len |-> g, blocks |-> [k \in 1 .. 1 |-> c]]
      /\ bv.len = g /\ DOMAIN bv.blocks = 1 .. 1 /\ bv.blocks[1] = c
  BY <1>2 DEF InByte
<1> DEFINE s == [i \in 1 .. 8 |-> IF i > d THEN c[i - d] ELSE 0]
<1>4. s \in Byte
  BY DEF Byte
<1>5. Bits!OrBlock(Bits!ShrBlock(c, d), Bits!ZeroBlock) = s
  <2>1. Bits!ShrBlock(c, d) = s
    BY DEF Bits!ShrBlock, Bits!BitPos
  <2> HIDE DEF s
  <2>2. Bits!OrBlock(s, Bits!ZeroBlock) = [i \in 1 .. 8 |-> IF s[i] = 1 \/ Bits!ZeroBlock[i] = 1 THEN 1 ELSE 0]
    BY DEF Bits!OrBlock, Bits!BitPos
  <2>3. \A i \in 1 .. 8 : Bits!ZeroBlock[i] = 0 /\ s[i] \in {0, 1}
    BY <1>4 DEF Bits!ZeroBlock, Bits!BitPos, Byte
  <2>4. \A i \in 1 .. 8 : (IF s[i] = 1 \/ Bits!ZeroBlock[i] = 1 THEN 1 ELSE 0) = s[i]
    BY <2>3
  <2>5. s = [i \in 1 .. 8 |-> s[i]]
    BY <1>4 DEF Byte
  <2> QED BY <2>1, <2>2, <2>4, <2>5
<1> HIDE DEF s
<1>6. Bits!ShiftRight(bv, d) = Bits!ZeroExtraBits(InByte(g, s))
  <2> DEFINE carry(k) == IF k = (d \div 8) + 1 THEN Bits!ZeroBlock
                         ELSE Bits!ShlBlock(bv.blocks[k - 1], 8 - (d % 8))
             block(k) == IF k <= d \div 8 THEN Bits!ZeroBlock
                         ELSE Bits!OrBlock(Bits!ShrBlock(bv.blocks[k], d % 8), carry(k))
  <2>1. Bits!ShiftRight(bv, d) = Bits!ZeroExtraBits([bv EXCEPT !.blocks = [k \in DOMAIN bv.blocks |-> block(k)]])
    BY DEF Bits!ShiftRight
  <2>2. \A k \in 1 .. 1 : block(k) = s
    <3>1. \A k \in 1 .. 1 : k = 1
      OBVIOUS
    <3>2. ~ (1 <= 0) /\ 1 = 0 + 1
      OBVIOUS
    <3>3. block(1) = Bits!OrBlock(Bits!ShrBlock(c, d), Bits!ZeroBlock)
      BY <1>1, <1>3, <3>2
    <3> HIDE DEF block
    <3> QED BY <1>5, <3>1, <3>3
  <2> HIDE DEF block
  <2>3. [k \in DOMAIN bv.blocks |-> block(k)] = [k \in 1 .. 1 |-> s]
    BY <1>3, <2>2
  <2>4. [bv EXCEPT !.blocks = [k \in 1 .. 1 |-> s]] = InByte(g, s)
    BY <1>3 DEF InByte
  <2> QED BY <2>1, <2>3, <2>4
<1>7. ToTheRight(g, c, d) \in Byte
  BY DEF ToTheRight, Byte
<1>8. CASE g = 8
  <2>1. 8 % 8 = 0
    OBVIOUS
  <2>2. Bits!ZeroExtraBits(InByte(g, s)) = InByte(g, s)
    BY <1>8, <2>1 DEF Bits!ZeroExtraBits, InByte
  <2>3. ToTheRight(g, c, d) = s
    BY <1>8 DEF ToTheRight, s
  <2> QED BY <1>2, <1>6, <1>7, <2>2, <2>3
<1>9. CASE g \in 1 .. 7
  <2>1. g % 8 = g /\ g # 0
    BY <1>9
  <2> DEFINE mask == Bits!NotBlock(Bits!MakeBlockMask(g, 8))
  <2>2. mask = [i \in 1 .. 8 |-> IF i <= g THEN 1 ELSE 0]
    <3>1. mask = [i \in 1 .. 8 |-> 1 - (IF g <= i - 1 /\ i - 1 < 8 THEN 1 ELSE 0)]
      BY DEF Bits!NotBlock, Bits!MakeBlockMask, Bits!BitPos
    <3>2. \A i \in 1 .. 8 : 1 - (IF g <= i - 1 /\ i - 1 < 8 THEN 1 ELSE 0) = IF i <= g THEN 1 ELSE 0
      OBVIOUS
    <3> HIDE DEF mask
    <3> QED BY <3>1, <3>2
  <2> HIDE DEF mask
  <2>3. Bits!AndBlock(s, mask) = ToTheRight(g, c, d)
    <3>1. Bits!AndBlock(s, mask) = [i \in 1 .. 8 |-> s[i] * mask[i]]
      BY DEF Bits!AndBlock, Bits!BitPos
    <3>2. ASSUME NEW i \in 1 .. 8 PROVE s[i] * mask[i] = ToTheRight(g, c, d)[i]
      <4>1. s[i] \in Int /\ mask[i] = (IF i <= g THEN 1 ELSE 0)
        BY <1>4, <2>2 DEF Byte
      <4>2. s[i] * mask[i] = IF i <= g THEN s[i] ELSE 0
        BY <4>1
      <4>3. s[i] = IF i > d THEN c[i - d] ELSE 0
        BY DEF s
      <4> QED BY <4>2, <4>3 DEF ToTheRight
    <3>3. ToTheRight(g, c, d) = [i \in 1 .. 8 |-> ToTheRight(g, c, d)[i]]
      BY DEF ToTheRight
    <3> QED BY <3>1, <3>2, <3>3
  <2>4. Bits!ZeroExtraBits(InByte(g, s)) = InByte(g, Bits!AndBlock(s, mask))
    <3>1. PICK v : v = InByte(g, s)
      OBVIOUS
    <3>2. v = [len |-> g, blocks |-> [k \in 1 .. 1 |-> s]] /\ v.len = g /\ Len(v.blocks) = 1
          /\ v.blocks = [k \in 1 .. 1 |-> s]
      BY <3>1 DEF InByte
    <3>3. Bits!ZeroExtraBits(v) = [v EXCEPT !.blocks[1] = Bits!AndBlock(v.blocks[1], mask)]
      BY <2>1, <3>2 DEF Bits!ZeroExtraBits, mask
    <3>4. PICK a : a = Bits!AndBlock(v.blocks[1], mask)
      OBVIOUS
    <3>5. v.blocks[1] = s
      BY <3>2
    <3>6. [v EXCEPT !.blocks[1] = a] = [len |-> g, blocks |-> [k \in 1 .. 1 |-> a]]
      BY <3>2
    <3> QED BY <3>1, <3>3, <3>4, <3>5, <3>6 DEF InByte
  <2> QED BY <1>2, <1>6, <1>7, <2>3, <2>4
<1> QED BY <1>8, <1>9

LEMMA ShiftedLeft ==
    ASSUME NEW g \in 1 .. 8, NEW c \in Byte, NEW d \in 0 .. 7
    PROVE  /\ Bits!ShlBlock(c, d) \in Byte
           /\ Bits!ShiftLeft(InByte(g, c), d) = InByte(g, Bits!ShlBlock(c, d))
<1>1. d \div 8 = 0 /\ d % 8 = d
  OBVIOUS
<1>2. PICK bv : bv = InByte(g, c)
  OBVIOUS
<1>3. bv = [len |-> g, blocks |-> [k \in 1 .. 1 |-> c]]
      /\ bv.len = g /\ DOMAIN bv.blocks = 1 .. 1 /\ Len(bv.blocks) = 1 /\ bv.blocks[1] = c
  BY <1>2 DEF InByte
<1>4. Bits!ShlBlock(c, d) \in Byte
  BY DEF Bits!ShlBlock, Bits!BitPos, Byte
<1>5. PICK s \in Byte : s = Bits!ShlBlock(c, d)
  BY <1>4
<1>6. Bits!OrBlock(s, Bits!ZeroBlock) = s
  <2>1. Bits!OrBlock(s, Bits!ZeroBlock) = [i \in 1 .. 8 |-> IF s[i] = 1 \/ Bits!ZeroBlock[i] = 1 THEN 1 ELSE 0]
    BY DEF Bits!OrBlock, Bits!BitPos
  <2>2. \A i \in 1 .. 8 : Bits!ZeroBlock[i] = 0 /\ s[i] \in {0, 1}
    BY DEF Bits!ZeroBlock, Bits!BitPos, Byte
  <2>3. \A i \in 1 .. 8 : (IF s[i] = 1 \/ Bits!ZeroBlock[i] = 1 THEN 1 ELSE 0) = s[i]
    BY <2>2
  <2>4. s = [i \in 1 .. 8 |-> s[i]]
    BY DEF Byte
  <2> QED BY <2>1, <2>3, <2>4
<1> DEFINE carry(k) == IF k = Len(bv.blocks) THEN Bits!ZeroBlock
                       ELSE Bits!ShrBlock(bv.blocks[k + 1], 8 - (d % 8))
           block(k) == IF k + (d \div 8) > Len(bv.blocks) THEN Bits!ZeroBlock
                       ELSE Bits!OrBlock(Bits!ShlBlock(bv.blocks[k + (d \div 8)], d % 8), carry(k + (d \div 8)))
<1>7. Bits!ShiftLeft(bv, d) = [bv EXCEPT !.blocks = [k \in DOMAIN bv.blocks |-> block(k)]]
  BY DEF Bits!ShiftLeft
<1>8. \A k \in 1 .. 1 : block(k) = s
  <2>1. \A k \in 1 .. 1 : k = 1
    OBVIOUS
  <2>2. ~ (1 + 0 > 1) /\ 1 + 0 = 1
    OBVIOUS
  <2>3. block(1) = Bits!OrBlock(Bits!ShlBlock(c, d), Bits!ZeroBlock)
    BY <1>1, <1>3, <2>2
  <2> HIDE DEF block
  <2> QED BY <1>5, <1>6, <2>1, <2>3
<1> HIDE DEF block
<1>9. [k \in DOMAIN bv.blocks |-> block(k)] = [k \in 1 .. 1 |-> s]
  BY <1>3, <1>8
<1>10. [bv EXCEPT !.blocks = [k \in 1 .. 1 |-> s]] = InByte(g, s)
  BY <1>3 DEF InByte
<1> QED BY <1>2, <1>4, <1>5, <1>7, <1>9, <1>10

(* The bytes that a type and a constant's place are read from: the first k *)
(* bits of a gene, and the next k as far as there are any.                 *)
TypeByte(b, k) == [j \in 1 .. 8 |-> IF j > 8 - k THEN b[j - (8 - k)] ELSE 0]
SelByte(g, b, k) == [j \in 1 .. 8 |-> IF j > 8 - k /\ j - 8 + 2 * k <= g THEN b[j - 8 + 2 * k] ELSE 0]

LEMMA TypeIsRead ==
    ASSUME NEW g \in 1 .. 8, NEW k \in 1 .. g - 1, NEW b \in [1 .. g -> {0, 1}]
    PROVE  /\ TypeByte(b, k) \in Byte
           /\ Bits!ToUint(Bits!ShiftRight(Bits!OfBits(b), g - k)) = Bits!BlockToUint(TypeByte(b, k))
<1>1. TypeByte(b, k) \in Byte
  <2>1. \A j \in 1 .. 8 : j > 8 - k => j - (8 - k) \in 1 .. g
    OBVIOUS
  <2> QED BY <2>1 DEF TypeByte, Byte
<1>2. PICK c \in Byte : c = ByteOf(g, b)
  BY ByteOfBits
<1>3. g - k \in 0 .. 7
  OBVIOUS
<1>4. PICK r \in Byte : r = ToTheRight(g, c, g - k)
  BY <1>3, ShiftedRight
<1>5. Bits!ToUint(Bits!ShiftRight(Bits!OfBits(b), g - k)) = Bits!BlockToUint(Bits!ShrBlock(r, 8 - g))
  BY <1>2, <1>3, <1>4, ByteOfBits, ShiftedRight, NumberOfAByte
<1>6. Bits!ShrBlock(r, 8 - g) = TypeByte(b, k)
  <2>1. Bits!ShrBlock(r, 8 - g) = [j \in 1 .. 8 |-> IF j > 8 - g THEN r[j - (8 - g)] ELSE 0]
    BY DEF Bits!ShrBlock, Bits!BitPos
  <2>2. ASSUME NEW j \in 1 .. 8
        PROVE  (IF j > 8 - g THEN r[j - (8 - g)] ELSE 0) = IF j > 8 - k THEN b[j - (8 - k)] ELSE 0
    <3>1. CASE j > 8 - g
      <4>1. PICK i \in 1 .. g : i = j - (8 - g)
        BY <3>1
      <4>2. r[i] = IF i > g - k THEN c[i - (g - k)] ELSE 0
        BY <1>4 DEF ToTheRight
      <4>3. i > g - k <=> j > 8 - k
        BY <4>1
      <4>4. i - (g - k) = j - (8 - k)
        BY <4>1
      <4>5. ASSUME j > 8 - k PROVE c[j - (8 - k)] = b[j - (8 - k)]
        <5>1. j - (8 - k) \in 1 .. 8 /\ j - (8 - k) <= g
          BY <4>5
        <5> QED BY <1>2, <5>1 DEF ByteOf
      <4> QED BY <3>1, <4>1, <4>2, <4>3, <4>4, <4>5
    <3>2. CASE ~ (j > 8 - g)
      <4>1. ~ (j > 8 - k)
        BY <3>2
      <4> QED BY <3>2, <4>1
    <3> QED BY <3>1, <3>2
  <2> QED BY <2>1, <2>2 DEF TypeByte
<1> QED BY <1>1, <1>5, <1>6

LEMMA SelIsRead ==
    ASSUME NEW g \in 1 .. 8, NEW k \in 1 .. g - 1, NEW b \in [1 .. g -> {0, 1}]
    PROVE  /\ SelByte(g, b, k) \in Byte
           /\ Bits!ToUint(Bits!ShiftRight(Bits!ShiftLeft(Bits!OfBits(b), k), g - k))
                = Bits!BlockToUint(SelByte(g, b, k))
<1>1. SelByte(g, b, k) \in Byte
  <2>1. \A j \in 1 .. 8 : j > 8 - k /\ j - 8 + 2 * k <= g => j - 8 + 2 * k \in 1 .. g
    OBVIOUS
  <2> QED BY <2>1 DEF SelByte, Byte
<1>2. PICK a \in Byte : a = ByteOf(g, b)
  BY ByteOfBits
<1>3. g - k \in 0 .. 7 /\ k \in 0 .. 7
  OBVIOUS
<1>4. PICK c \in Byte : c = Bits!ShlBlock(a, k)
  BY <1>3, ShiftedLeft
<1>5. PICK r \in Byte : r = ToTheRight(g, c, g - k)
  BY <1>3, ShiftedRight
<1>6. Bits!ToUint(Bits!ShiftRight(Bits!ShiftLeft(Bits!OfBits(b), k), g - k))
        = Bits!BlockToUint(Bits!ShrBlock(r, 8 - g))
  <2>1. Bits!OfBits(b) = InByte(g, a)
    BY <1>2, ByteOfBits
  <2>2. Bits!ShiftLeft(InByte(g, a), k) = InByte(g, c)
    BY <1>3, <1>4, ShiftedLeft
  <2>3. Bits!ShiftRight(InByte(g, c), g - k) = InByte(g, r)
    BY <1>3, <1>5, ShiftedRight
  <2>4. Bits!ToUint(InByte(g, r)) = Bits!BlockToUint(Bits!ShrBlock(r, 8 - g))
    BY NumberOfAByte
  <2> QED BY <2>1, <2>2, <2>3, <2>4
<1>7. Bits!ShrBlock(r, 8 - g) = SelByte(g, b, k)
  <2>1. Bits!ShrBlock(r, 8 - g) = [j \in 1 .. 8 |-> IF j > 8 - g THEN r[j - (8 - g)] ELSE 0]
    BY DEF Bits!ShrBlock, Bits!BitPos
  <2>2. ASSUME NEW j \in 1 .. 8
        PROVE  (IF j > 8 - g THEN r[j - (8 - g)] ELSE 0)
                 = IF j > 8 - k /\ j - 8 + 2 * k <= g THEN b[j - 8 + 2 * k] ELSE 0
    <3>1. CASE j > 8 - g
      <4>1. PICK i \in 1 .. g : i = j - (8 - g)
        BY <3>1
      <4>2. r[i] = IF i > g - k THEN c[i - (g - k)] ELSE 0
        BY <1>5 DEF ToTheRight
      <4>3. i > g - k <=> j > 8 - k
        BY <4>1
      <4>4. i - (g - k) = j - (8 - k)
        BY <4>1
      <4>5. ASSUME j > 8 - k
            PROVE  c[j - (8 - k)] = IF j - 8 + 2 * k <= g THEN b[j - 8 + 2 * k] ELSE 0
        <5>1. PICK m \in 1 .. 8 : m = j - (8 - k) /\ m + k = j - 8 + 2 * k
          BY <4>5
        <5>2. c[m] = IF m + k <= 8 THEN a[m + k] ELSE 0
          BY <1>4 DEF Bits!ShlBlock, Bits!BitPos
        <5>3. m + k <= 8 => a[m + k] = IF m + k <= g THEN b[m + k] ELSE 0
          BY <1>2 DEF ByteOf
        <5> QED BY <5>1, <5>2, <5>3
      <4> QED BY <3>1, <4>1, <4>2, <4>3, <4>4, <4>5
    <3>2. CASE ~ (j > 8 - g)
      <4>1. ~ (j > 8 - k)
        BY <3>2
      <4> QED BY <3>2, <4>1
    <3> QED BY <3>1, <3>2
  <2> QED BY <2>1, <2>2 DEF SelByte
<1> QED BY <1>1, <1>6, <1>7

(* The type and, of a type with two constants, the place that a gene's     *)
(* bits stand for.                                                         *)
TypeOf(b) == ActiveTypes[(Bits!BlockToUint(TypeByte(b, TypeBits)) % Len(ActiveTypes)) + 1]
SelOf(g, b) == IF 2 * TypeBits <= g THEN b[2 * TypeBits] ELSE 0

LEMMA InstrIs ==
    ASSUME NEW g \in 1 .. 8, TypeBits \in 1 .. g - 1, NEW b \in [1 .. g -> {0, 1}]
    PROVE  CreateInstr(Bits!OfBits(b)) =
             IF TypeOf(b) \in DOMAIN F THEN F[TypeOf(b)]
             ELSE Terminal(TypeOf(b), IF T[TypeOf(b)] = 2 THEN SelOf(g, b) ELSE 0)
<1>1. PICK k \in 1 .. g - 1 : k = TypeBits
  OBVIOUS
<1>2. PICK seq : seq = Bits!OfBits(b) /\ seq.len = g
  <2>1. PICK seq : seq = Bits!OfBits(b)
    OBVIOUS
  <2>2. PICK c : seq = InByte(g, c)
    BY <2>1, ByteOfBits
  <2>3. seq.len = g
    BY <2>2 DEF InByte
  <2> QED BY <2>1, <2>3
<1>3. SeqToType(seq) = TypeOf(b)
  BY <1>1, <1>2, TypeIsRead DEF SeqToType, TypeOf
<1>4. ASSUME TypeOf(b) \notin DOMAIN F
      PROVE  SeqToSel(seq) = IF T[TypeOf(b)] = 2 THEN SelOf(g, b) ELSE 0
  <2>1. SeqToSel(seq) = Bits!BlockToUint(SelByte(g, b, k)) % T[TypeOf(b)]
    BY <1>1, <1>2, <1>3, SelIsRead DEF SeqToSel, SelBits
  <2>2. TypeOf(b) \in DOMAIN F \cup DOMAIN T
    <3>1. Bits!BlockToUint(TypeByte(b, k)) \in Nat
      BY TypeIsRead, LastBitIsTheParity
    <3>2. PICK x \in Nat, l \in Nat \ {0} : x = Bits!BlockToUint(TypeByte(b, k)) /\ l = Len(ActiveTypes)
      BY <3>1, InstrAssumption
    <3>3. (x % l) + 1 \in 1 .. l
      OBVIOUS
    <3> QED BY <1>1, <3>2, <3>3, InstrAssumption DEF TypeOf
  <2>3. T[TypeOf(b)] \in {1, 2}
    BY <1>4, <2>2 DEF T
  <2>4. SelByte(g, b, k)[8] = SelOf(g, b)
    <3>1. 8 > 8 - k /\ 8 - 8 + 2 * k = 2 * k
      OBVIOUS
    <3> QED BY <1>1, <3>1 DEF SelByte, SelOf
  <2>5. Bits!BlockToUint(SelByte(g, b, k)) % 2 = SelOf(g, b)
        /\ Bits!BlockToUint(SelByte(g, b, k)) % 1 = 0
    BY <2>4, SelIsRead, LastBitIsTheParity
  <2> QED BY <2>1, <2>3, <2>5
<1> QED BY <1>2, <1>3, <1>4 DEF CreateInstr

Calls == {F[t] : t \in Types \cap DOMAIN F}
Terminals == UNION {{Terminal(t, sel) : sel \in 0 .. T[t] - 1} : t \in Types \cap DOMAIN T}

(* The draw by arguments may give every active instruction.                *)
LEMMA AllInstrs == UNION {RandInstrs(n) : n \in 0 .. 3} = Calls \cup Terminals
<1>1. \A n : RandInstrs(n) =
        {F[type] : type \in {t \in Types \cap DOMAIN F : Accepts(F[t], n)}}
          \cup (IF n # 0 THEN {} ELSE Terminals)
  BY DEF RandInstrs, Types, Terminals
<1>2. \A n : RandInstrs(n) \subseteq Calls \cup Terminals
  BY <1>1 DEF Calls
<1>3. ASSUME NEW t \in Types \cap DOMAIN F
      PROVE  \E n \in 0 .. 3 : F[t] \in RandInstrs(n)
  <2>1. \E n \in 0 .. 3 : Accepts(F[t], n)
    <3>1. t \in {"ADD", "SUB", "MULT", "DIV", "EQ", "IF", "LIST"}
      BY DEF F
    <3>2. CASE t \in {"ADD", "SUB", "MULT", "DIV"}
      <4>1. F[t] = FnCall(t, 1, Unlimited)
        BY <3>2 DEF F
      <4> QED BY <4>1 DEF Accepts, FnCall
    <3>3. CASE t = "EQ"
      <4>1. F[t] = FnCall(t, 2, 2)
        BY <3>3 DEF F
      <4> QED BY <4>1 DEF Accepts, FnCall
    <3>4. CASE t = "IF"
      <4>1. F[t] = FnCall(t, 3, 3)
        BY <3>4 DEF F
      <4> QED BY <4>1 DEF Accepts, FnCall
    <3>5. CASE t = "LIST"
      <4>1. F[t] = FnCall(t, 0, Unlimited)
        BY <3>5 DEF F
      <4> QED BY <4>1 DEF Accepts, FnCall
    <3> QED BY <3>1, <3>2, <3>3, <3>4, <3>5
  <2> QED BY <1>1, <2>1
<1>4. Terminals \subseteq RandInstrs(0)
  BY <1>1
<1>5. Calls \subseteq UNION {RandInstrs(n) : n \in 0 .. 3}
  BY <1>3 DEF Calls
<1> QED BY <1>2, <1>4, <1>5

(* Every place of the list of types is read from the bits of a gene, with  *)
(* either selecting bit if there is one.                                   *)
LEMMA EveryPlaceIsRead ==
    ASSUME NEW g \in 1 .. 8, TypeBits \in 1 .. g - 1,
           NEW i \in 1 .. Len(ActiveTypes), NEW sel \in {0, 1}
    PROVE  \E b \in [1 .. g -> {0, 1}] :
             TypeOf(b) = ActiveTypes[i] /\ SelOf(g, b) = IF 2 * TypeBits <= g THEN sel ELSE 0
<1>1. PICK k \in 1 .. g - 1 : k = TypeBits
  OBVIOUS
<1>2. PICK n \in Nat \ {0} : n = Len(ActiveTypes) /\ i \in 1 .. n
  BY InstrAssumption
<1>3. PICK c \in Byte : Bits!BlockToUint(c) = i - 1 /\ \A j \in 1 .. 8 - k : c[j] = 0
  <2>1. Power(k) \in Nat /\ Power(k) >= n
    BY <1>1, <1>2, CeilLog2Is, PowerDoubles DEF TypeBits
  <2>2. k \in 0 .. 8 /\ i - 1 \in 0 .. Power(k) - 1
    BY <1>2, <2>1
  <2> QED BY <2>2, NumbersHaveBytes
<1> DEFINE b == [p \in 1 .. g |-> IF p <= k THEN c[p + (8 - k)] ELSE sel]
<1>4. b \in [1 .. g -> {0, 1}]
  <2>1. \A p \in 1 .. g : p <= k => p + (8 - k) \in 1 .. 8
    OBVIOUS
  <2> QED BY <2>1 DEF Byte
<1>5. \A p \in 1 .. g : b[p] = IF p <= k THEN c[p + (8 - k)] ELSE sel
  OBVIOUS
<1> HIDE DEF b
<1>6. TypeByte(b, k) = c
  <2>1. ASSUME NEW j \in 1 .. 8 PROVE (IF j > 8 - k THEN b[j - (8 - k)] ELSE 0) = c[j]
    <3>1. CASE j > 8 - k
      <4>1. PICK p \in 1 .. g : p = j - (8 - k) /\ p <= k /\ p + (8 - k) = j
        BY <3>1
      <4> QED BY <1>5, <3>1, <4>1
    <3>2. CASE ~ (j > 8 - k)
      <4>1. j \in 1 .. 8 - k
        BY <3>2
      <4> QED BY <1>3, <3>2, <4>1
    <3> QED BY <3>1, <3>2
  <2>2. c = [j \in 1 .. 8 |-> c[j]]
    BY DEF Byte
  <2> QED BY <2>1, <2>2 DEF TypeByte
<1>7. TypeOf(b) = ActiveTypes[i]
  <2>1. (i - 1) % n = i - 1 /\ (i - 1) + 1 = i
    BY <1>2
  <2> QED BY <1>1, <1>2, <1>3, <1>6, <2>1 DEF TypeOf
<1>8. ASSUME 2 * k <= g PROVE b[2 * k] = sel
  <2>1. 2 * k \in 1 .. g /\ ~ (2 * k <= k)
    BY <1>8
  <2> QED BY <1>5, <2>1
<1> QED BY <1>1, <1>4, <1>7, <1>8 DEF SelOf

LEMMA TypesAre ==
    /\ Types \subseteq DOMAIN F \cup DOMAIN T
    /\ DOMAIN F \cap DOMAIN T = {}
    /\ \A t \in DOMAIN T : T[t] = IF t = "FLOAT_CONST" THEN 1 ELSE 2
    /\ DOMAIN T = {"FLOAT_CONST", "INT_CONST", "VAR_CONST"}
    /\ \A t \in DOMAIN F : F[t].sel = 0 /\ F[t].type = t
<1>1. DOMAIN F = {"ADD", "SUB", "MULT", "DIV", "EQ", "IF", "LIST"}
  BY DEF F
<1>2. DOMAIN T = {"FLOAT_CONST", "INT_CONST", "VAR_CONST"}
      /\ T["FLOAT_CONST"] = 1 /\ T["INT_CONST"] = 2 /\ T["VAR_CONST"] = 2
  BY DEF T
<1>3. Types \subseteq DOMAIN F \cup DOMAIN T
  BY InstrAssumption DEF Types
<1>4. ASSUME NEW t \in DOMAIN F PROVE F[t].sel = 0 /\ F[t].type = t
  <2>1. CASE t \in {"ADD", "SUB", "MULT", "DIV"}
    <3>1. F[t] = FnCall(t, 1, Unlimited)
      BY <2>1 DEF F
    <3> QED BY <3>1 DEF FnCall
  <2>2. CASE t = "EQ"
    <3>1. F[t] = FnCall(t, 2, 2)
      BY <2>2 DEF F
    <3> QED BY <3>1 DEF FnCall
  <2>3. CASE t = "IF"
    <3>1. F[t] = FnCall(t, 3, 3)
      BY <2>3 DEF F
    <3> QED BY <3>1 DEF FnCall
  <2>4. CASE t = "LIST"
    <3>1. F[t] = FnCall(t, 0, Unlimited)
      BY <2>4 DEF F
    <3> QED BY <3>1 DEF FnCall
  <2> QED BY <1>1, <2>1, <2>2, <2>3, <2>4
<1>5. \A t \in DOMAIN T : T[t] = IF t = "FLOAT_CONST" THEN 1 ELSE 2
  BY <1>2
<1>6. DOMAIN F \cap DOMAIN T = {}
  BY <1>1, <1>2
<1> QED BY <1>2, <1>3, <1>4, <1>5, <1>6

Coded(g) == {CreateInstr(Bits!OfBits(b)) : b \in [1 .. g -> {0, 1}]}

(* What the genes of g bits stand for: with twice the bits of a type every *)
(* active instruction, with fewer those of the first constants only.       *)
LEMMA CodedAre ==
    ASSUME NEW g \in 1 .. 8, TypeBits \in 1 .. g - 1
    PROVE  /\ Coded(g) \subseteq Calls \cup Terminals /\ Coded(g) # {}
           /\ 2 * TypeBits <= g => Calls \cup Terminals \subseteq Coded(g)
           /\ 2 * TypeBits > g => \A instr \in Coded(g) : instr.sel = 0
<1>1. ASSUME NEW b \in [1 .. g -> {0, 1}]
      PROVE  TypeOf(b) \in Types /\ SelOf(g, b) \in {0, 1}
  <2>1. PICK k \in 1 .. g - 1 : k = TypeBits
    OBVIOUS
  <2>2. Bits!BlockToUint(TypeByte(b, k)) \in Nat
    BY TypeIsRead, LastBitIsTheParity
  <2>3. PICK x \in Nat, l \in Nat \ {0} : x = Bits!BlockToUint(TypeByte(b, k)) /\ l = Len(ActiveTypes)
    BY <2>2, InstrAssumption
  <2>4. (x % l) + 1 \in 1 .. l
    OBVIOUS
  <2>5. SelOf(g, b) \in {0, 1}
    BY <2>1 DEF SelOf
  <2> QED BY <2>1, <2>3, <2>4, <2>5 DEF TypeOf, Types
<1>2. ASSUME NEW b \in [1 .. g -> {0, 1}]
      PROVE  /\ CreateInstr(Bits!OfBits(b)) \in Calls \cup Terminals
             /\ 2 * TypeBits > g => CreateInstr(Bits!OfBits(b)).sel = 0
  <2>1. PICK t \in Types, s \in {0, 1} : t = TypeOf(b) /\ s = SelOf(g, b)
    BY <1>1
  <2>2. CreateInstr(Bits!OfBits(b)) = IF t \in DOMAIN F THEN F[t] ELSE Terminal(t, IF T[t] = 2 THEN s ELSE 0)
    BY <2>1, InstrIs
  <2>3. 2 * TypeBits > g => s = 0
    BY <2>1 DEF SelOf
  <2>4. CASE t \in DOMAIN F
    BY <2>2, <2>4, TypesAre DEF Calls
  <2>5. CASE t \notin DOMAIN F
    <3>1. t \in DOMAIN T /\ T[t] \in {1, 2}
      BY <2>5, TypesAre
    <3>2. (IF T[t] = 2 THEN s ELSE 0) \in 0 .. T[t] - 1
      BY <3>1
    <3>3. Terminal(t, IF T[t] = 2 THEN s ELSE 0) \in Terminals
      BY <3>1, <3>2 DEF Terminals
    <3>4. Terminal(t, IF T[t] = 2 THEN s ELSE 0).sel = IF T[t] = 2 THEN s ELSE 0
      BY DEF Terminal
    <3> QED BY <2>2, <2>3, <2>5, <3>3, <3>4
  <2> QED BY <2>4, <2>5
<1>3. ASSUME 2 * TypeBits <= g, NEW t \in Types, NEW sel \in {0, 1}
      PROVE  (IF t \in DOMAIN F THEN F[t] ELSE Terminal(t, IF T[t] = 2 THEN sel ELSE 0)) \in Coded(g)
  <2>1. PICK i \in 1 .. Len(ActiveTypes) : t = ActiveTypes[i]
    BY DEF Types
  <2>2. PICK b \in [1 .. g -> {0, 1}] : TypeOf(b) = t /\ SelOf(g, b) = sel
    BY <1>3, <2>1, EveryPlaceIsRead
  <2>3. CreateInstr(Bits!OfBits(b)) = IF t \in DOMAIN F THEN F[t] ELSE Terminal(t, IF T[t] = 2 THEN sel ELSE 0)
    BY <2>2, InstrIs
  <2> QED BY <2>3 DEF Coded
<1>4. ASSUME 2 * TypeBits <= g PROVE Calls \cup Terminals \subseteq Coded(g)
  <2>1. Calls \subseteq Coded(g)
    BY <1>3, <1>4 DEF Calls
  <2>2. ASSUME NEW t \in Types \cap DOMAIN T, NEW sel \in 0 .. T[t] - 1 PROVE Terminal(t, sel) \in Coded(g)
    <3>1. t \notin DOMAIN F /\ T[t] \in {1, 2}
      BY TypesAre
    <3>2. sel \in {0, 1} /\ (IF T[t] = 2 THEN sel ELSE 0) = sel
      BY <3>1
    <3> QED BY <1>3, <1>4, <3>1, <3>2
  <2> QED BY <2>1, <2>2 DEF Terminals
<1>5. Coded(g) # {}
  <2>1. [p \in 1 .. g |-> 0] \in [1 .. g -> {0, 1}]
    OBVIOUS
  <2> QED BY <2>1 DEF Coded
<1> QED BY <1>2, <1>4, <1>5 DEF Coded

(* Whichever types are active, as long as one has two constants, and for   *)
(* genes of at most a byte: every gene stands for an active instruction,   *)
(* and every active instruction has one just if a gene has twice the bits  *)
(* of a type. With fewer, which the factory accepts, the second constant   *)
(* of a type has none (instr_factory.cpp:28-31, 78-94).                    *)
THEOREM InstrsHaveSequences ==
    ASSUME input.gene_bits \in 1 .. 8, Len(ActiveTypes) > 1,
           \E i \in 1 .. Len(ActiveTypes) : ActiveTypes[i] \in {"INT_CONST", "VAR_CONST"}
    PROVE  EveryInstrHasASequence
<1> SUFFICES ASSUME EnoughBits(input.gene_bits) PROVE EveryInstrHasASequence
  BY DEF EveryInstrHasASequence
<1>1. PICK g \in 1 .. 8 : g = input.gene_bits
  OBVIOUS
<1>2. PICK k \in Nat : k = TypeBits /\ Power(k) >= Len(ActiveTypes)
  BY InstrAssumption, CeilLog2Is DEF TypeBits
<1>3. k \in 1 .. g - 1
  <2>1. k + 1 <= g
    BY <1>1, <1>2, OneBitSelects DEF EnoughBits
  <2>2. k # 0
    <3>1. Len(ActiveTypes) \in Nat /\ Power(0) = 1
      BY InstrAssumption, PowerDoubles
    <3> QED BY <1>2, <3>1
  <2> QED BY <2>1, <2>2
<1>4. /\ Coded(g) \subseteq Calls \cup Terminals /\ Coded(g) # {}
      /\ 2 * k <= g => Calls \cup Terminals \subseteq Coded(g)
      /\ 2 * k > g => \A instr \in Coded(g) : instr.sel = 0
  BY <1>2, <1>3, CodedAre
<1>5. PICK second \in Terminals : second.sel = 1
  <2>1. PICK t \in Types : t \in {"INT_CONST", "VAR_CONST"}
    BY DEF Types
  <2>2. t \in DOMAIN T /\ T[t] = 2
    BY <2>1, TypesAre
  <2>3. 1 \in 0 .. T[t] - 1
    BY <2>2
  <2>4. Terminal(t, 1) \in Terminals
    BY <2>2, <2>3 DEF Terminals
  <2>5. Terminal(t, 1).sel = 1
    BY DEF Terminal
  <2> QED BY <2>4, <2>5
<1>6. Coded(g) = Calls \cup Terminals <=> g >= 2 * k
  <2>1. CASE 2 * k <= g
    BY <1>4, <2>1
  <2>2. CASE 2 * k > g
    <3>1. second \notin Coded(g)
      BY <1>4, <1>5, <2>2
    <3> QED BY <1>5, <2>2, <3>1
  <2> QED BY <2>1, <2>2
<1>7. {instr.sel : instr \in Coded(g)} = {0} <=> g < 2 * k
  <2>1. PICK sels : sels = {instr.sel : instr \in Coded(g)}
    OBVIOUS
  <2>2. 2 * k <= g => 1 \in sels
    BY <1>4, <1>5, <2>1
  <2>3. 2 * k > g => sels = {0}
    BY <1>4, <2>1
  <2>4. 2 * k <= g <=> ~ (2 * k > g)
    OBVIOUS
  <2>5. sels = {0} <=> 2 * k > g
    BY <2>2, <2>3, <2>4
  <2>6. g < 2 * k <=> 2 * k > g
    OBVIOUS
  <2> QED BY <2>1, <2>5, <2>6
<1> QED BY <1>1, <1>2, <1>4, <1>6, <1>7, AllInstrs DEF EveryInstrHasASequence, Coded
=============================================================================
