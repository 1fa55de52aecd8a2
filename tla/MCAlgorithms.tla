---------------------------- MODULE MCAlgorithms ----------------------------
(* The pure algorithms against reference definitions, over every input up  *)
(* to a bound.  A state is one input; only a protein (diffused over and    *)
(* over) and a tree (grown node by node) take steps.                       *)
EXTENDS Algorithms, TreeAlgorithms, InstrAlgorithms, Diffusion

CONSTANTS
    MaxBuckets,          \* buckets of a draw
    MaxOutputs,          \* proteins a gene has output
    MaxParts,            \* genes, or initial proteins, of a parent
    GeneBits,            \* lengths of a gene's sequences
    Fitnesses,           \* fitnesses of the individuals, and how many of them
    MaxIndividuals,
    MaxNodes             \* nodes of a tree

Config == INSTANCE TomlDocuments

Init ==
    \/ \E c \in Concs : input = [kind |-> "protein", concs |-> c]
    \/ \E n \in 0 .. MaxBuckets : \E w \in [1 .. n -> 0 .. Spins] :
         input = [kind |-> "weights", weights |-> w]
    \/ \E n \in 0 .. MaxOutputs : \E ids \in SUBSET (1 .. n) :
         input = [kind |-> "outputs", outputs |-> [i \in 1 .. n |-> i], faded |-> ids]
    \/ \E n \in 1 .. MaxParts : \E pt \in 1 .. n :
         input = [kind |-> "couple", size |-> n, split_pt |-> pt]
    \/ \E n \in GeneBits : input = [kind |-> "gene_bits", gene_bits |-> n]
    \/ \E b \in BitStrings(1 .. MaxBits) : input = [kind |-> "bits", bits |-> b]
    \/ \E n \in 1 .. MaxIndividuals : \E f \in [1 .. n -> Fitnesses] :
         input = [kind |-> "fitnesses", fitnesses |-> f]
    \/ input = [kind |-> "tree", tree |-> EmptyTree]
    \/ \E v \in Config!Values, pad \in Config!Pads :
         input = [kind |-> "value", value |-> v, pad |-> pad]
    \/ \E doc \in Config!Documents : input = [kind |-> "document", sections |-> doc]
    \/ \E text \in Config!Texts : input = [kind |-> "text", text |-> text]

Spread ==
    /\ input.kind = "protein"
    /\ input' = [input EXCEPT !.concs = Diffuse(@)]
(* A parent that is not in the tree may be asked for (reg_sim.cpp:96,      *)
(* rand_search.cpp:65).                                                    *)
Grow ==
    /\ input.kind = "tree" /\ Size(input.tree) < MaxNodes
    /\ \E parent \in -1 .. MaxNodes - 1 :
         input' = [input EXCEPT !.tree = AddChild(@, parent, NoInstr)]
Next == Spread \/ Grow
Spec == Init /\ [][Next]_input /\ WF_input(Spread)

(***************************************************************************)
(* Diffusion                                                               *)
(***************************************************************************)
(* A protein that is no longer produced falls below min_protein_conc       *)
(* everywhere and is deleted (diffusion.cpp:14-25, grn.cpp:167-170).       *)
Fades == <>[](Is("protein") => ~ AboveThreshold(input.concs))

(***************************************************************************)
(* The configuration's text                                                *)
(***************************************************************************)
ConfigText ==
    CASE Is("value") -> Config!Line(<<"k">>, input.value, input.pad)
      [] Is("document") -> Config!Document(input.sections)
      [] Is("text") -> <<"a", "=">> \o input.text
ReadConfig == Config!Parse(ConfigText)
WithinReach ==
    LET read == ReadConfig
    IN CASE Is("value") ->
              ~ Config!Delicate(input.value, FALSE) => Config!AsWritten(<<"k">>, input.value, read)
         [] Is("document") ->
              /\ read.out = "ok" => Config!Valid(input.sections) /\ Config!Kept(input.sections, read)
              /\ Config!Valid(input.sections) /\ Config!ParentsFirst(input.sections) =>
                   read.out = "ok"
              /\ Config!NoneBelowNumber(input.sections) => read.out \in {"ok", "throws"}
         [] Is("text") ->
              Config!NoBraceInBrackets(input.text) => read.out \in {"ok", "throws"}
(* A value, laid out in any way, is read back as it was written; named     *)
(* tables are read when v0.4.0 allows them and no table comes after one    *)
(* below it, and only when v0.4.0 allows them, nothing of them lost and    *)
(* the elements of [[a]] in order; a text ends the parser with a result or *)
(* an exception (toml_parser.hpp:102-343, 634-763, 857-1019).  That it is  *)
(* so of every configuration is what ParserKeepsItsPromise says: here are  *)
(* those without the values of Delicate, names below a number and a brace  *)
(* closed within a bracket.                                                *)
PlainConfigIsRead == input.kind \in {"value", "document", "text"} => WithinReach

(***************************************************************************)
(* What comments and configuration say, and the code does not do           *)
(***************************************************************************)
(* sample_runs.toml:15: the run is over "when best fitness drops below"    *)
(* the cutoff, so the lower fitness is the better one; then selection does *)
(* not give it fewer of the spins.                                         *)
SelectionFavoursFitter ==
    Is("fitnesses") =>
        LET share(i) == Cardinality({k \in 0 .. Spins * 20 - 1 :
                                       Selected(input.fitnesses, k, Spins * 20) = i})
        IN \A i, j \in DOMAIN input.fitnesses :
             input.fitnesses[i] < input.fitnesses[j] => share(i) >= share(j)

KeepsPromise ==
    LET read == ReadConfig
    IN CASE Is("value") -> Config!AsWritten(<<"k">>, input.value, read)
         [] Is("document") ->
              IF Config!Valid(input.sections)
              THEN read.out = "ok" /\ Config!Kept(input.sections, read)
              ELSE read.out = "throws"
         [] Is("text") -> read.out \in {"ok", "throws"}
(* The parser "supports TOML v0.4.0", and "if the syntax is invalid or     *)
(* some sort of an internal error occurs" parse throws (the README.md of   *)
(* TOMLParser, lines 11 and 212-214): what v0.4.0 allows is read as it is  *)
(* meant there, and anything else ends in an exception.                    *)
ParserKeepsItsPromise == input.kind \in {"value", "document", "text"} => KeepsPromise

MCActiveTypes == <<"ADD", "SUB", "MULT", "DIV", "EQ", "IF", "INT_CONST", "VAR_CONST">>
=============================================================================
