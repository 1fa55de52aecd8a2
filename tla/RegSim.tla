------------------------------- MODULE RegSim -------------------------------
(***************************************************************************)
(* The regulatory simulation of one individual (reg_sim.cpp): the network  *)
(* of module Grn runs reg_steps steps, and at the end of each of them the  *)
(* phenotype's tree may grow (grow_step) and a node of it may be given an  *)
(* instruction (code_step2), read off the proteins of that moment.  While  *)
(* it codes, the concentrations do not decay.                              *)
(***************************************************************************)
EXTENDS Grn, Tree, InstrDist

CONSTANTS
    GrowthStart, GrowthEnd, GrowthInterval,   \* run->growth_*
    GrowthThreshold,                          \* run->growth_threshold, in levels
    CodeStart, CodeEnd, CodeInterval,         \* run->code_*
    MaxPgmSize,                               \* run->max_pgm_size
    MinArgs, MaxArgs                          \* per sequence: its instruction's arities

Unlimited == -1

ASSUME RegSimAssumption ==
    /\ {GrowthStart, GrowthEnd, CodeStart, CodeEnd} \subseteq Int
    /\ GrowthInterval \in Nat \ {0} /\ CodeInterval \in Nat \ {0}
    /\ MaxPgmSize \in Nat
    /\ MinArgs \in [Seqs -> Nat] /\ MaxArgs \in [Seqs -> Nat \cup {Unlimited}]

VARIABLE ptype

rvars == <<vars, ptype>>

(***************************************************************************)
(* grow_step                                                               *)
(***************************************************************************)
SizeLimit == IF MaxPgmSize < NumGenes THEN MaxPgmSize ELSE NumGenes

Growing_Fault(t) ==
    /\ reg_step >= GrowthStart
    /\ Size(t) < SizeLimit
    /\ (reg_step - GrowthStart) % GrowthInterval = 0
Growing(t) ==
    /\ reg_step \in GrowthStart .. GrowthEnd
    /\ Size(t) < SizeLimit
    /\ (reg_step - GrowthStart) % GrowthInterval = 0

(* Proteins in the order of their ids, each at its positions from the      *)
(* left, add a position to grow at while there is room for one more.       *)
GrowIndices(t) ==
    LET above(i) == {id \in Ids : /\ proteins[id].seq = growth_seq
                                  /\ proteins[id].concs[i] > GrowthThreshold}
        over == {i \in Genes : above(i) # {}}
        first(i) == CHOOSE id \in above(i) : \A other \in above(i) : id <= other
        before(k, i) == first(k) < first(i) \/ (first(k) = first(i) /\ k < i)
    IN {i \in over : Size(t) + Cardinality({k \in over : before(k, i)}) < SizeLimit}

(* A child is added below each of them, from the left.                     *)
Grown(t) ==
    LET grown[k \in 0 .. NumGenes] ==
            IF k = 0 THEN t
            ELSE IF k - 1 \in GrowIndices(t) THEN AddChild(grown[k - 1], k - 1, NoInstr)
            ELSE grown[k - 1]
    IN IF Growing(t) THEN grown[NumGenes] ELSE t

(***************************************************************************)
(* code_step2                                                              *)
(***************************************************************************)
(* The node this sample fills, by the protein concentrations at the gene   *)
(* of the same number.                                                     *)
CodeStep == (reg_step - CodeStart) \div CodeInterval

Coding(t) ==
    /\ reg_step \in CodeStart .. CodeEnd
    /\ (reg_step - CodeStart) % CodeInterval = 0
    /\ CodeStep < Size(t)

Accepts(seq, num_args) ==
    num_args >= MinArgs[seq] /\ (num_args <= MaxArgs[seq] \/ MaxArgs[seq] = Unlimited)

Buckets(t) ==
    {id \in Ids : /\ proteins[id].seq # growth_seq
                  /\ Accepts(proteins[id].seq, NumChildren(t, CodeStep))}

(* The trees that coding t may give: unchanged when there is no bucket or  *)
(* the draw gives none.                                                    *)
Coded(t) ==
    IF ~ Coding(t) \/ Buckets(t) = {} THEN {t}
    ELSE LET weights == [id \in Buckets(t) |-> proteins[id].concs[CodeStep]]
         IN {IF id = None THEN t ELSE SetInstr(t, CodeStep, proteins[id].seq)
               : id \in Drawn(Buckets(t), weights, MaxConc, None)}

(***************************************************************************)
(* update_fitness for one individual                                       *)
(***************************************************************************)
RegInit == Init /\ ptype = EmptyTree

Regulate == (Bind \/ UpdateOutputProteins \/ RunDiffusion) /\ UNCHANGED ptype

EndStep ==
    /\ phase = "end"
    /\ ptype' \in Coded(Grown(ptype))
    /\ IF reg_step \in CodeStart .. CodeEnd THEN SkipDecay ELSE RunDecay

(* The next evaluation starts from a reset phenotype and a reset network.  *)
Restart == Reset /\ ptype' = EmptyTree

RegNext == Regulate \/ EndStep \/ Restart
RegSpec == RegInit /\ [][RegNext]_rvars

(***************************************************************************)
(* Properties                                                              *)
(***************************************************************************)
(* A filled node has as many children as its instruction takes, when the   *)
(* tree no longer grows while it is coded: no later growth adds a child    *)
(* below a filled node (reg_sim.cpp:119-124).                              *)
InstrsFit ==
    \A id \in NodeIds(ptype) : ptype.nodes[id].instr # NoInstr =>
        Accepts(ptype.nodes[id].instr, NumChildren(ptype, id))

(* Growing and coding leave the tree as Tree::invariant wants it, although *)
(* growth indices may name no node yet, and within max_pgm_size and the    *)
(* number of genes, however many positions are over the growth threshold;  *)
(* and the node that code_step2 is about to fill exists, so that           *)
(* id_to_node[code_step] makes no null node, and so does a gene of its     *)
(* number (reg_sim.cpp:78-96, 107-130, tree.cpp:33-73, 104-128).           *)
TreeSound ==
    /\ IdsContiguous(ptype) /\ WellFormed(ptype)
    /\ Size(ptype) <= SizeLimit
    /\ phase = "end" =>
         LET t == Grown(ptype) IN Coding(t) => CodeStep \in NodeIds(t) /\ CodeStep \in Genes

(* reg_sim.cpp:101: "The only situation in which a program can be left     *)
(* with unfilled nodes is when a gene has no proteins above it, or none of *)
(* the proteins map to instructions that take the correct number of args." *)
ChoosesInstr ==
    [][phase = "end" =>
         LET t == Grown(ptype)
         IN Coding(t) /\ (\E id \in Buckets(t) : proteins[id].concs[CodeStep] > 0)
                => ptype'.nodes[CodeStep].instr # NoInstr]_rvars
=============================================================================
