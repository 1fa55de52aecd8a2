--------------------------------- MODULE Grn ---------------------------------
(***************************************************************************)
(* A gene regulatory network under simulation: Grn, its Genes and its      *)
(* ProteinStore (grn.cpp, gene.cpp, protein_store.cpp).                    *)
(*                                                                         *)
(* One regulatory step binds a protein to each gene (run_binding), lets    *)
(* the active genes produce (update_output_proteins) and diffuses the      *)
(* produced proteins, deleting the ones that faded (run_diffusion).  Then  *)
(* the caller (RegSim) decides whether the concentrations also decay, and  *)
(* after reg_steps steps the network is reset.  The loops over the genes   *)
(* of run_binding and run_diffusion take one step per gene.                *)
(*                                                                         *)
(* An operator X_Fault is the operator X, defined after it, as a plausible *)
(* bug would have it.  Nothing here uses one: each breaks a property that  *)
(* X upholds.                                                              *)
(*                                                                         *)
(* Protein pointers are ids of the store.  A bit string is a function, a   *)
(* concentration a level (module Diffusion).  gene.outputs only ever gains *)
(* fresh ids, so it is a set; module OutputErasure treats its indices.     *)
(***************************************************************************)
EXTENDS Diffusion, FiniteSets

CONSTANTS
    GeneBits,        \* run->gene_bits
    BindingSeqPlay,  \* run->binding_seq_play
    NumInitial,      \* run->initial_proteins
    DecayRate,       \* run->decay_rate, in tenths
    RegSteps,        \* run->reg_steps
    Thresholds,      \* values a gene's threshold may be drawn from
    Rates,           \* values a gene's output_rate may be drawn from
    InitialConcs     \* values an initial concentration may be drawn from

ASSUME GrnAssumption ==
    /\ GeneBits \in Nat /\ BindingSeqPlay \in Nat
    /\ NumInitial \in Nat /\ NumInitial >= 1
    /\ DecayRate \in 0 .. 10
    /\ RegSteps \in Nat /\ RegSteps >= 1
    /\ Thresholds \subseteq 0 .. MaxConc
    /\ Rates \subseteq 0 .. MaxConc
    /\ InitialConcs \subseteq 0 .. MaxConc

VARIABLES
    genome,            \* what never changes in a gene: sequences, threshold, rate
    initial_proteins,  \* Grn::initial_proteins, the originals the store copies
    proteins,          \* ProteinStore::id_map
    next_id,           \* ProteinStore::next_id
    growth_seq,        \* Grn::growth_seq
    bound_protein,     \* per gene, -1 when unbound
    active_output,     \* per gene, -1 when not producing
    outputs,           \* per gene, the ids it has output and that still exist
    phase,             \* which loop of the regulatory step runs
    pos,               \* that loop's position
    reg_step           \* RegSim's j

store == <<proteins, next_id, growth_seq>>
wiring == <<bound_protein, active_output, outputs>>
control == <<phase, pos, reg_step>>
vars == <<genome, initial_proteins, store, wiring, control>>

None == -1
Seqs == [1 .. GeneBits -> {0, 1}]
InitialIds == 0 .. NumInitial - 1

(* A fresh Grn's initial proteins have a random src_pos; the ones crossed  *)
(* from two parents have src_pos = -1.                                     *)
Sources == Genes \cup {None}

GeneType ==
    [binding_seq : Seqs, output_seq : Seqs, threshold : 0 .. MaxConc, output_rate : 0 .. MaxConc]
ProteinType == [seq : Seqs, src_pos : Sources, concs : Concs, interactions : Nat]

HammingDist(x, y) == Cardinality({i \in 1 .. GeneBits : x[i] # y[i]})

(***************************************************************************)
(* The store                                                               *)
(***************************************************************************)
Ids == DOMAIN proteins

(* ProteinStore::add numbers proteins in the order of their creation.      *)
FreshId_Fault == Cardinality(Ids)
FreshId == next_id

(* get_by_seq returns the lowest id whose protein has the sequence.        *)
IsBySeq(id, seq) ==
    /\ id \in Ids /\ proteins[id].seq = seq
    /\ \A j \in Ids : proteins[j].seq = seq => id <= j

(* push_initial_proteins: a copy of each initial protein, ids from 0.      *)
InitialStore(initial) == [id \in InitialIds |-> initial[id]]
NoConcs == [p \in Genes |-> 0]

(***************************************************************************)
(* Construction and reset                                                  *)
(***************************************************************************)
Unbound == [g \in Genes |-> None]
NoOutputs == [g \in Genes |-> {}]

Init ==
    /\ genome \in [Genes -> [binding_seq : Seqs, output_seq : Seqs,
                             threshold : Thresholds, output_rate : Rates]]
    /\ initial_proteins \in
         [InitialIds -> [seq : Seqs, src_pos : Sources,
                         concs : [Genes -> InitialConcs], interactions : {0}]]
    /\ proteins = InitialStore(initial_proteins)
    /\ next_id = NumInitial
    /\ growth_seq = initial_proteins[0].seq
    /\ bound_protein = Unbound /\ active_output = Unbound /\ outputs = NoOutputs
    /\ phase = "bind" /\ pos = 0 /\ reg_step = 0

(* next_id once the store is emptied and the initial proteins are pushed.  *)
NextIdAfterReset == NumInitial

(* Grn::reset, once the simulation is over.                                *)
Reset ==
    /\ phase = "done"
    /\ proteins' = InitialStore(initial_proteins)
    /\ next_id' = NextIdAfterReset
    /\ growth_seq' = initial_proteins[0].seq
    /\ bound_protein' = Unbound /\ active_output' = Unbound /\ outputs' = NoOutputs
    /\ phase' = "bind" /\ pos' = 0 /\ reg_step' = 0
    /\ UNCHANGED <<genome, initial_proteins>>

(***************************************************************************)
(* run_binding, one gene at a time                                         *)
(***************************************************************************)
(* A loop over the genes: on to the next one, or to the phase after it.    *)
Advance(next) ==
    /\ IF pos < NumGenes - 1
       THEN phase' = phase /\ pos' = pos + 1
       ELSE phase' = next /\ pos' = 0
    /\ UNCHANGED reg_step

Reaches(id, g) == HammingDist(proteins[id].seq, genome[g].binding_seq) <= BindingSeqPlay

Candidates(g) ==
    {id \in Ids : /\ proteins[id].src_pos # g
                  /\ Reaches(id, g)
                  /\ proteins[id].concs[g] >= genome[g].threshold}

(* Roulette wheel over the concentrations at g.  A candidate of zero       *)
(* weight is drawn only first in the list (a spin of 0, or no weight at    *)
(* all) or last (the spin left over by rounding).                          *)
Drawable(g) ==
    {id \in Candidates(g) : \/ proteins[id].concs[g] > 0
                            \/ \A c \in Candidates(g) : id <= c
                            \/ \A c \in Candidates(g) : id >= c}

(* Gene::update_binding(&b): when get_by_seq finds a protein of gene g's   *)
(* own, it is reactivated ...                                              *)
IsOwnOutput_Fault(id, g) == IsBySeq(id, genome[g].output_seq)
IsOwnOutput(id, g) == IsBySeq(id, genome[g].output_seq) /\ proteins[id].src_pos = g

Reactivate(g, b) ==
    \E id \in Ids :
        /\ IsOwnOutput(id, g)
        /\ bound_protein' = [bound_protein EXCEPT ![g] = b]
        /\ active_output' = [active_output EXCEPT ![g] = id]
        /\ UNCHANGED <<proteins, next_id, outputs>>

(* ... otherwise a new one is created at no concentration, and the binding *)
(* protein's interaction is counted.                                       *)
NewProtein_Fault(g) ==
    [seq |-> genome[g].output_seq, src_pos |-> None, concs |-> NoConcs, interactions |-> 0]
NewProtein(g) ==
    [seq |-> genome[g].output_seq, src_pos |-> g, concs |-> NoConcs, interactions |-> 0]

Express(g, b) ==
    /\ ~ \E id \in Ids : IsOwnOutput(id, g)
    /\ bound_protein' = [bound_protein EXCEPT ![g] = b]
    /\ active_output' = [active_output EXCEPT ![g] = FreshId]
    /\ outputs' = [outputs EXCEPT ![g] = @ \cup {FreshId}]
    /\ proteins' = [id \in Ids \cup {FreshId} |->
         IF id = FreshId THEN NewProtein(g)
         ELSE IF id = b THEN [proteins[id] EXCEPT !.interactions = @ + 1]
         ELSE proteins[id]]
    /\ next_id' = next_id + 1

(* Gene::update_binding(nullptr)                                           *)
Unbind_Fault(g) ==
    /\ bound_protein' = [bound_protein EXCEPT ![g] = None]
    /\ UNCHANGED <<active_output, proteins, next_id, outputs>>
Unbind(g) ==
    /\ bound_protein' = [bound_protein EXCEPT ![g] = None]
    /\ active_output' = [active_output EXCEPT ![g] = None]
    /\ UNCHANGED <<proteins, next_id, outputs>>

Bind ==
    /\ phase = "bind"
    /\ \/ \E b \in Drawable(pos) : Reactivate(pos, b) \/ Express(pos, b)
       \/ Candidates(pos) = {} /\ Unbind(pos)
    /\ Advance("output")
    /\ UNCHANGED <<genome, initial_proteins, growth_seq>>

(***************************************************************************)
(* update_output_proteins: an active gene adds to its protein at its own   *)
(* position, clamped.                                                      *)
(***************************************************************************)
Clamp_Fault(c) == c
Clamp(c) == IF c > MaxConc THEN MaxConc ELSE c

UpdateOutputProteins ==
    /\ phase = "output"
    /\ proteins' = [id \in Ids |->
         [proteins[id] EXCEPT !.concs =
            [g \in Genes |-> IF active_output[g] = id
                             THEN Clamp(@[g] + genome[g].output_rate)
                             ELSE @[g]]]]
    /\ phase' = "diffuse" /\ pos' = 0
    /\ UNCHANGED <<genome, initial_proteins, next_id, growth_seq, wiring, reg_step>>

(***************************************************************************)
(* run_diffusion, one gene at a time: diffuse what the gene has output,    *)
(* delete what faded, stop producing and unbind whatever was bound to it.  *)
(***************************************************************************)
Faded(g) == {id \in outputs[g] : ~ AboveThreshold(Diffuse(proteins[id].concs))}

(* The genes that update_binding(nullptr) is called on.                    *)
BoundTo_Fault(ids) == {g \in Genes : g = pos /\ bound_protein[g] \in ids}
BoundTo(ids) == {g \in Genes : bound_protein[g] \in ids}

RunDiffusion ==
    /\ phase = "diffuse"
    /\ LET faded == Faded(pos)
       IN /\ proteins' = [id \in Ids \ faded |->
               IF id \in outputs[pos]
               THEN [proteins[id] EXCEPT !.concs = Diffuse(@)]
               ELSE proteins[id]]
          /\ outputs' = [outputs EXCEPT ![pos] = @ \ faded]
          /\ bound_protein' =
               [g \in Genes |-> IF g \in BoundTo(faded) THEN None ELSE bound_protein[g]]
          /\ active_output' =
               [g \in Genes |-> IF g \in BoundTo(faded) \/ (g = pos /\ faded # {})
                                THEN None ELSE active_output[g]]
    /\ Advance("end")
    /\ UNCHANGED <<genome, initial_proteins, next_id, growth_seq>>

(***************************************************************************)
(* The end of a regulatory step: RegSim runs the decay, or (while it       *)
(* codes) does not.                                                        *)
(***************************************************************************)
Decayed(c) == (c * (10 - DecayRate)) \div 10

StepOver ==
    /\ phase = "end"
    /\ phase' = IF reg_step + 1 < RegSteps THEN "bind" ELSE "done"
    /\ pos' = 0 /\ reg_step' = reg_step + 1

RunDecay ==
    /\ StepOver
    /\ proteins' = [id \in Ids |->
         [proteins[id] EXCEPT !.concs = [g \in Genes |-> Decayed(@[g])]]]
    /\ UNCHANGED <<genome, initial_proteins, next_id, growth_seq, wiring>>

SkipDecay ==
    /\ StepOver
    /\ UNCHANGED <<genome, initial_proteins, store, wiring>>

Next == Bind \/ UpdateOutputProteins \/ RunDiffusion \/ RunDecay \/ SkipDecay \/ Reset

Spec == Init /\ [][Next]_vars

(***************************************************************************)
(* Properties                                                              *)
(***************************************************************************)
TypeOK ==
    /\ genome \in [Genes -> GeneType]
    /\ initial_proteins \in [InitialIds -> ProteinType]
    /\ Ids \subseteq 0 .. next_id - 1
    /\ \A id \in Ids : proteins[id] \in ProteinType
    /\ next_id \in Nat
    /\ growth_seq \in Seqs
    /\ bound_protein \in [Genes -> Nat \cup {None}]
    /\ active_output \in [Genes -> Nat \cup {None}]
    /\ outputs \in [Genes -> SUBSET Nat]
    /\ phase \in {"bind", "output", "diffuse", "end", "done"}
    /\ pos \in Genes
    /\ reg_step \in 0 .. RegSteps

(* No gene refers to a protein that the store has deleted: every get() of  *)
(* update_output_protein, update_binding and run_diffusion, which          *)
(* dereference its result unchecked, finds its protein (gene.cpp:65, 88;   *)
(* grn.cpp:166), although another gene's diffusion deleted it meanwhile.   *)
NoDangling ==
    \A g \in Genes :
        /\ outputs[g] \subseteq Ids
        /\ bound_protein[g] \in Ids \cup {None}
        /\ active_output[g] \in Ids \cup {None}

(* Every protein created during the simulation is in the outputs of the    *)
(* gene it names as its source and in no other's, and the initial proteins *)
(* are in none: no protein escapes diffusion and deletion, none is         *)
(* diffused or deleted twice in a step (grn.cpp:160-192, gene.cpp:82-85).  *)
OutputsPartitionCreated ==
    /\ \A g \in Genes : outputs[g] = {id \in Ids \ InitialIds : proteins[id].src_pos = g}
    /\ \A id \in Ids \ InitialIds : proteins[id].src_pos \in Genes

(* A gene produces only its own protein, and only while it is bound: no    *)
(* way of losing the binding (nothing above the gene, the bound protein    *)
(* deleted by any gene's diffusion) leaves it producing (gene.cpp:63-97).  *)
ProducesOwnWhileBound ==
    \A g \in Genes : active_output[g] # None =>
        /\ bound_protein[g] # None
        /\ active_output[g] \in Ids =>
             /\ proteins[active_output[g]].src_pos = g
             /\ proteins[active_output[g]].seq = genome[g].output_seq

(* A gene is never regulated by its own output, directly or by an id that  *)
(* changed hands while it was bound (grn.cpp:116 "prevent genes from       *)
(* producing proteins that bind to themselves").                           *)
NeverBoundToOwn ==
    \A g \in Genes : bound_protein[g] \in Ids =>
        /\ proteins[bound_protein[g]].src_pos # g
        /\ bound_protein[g] # active_output[g]
        /\ Reaches(bound_protein[g], g)

(* The initial proteins, the growth protein first, live through the whole  *)
(* simulation under their ids (grn.cpp:85-98), even those a gene produces  *)
(* because their sequence and src_pos happen to be its own.                *)
InitialSurvive ==
    \A id \in InitialIds :
        /\ id \in Ids
        /\ proteins[id].seq = initial_proteins[id].seq
        /\ proteins[id].src_pos = initial_proteins[id].src_pos

(* Within a simulation an id stands for one protein: an id that appears    *)
(* was never in use, and what it names keeps its sequence and source and   *)
(* never loses an interaction (protein_store.cpp:38-46).                   *)
IdsStable ==
    [][phase # "done" =>
        /\ \A id \in (DOMAIN proteins') \ Ids : id >= next_id
        /\ \A id \in (DOMAIN proteins') \cap Ids :
             /\ proteins'[id].seq = proteins[id].seq
             /\ proteins'[id].src_pos = proteins[id].src_pos
             /\ proteins'[id].interactions >= proteins[id].interactions]_vars

(* The network implements GeneExpression: under the mapping, every step is *)
(* one of its steps or changes nothing it speaks of.                       *)
GE == INSTANCE GeneExpression WITH
        Gene <- Genes, NumFounders <- NumInitial,
        founders <- [id \in InitialIds |-> initial_proteins[id].src_pos],
        producer <- [id \in Ids |-> proteins[id].src_pos],
        fresh <- next_id, regulator <- bound_protein, product <- active_output
ImplementsGeneExpression == GE!Spec

=============================================================================
