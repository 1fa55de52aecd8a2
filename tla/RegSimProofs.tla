----------------------------- MODULE RegSimProofs -----------------------------
(***************************************************************************)
(* The network and the regulatory simulation, proved for every network,    *)
(* configuration and program size.  What the module has of Grn comes       *)
(* first: the simulation is one of the network of module Grn, so that the  *)
(* theorems about Spec hold of it.  Then, its growth and its coding keep   *)
(* the tree sound; and, when the tree no longer grows while it is coded, a *)
(* filled node has the number of children that its instruction takes.      *)
(*                                                                         *)
(* None of the network's safety invariants is inductive alone.  That a     *)
(* deletion leaves no gene producing the deleted protein needs to know     *)
(* whose protein it was (ProducesOwnWhileBound, OutputsPartitionCreated);  *)
(* that those survive a creation needs the new id to be new (TypeOK) and   *)
(* not an initial protein's (InitialSurvive).  IInv is their conjunction,  *)
(* with the loop control that keeps reg_step in range.                     *)
(***************************************************************************)
EXTENDS RegSim, Algorithms, Lemmas, SequenceTheorems, FunctionTheorems

ControlOK == reg_step = RegSteps <=> phase = "done"

IInv ==
    /\ TypeOK
    /\ ControlOK
    /\ NoDangling
    /\ OutputsPartitionCreated
    /\ ProducesOwnWhileBound
    /\ NeverBoundToOwn
    /\ InitialSurvive

(* The rounded arithmetic of concentrations stays within 0..MaxConc.       *)
LEMMA FlowInRange ==
    ASSUME NEW c \in Concs, NEW p \in Genes
    PROVE  /\ Flow(c, p) \in Nat
           /\ p \in {0, NumGenes - 1} => Flow(c, p) <= MaxConc
<1> DEFINE l == Beside(c, p - 1)
           r == Beside(c, p + 1)
<1>1. c[p] \in 0 .. MaxConc /\ l \in 0 .. MaxConc /\ r \in 0 .. MaxConc
  BY DiffusionAssumption DEF Concs, Genes, Beside
<1>2. p = 0 => l = 0
  BY DiffusionAssumption DEF Beside, Genes
<1>3. p = NumGenes - 1 => r = 0
  BY DiffusionAssumption DEF Beside, Genes
<1>4. Flow(c, p) = (3 * l + 4 * c[p] + 3 * r) \div 10
  BY DEF Flow
<1> HIDE DEF l, r
<1>5. Flow(c, p) \in Nat
  BY <1>1, <1>4, DiffusionAssumption
<1>6. p \in {0, NumGenes - 1} => Flow(c, p) <= MaxConc
  BY <1>1, <1>2, <1>3, <1>4, DiffusionAssumption
<1> QED BY <1>5, <1>6

LEMMA DiffuseType == \A c \in Concs : Diffuse(c) \in Concs
<1> SUFFICES ASSUME NEW c \in Concs, NEW p \in Genes
             PROVE  Diffuse(c)[p] \in 0 .. MaxConc
  BY DEF Diffuse, Concs
<1> QED BY FlowInRange, DiffusionAssumption DEF Diffuse

LEMMA DecayedType == \A c \in 0 .. MaxConc : Decayed(c) \in 0 .. MaxConc
<1> SUFFICES ASSUME NEW c \in 0 .. MaxConc PROVE Decayed(c) \in 0 .. MaxConc
  OBVIOUS
<1> DEFINE k == 10 - DecayRate
           m == c * k
<1>1. k \in 0 .. 10
  BY GrnAssumption
<1>2. m \in Nat /\ m <= c * 10
  <2>1. c \in Nat /\ k \in Nat /\ 10 - k \in Nat
    BY <1>1, DiffusionAssumption
  <2>2. \A x, y \in Nat : x * y \in Nat
    OBVIOUS
  <2>3. c * 10 = c * k + c * (10 - k)
    BY <2>1
  <2> QED BY <2>1, <2>2, <2>3
<1>3. Decayed(c) = m \div 10
  BY DEF Decayed
<1> HIDE DEF m, k
<1> QED BY <1>2, <1>3, DiffusionAssumption
-----------------------------------------------------------------------------
(* Initially every gene is unbound and the store holds the initial         *)
(* proteins.                                                               *)
LEMMA InitInv == Init => IInv
<1> SUFFICES ASSUME Init PROVE IInv
  OBVIOUS
<1> USE DiffusionAssumption, GrnAssumption
<1>1. genome \in [Genes -> GeneType]
  BY DEF Init, GeneType
<1>2. initial_proteins \in [InitialIds -> ProteinType]
  <2> SUFFICES ASSUME NEW id \in InitialIds PROVE initial_proteins[id] \in ProteinType
    BY DEF Init
  <2>1. initial_proteins[id] \in [seq : Seqs, src_pos : Sources,
                                  concs : [Genes -> InitialConcs], interactions : {0}]
    BY DEF Init
  <2>2. [Genes -> InitialConcs] \subseteq Concs
    BY DEF Concs
  <2> QED BY <2>1, <2>2 DEF ProteinType
<1>3. Ids = InitialIds /\ \A id \in Ids : proteins[id] = initial_proteins[id]
  BY DEF Init, InitialStore, Ids
<1>4. growth_seq \in Seqs
  BY <1>2, <1>3 DEF Init, InitialIds, ProteinType
<1>5. TypeOK
  BY <1>1, <1>2, <1>3, <1>4 DEF Init, TypeOK, InitialIds, Unbound, NoOutputs, Genes, None
<1>6. NoDangling /\ OutputsPartitionCreated /\ ProducesOwnWhileBound
  BY <1>3 DEF Init, NoDangling, OutputsPartitionCreated, ProducesOwnWhileBound,
              Unbound, NoOutputs, Genes, None
<1>7. NeverBoundToOwn
  BY <1>3 DEF Init, NeverBoundToOwn, Unbound, None, InitialIds
<1>8. InitialSurvive
  BY <1>3 DEF InitialSurvive
<1>9. ControlOK
  BY DEF Init, ControlOK
<1> QED BY <1>5, <1>6, <1>7, <1>8, <1>9 DEF IInv
-----------------------------------------------------------------------------
(* run_binding                                                             *)
LEMMA AdvanceControl ==
    ASSUME TypeOK, ControlOK, NEW next \in {"output", "end"},
           phase \in {"bind", "diffuse"}, Advance(next)
    PROVE  /\ phase' \in {phase, next}
           /\ pos' \in Genes
           /\ reg_step' = reg_step
           /\ reg_step \in 0 .. RegSteps
           /\ ControlOK'
<1> QED BY DiffusionAssumption DEF TypeOK, ControlOK, Advance, Genes

(* A new id is neither in the store nor an initial protein's.              *)
LEMMA FreshIdIsNew ==
    ASSUME TypeOK, InitialSurvive
    PROVE  FreshId \in Nat /\ FreshId \notin Ids /\ FreshId \notin InitialIds
<1>1. next_id \notin Ids
  BY DEF TypeOK
<1> QED BY <1>1 DEF TypeOK, InitialSurvive, FreshId

LEMMA NewProteinType ==
    ASSUME TypeOK, NEW g \in Genes
    PROVE  NewProtein(g) \in ProteinType
<1>1. NoConcs \in Concs
  BY DiffusionAssumption DEF NoConcs, Concs
<1> QED BY <1>1 DEF TypeOK, NewProtein, ProteinType, GeneType, Sources

(* Counting an interaction or changing the concentrations of a protein     *)
(* leaves it the protein it was.                                           *)
LEMMA CountedProtein ==
    ASSUME NEW p \in ProteinType
    PROVE  /\ [p EXCEPT !.interactions = @ + 1] \in ProteinType
           /\ [p EXCEPT !.interactions = @ + 1].seq = p.seq
           /\ [p EXCEPT !.interactions = @ + 1].src_pos = p.src_pos
<1>1. [p EXCEPT !.interactions = @ + 1]
        = [seq |-> p.seq, src_pos |-> p.src_pos, concs |-> p.concs,
           interactions |-> p.interactions + 1]
  BY DEF ProteinType
<1>2. p.seq \in Seqs /\ p.src_pos \in Sources /\ p.concs \in Concs /\ p.interactions \in Nat
  BY DEF ProteinType
<1> QED BY <1>1, <1>2 DEF ProteinType

LEMMA RewrittenProtein ==
    ASSUME NEW p \in ProteinType, NEW c \in Concs
    PROVE  /\ [p EXCEPT !.concs = c] \in ProteinType
           /\ [p EXCEPT !.concs = c].seq = p.seq
           /\ [p EXCEPT !.concs = c].src_pos = p.src_pos
<1>1. [p EXCEPT !.concs = c]
        = [seq |-> p.seq, src_pos |-> p.src_pos, concs |-> c,
           interactions |-> p.interactions]
  BY DEF ProteinType
<1>2. p.seq \in Seqs /\ p.src_pos \in Sources /\ p.interactions \in Nat
  BY DEF ProteinType
<1> QED BY <1>1, <1>2 DEF ProteinType

LEMMA ReactivateInv ==
    ASSUME IInv, NEW b \in Drawable(pos), phase = "bind",
           Reactivate(pos, b), Advance("output"),
           UNCHANGED <<genome, initial_proteins, growth_seq>>
    PROVE  IInv'
<1> USE DEF IInv
<1>1. PICK id \in Ids :
        /\ IsOwnOutput(id, pos)
        /\ bound_protein' = [bound_protein EXCEPT ![pos] = b]
        /\ active_output' = [active_output EXCEPT ![pos] = id]
        /\ UNCHANGED <<proteins, next_id, outputs>>
  BY DEF Reactivate
<1>2. /\ pos \in Genes /\ b \in Ids /\ b \in Nat /\ id \in Nat
      /\ proteins[b].src_pos # pos /\ Reaches(b, pos)
  BY DEF TypeOK, Drawable, Candidates
<1>3. proteins[id].src_pos = pos /\ proteins[id].seq = genome[pos].output_seq
  BY <1>1 DEF IsOwnOutput, IsBySeq
<1>4. TypeOK' /\ ControlOK'
  BY <1>1, <1>2, AdvanceControl DEF TypeOK, Ids
<1>5. NoDangling'
  BY <1>1, <1>2 DEF NoDangling, TypeOK, Ids
<1>6. OutputsPartitionCreated' /\ InitialSurvive'
  BY <1>1 DEF OutputsPartitionCreated, InitialSurvive, Ids
<1>7. ProducesOwnWhileBound'
  BY <1>1, <1>2, <1>3 DEF ProducesOwnWhileBound, TypeOK, Ids, None
<1>8. NeverBoundToOwn'
  BY <1>1, <1>2, <1>3 DEF NeverBoundToOwn, Reaches, TypeOK, Ids
<1> QED BY <1>4, <1>5, <1>6, <1>7, <1>8

LEMMA ExpressInv ==
    ASSUME IInv, NEW b \in Drawable(pos), phase = "bind",
           Express(pos, b), Advance("output"),
           UNCHANGED <<genome, initial_proteins, growth_seq>>
    PROVE  IInv'
<1> USE DEF IInv
<1>1. /\ pos \in Genes /\ b \in Ids /\ b \in Nat
      /\ proteins[b].src_pos # pos /\ Reaches(b, pos)
  <2>1. pos \in Genes /\ Ids \subseteq Nat
    BY DEF TypeOK
  <2>2. b \in Candidates(pos)
    BY DEF Drawable
  <2>3. b \in Ids /\ proteins[b].src_pos # pos /\ Reaches(b, pos)
    BY <2>2 DEF Candidates
  <2> QED BY <2>1, <2>3
<1>2. FreshId \in Nat /\ FreshId \notin Ids /\ FreshId \notin InitialIds
  BY FreshIdIsNew
<1>3. /\ bound_protein' = [bound_protein EXCEPT ![pos] = b]
      /\ active_output' = [active_output EXCEPT ![pos] = FreshId]
      /\ outputs' = [outputs EXCEPT ![pos] = @ \cup {FreshId}]
      /\ next_id' = next_id + 1
      /\ Ids' = Ids \cup {FreshId}
      /\ proteins'[FreshId] = NewProtein(pos)
  BY <1>2 DEF Express, Ids
<1>4. /\ NewProtein(pos).src_pos = pos
      /\ NewProtein(pos).seq = genome[pos].output_seq
  BY DEF NewProtein
<1>5. ASSUME NEW id \in Ids
      PROVE  /\ proteins'[id] \in ProteinType
             /\ proteins'[id].seq = proteins[id].seq
             /\ proteins'[id].src_pos = proteins[id].src_pos
  <2>1. proteins'[id] = IF id = b THEN [proteins[id] EXCEPT !.interactions = @ + 1]
                                  ELSE proteins[id]
    BY <1>2 DEF Express
  <2>2. proteins[id] \in ProteinType
    BY DEF TypeOK
  <2> QED BY <2>1, <2>2, CountedProtein
<1>6. TypeOK' /\ ControlOK'
  <2>1. \A id \in Ids' : proteins'[id] \in ProteinType
    BY <1>1, <1>3, <1>5, NewProteinType
  <2>2. Ids' \subseteq 0 .. next_id' - 1
    BY <1>3 DEF TypeOK, FreshId
  <2> QED BY <1>1, <1>2, <1>3, <2>1, <2>2, AdvanceControl DEF TypeOK
<1>7. NoDangling'
  BY <1>1, <1>3 DEF NoDangling, TypeOK
<1>8. OutputsPartitionCreated'
  <2>1. DOMAIN outputs = Genes
    BY DEF TypeOK
  <2>2. OutputsPartitionCreated
    OBVIOUS
  <2>3. proteins'[FreshId].src_pos = pos /\ \A id \in Ids : proteins'[id].src_pos = proteins[id].src_pos
    BY <1>3, <1>4, <1>5
  <2>4. ASSUME NEW g \in Genes
        PROVE  outputs'[g] = {id \in Ids' \ InitialIds : proteins'[id].src_pos = g}
    <3>1. outputs'[g] = IF g = pos THEN outputs[g] \cup {FreshId} ELSE outputs[g]
      BY ONLY <1>3, <2>1
    <3>2. {id \in Ids' \ InitialIds : proteins'[id].src_pos = g}
            = {id \in Ids \ InitialIds : proteins[id].src_pos = g} \cup (IF g = pos THEN {FreshId} ELSE {})
      BY ONLY <1>2, <1>3, <2>3
    <3>3. outputs[g] = {id \in Ids \ InitialIds : proteins[id].src_pos = g}
      BY ONLY <2>2, <2>4 DEF OutputsPartitionCreated
    <3> QED BY ONLY <3>1, <3>2, <3>3
  <2>5. ASSUME NEW id \in Ids' \ InitialIds PROVE proteins'[id].src_pos \in Genes
    BY ONLY <1>1, <1>3, <2>2, <2>3, <2>5 DEF OutputsPartitionCreated
  <2> QED BY ONLY <2>4, <2>5 DEF OutputsPartitionCreated
<1>9. InitialSurvive'
  BY <1>2, <1>3, <1>5 DEF InitialSurvive
<1>10. ProducesOwnWhileBound'
  BY <1>1, <1>2, <1>3, <1>4, <1>5 DEF ProducesOwnWhileBound, NoDangling, TypeOK, None
<1>11. NeverBoundToOwn'
  <2> SUFFICES ASSUME NEW g \in Genes, (bound_protein[g] \in Ids)'
               PROVE  (/\ proteins[bound_protein[g]].src_pos # g
                       /\ bound_protein[g] # active_output[g]
                       /\ Reaches(bound_protein[g], g))'
    BY DEF NeverBoundToOwn
  <2>1. CASE g = pos
    BY <2>1, <1>1, <1>2, <1>3, <1>5 DEF TypeOK, Reaches
  <2>2. CASE g # pos
    <3>1. bound_protein'[g] = bound_protein[g] /\ active_output'[g] = active_output[g]
      BY <2>2, <1>3
    <3>2. bound_protein[g] \in Ids
      BY <3>1, <1>2, <1>3 DEF NoDangling, TypeOK, None
    <3> QED BY <3>1, <3>2, <1>5 DEF NeverBoundToOwn, Reaches
  <2> QED BY <2>1, <2>2
<1> QED BY <1>6, <1>7, <1>8, <1>9, <1>10, <1>11

LEMMA UnbindInv ==
    ASSUME IInv, phase = "bind", Unbind(pos), Advance("output"),
           UNCHANGED <<genome, initial_proteins, growth_seq>>
    PROVE  IInv'
<1> USE DEF IInv
<1>1. pos \in Genes
  BY DEF TypeOK
<1>2. TypeOK' /\ ControlOK'
  BY <1>1, AdvanceControl DEF TypeOK, Ids, Unbind
<1>3. NoDangling' /\ OutputsPartitionCreated' /\ InitialSurvive'
  BY <1>1 DEF NoDangling, OutputsPartitionCreated, InitialSurvive, TypeOK, Ids, Unbind
<1>4. ProducesOwnWhileBound'
  BY <1>1 DEF ProducesOwnWhileBound, TypeOK, Ids, Unbind
<1>5. NeverBoundToOwn'
  BY <1>1 DEF NeverBoundToOwn, Reaches, TypeOK, Ids, Unbind, None
<1> QED BY <1>2, <1>3, <1>4, <1>5
-----------------------------------------------------------------------------
(* A step that only rewrites concentrations preserves everything but the   *)
(* loop control.                                                           *)
LEMMA ConcsOnlyInv ==
    ASSUME IInv,
           Ids' = Ids,
           \A id \in Ids : \E c \in Concs : proteins'[id] = [proteins[id] EXCEPT !.concs = c],
           UNCHANGED <<genome, initial_proteins, next_id, growth_seq, wiring>>,
           phase' \in {"bind", "output", "diffuse", "end", "done"},
           pos' \in Genes, reg_step' \in 0 .. RegSteps, ControlOK'
    PROVE  IInv'
<1> USE DEF IInv, wiring
<1>1. ASSUME NEW id \in Ids
      PROVE  /\ proteins'[id] \in ProteinType
             /\ proteins'[id].seq = proteins[id].seq
             /\ proteins'[id].src_pos = proteins[id].src_pos
  <2>1. proteins[id] \in ProteinType
    BY DEF TypeOK
  <2>2. PICK c \in Concs : proteins'[id] = [proteins[id] EXCEPT !.concs = c]
    OBVIOUS
  <2> QED BY <2>1, <2>2, RewrittenProtein
<1>2. TypeOK'
  BY <1>1 DEF TypeOK
<1>3. NoDangling' /\ OutputsPartitionCreated' /\ InitialSurvive'
  BY <1>1 DEF NoDangling, OutputsPartitionCreated, InitialSurvive
<1>4. ProducesOwnWhileBound' /\ NeverBoundToOwn'
  BY <1>1 DEF ProducesOwnWhileBound, NeverBoundToOwn, Reaches
<1> QED BY <1>2, <1>3, <1>4

LEMMA UpdateOutputProteinsInv == IInv /\ UpdateOutputProteins => IInv'
<1> SUFFICES ASSUME IInv, UpdateOutputProteins PROVE IInv'
  OBVIOUS
<1> DEFINE c(id) == [g \in Genes |-> IF active_output[g] = id
                                     THEN Clamp(proteins[id].concs[g] + genome[g].output_rate)
                                     ELSE proteins[id].concs[g]]
<1>1. Ids' = Ids
  BY DEF UpdateOutputProteins, Ids
<1>2. ASSUME NEW id \in Ids
      PROVE  c(id) \in Concs /\ proteins'[id] = [proteins[id] EXCEPT !.concs = c(id)]
  <2>1. ASSUME NEW g \in Genes
        PROVE  /\ proteins[id].concs[g] \in 0 .. MaxConc
               /\ Clamp(proteins[id].concs[g] + genome[g].output_rate) \in 0 .. MaxConc
    <3>1. proteins[id].concs[g] \in 0 .. MaxConc /\ genome[g].output_rate \in 0 .. MaxConc
      BY DEF IInv, TypeOK, ProteinType, Concs, GeneType
    <3> QED BY <3>1, DiffusionAssumption DEF Clamp
  <2> QED BY <2>1 DEF UpdateOutputProteins, Concs
<1> HIDE DEF c
<1>3. ControlOK' /\ reg_step' \in 0 .. RegSteps /\ 0 \in Genes
  BY DiffusionAssumption DEF UpdateOutputProteins, IInv, ControlOK, TypeOK, Genes
<1> QED BY <1>1, <1>2, <1>3, ConcsOnlyInv DEF UpdateOutputProteins

LEMMA StepOverControl ==
    ASSUME IInv, StepOver
    PROVE  /\ phase' \in {"bind", "done"}
           /\ pos' \in Genes /\ reg_step' \in 0 .. RegSteps /\ ControlOK'
<1> QED BY DiffusionAssumption, GrnAssumption
        DEF IInv, StepOver, TypeOK, ControlOK, Genes

LEMMA RunDecayInv == IInv /\ RunDecay => IInv'
<1> SUFFICES ASSUME IInv, RunDecay PROVE IInv'
  OBVIOUS
<1> DEFINE c(id) == [g \in Genes |-> Decayed(proteins[id].concs[g])]
<1>1. Ids' = Ids
  BY DEF RunDecay, Ids
<1>2. ASSUME NEW id \in Ids
      PROVE  c(id) \in Concs /\ proteins'[id] = [proteins[id] EXCEPT !.concs = c(id)]
  <2>1. \A g \in Genes : proteins[id].concs[g] \in 0 .. MaxConc
    BY DEF IInv, TypeOK, ProteinType, Concs
  <2> QED BY <2>1, DecayedType DEF RunDecay, Concs
<1> HIDE DEF c
<1> QED BY <1>1, <1>2, StepOverControl, ConcsOnlyInv DEF RunDecay

LEMMA SkipDecayInv == IInv /\ SkipDecay => IInv'
<1> SUFFICES ASSUME IInv, SkipDecay PROVE IInv'
  OBVIOUS
<1>1. Ids' = Ids
  BY DEF SkipDecay, store, Ids
<1>2. ASSUME NEW id \in Ids
      PROVE  /\ proteins[id].concs \in Concs
             /\ proteins'[id] = [proteins[id] EXCEPT !.concs = proteins[id].concs]
  BY DEF IInv, TypeOK, ProteinType, SkipDecay, store
<1> QED BY <1>1, <1>2, StepOverControl, ConcsOnlyInv DEF SkipDecay, store

-----------------------------------------------------------------------------
(* run_diffusion: what fades is of the gene at pos alone.                  *)
LEMMA RunDiffusionInv == IInv /\ RunDiffusion => IInv'
<1> SUFFICES ASSUME IInv, RunDiffusion PROVE IInv'
  OBVIOUS
<1> USE DEF IInv
<1> DEFINE F == Faded(pos)
<1>1. /\ pos \in Genes
      /\ F \subseteq outputs[pos]
      /\ F \subseteq Ids \ InitialIds
      /\ \A id \in F : proteins[id].src_pos = pos
  BY DEF TypeOK, Faded, OutputsPartitionCreated
<1>2. /\ Ids' = Ids \ F
      /\ outputs' = [outputs EXCEPT ![pos] = @ \ F]
      /\ \A g \in Genes : bound_protein'[g] = IF bound_protein[g] \in F THEN None
                                                                   ELSE bound_protein[g]
      /\ \A g \in Genes :
           active_output'[g] = IF bound_protein[g] \in F \/ (g = pos /\ F # {})
                               THEN None ELSE active_output[g]
  BY DEF RunDiffusion, Ids, BoundTo
<1>3. ASSUME NEW id \in Ids'
      PROVE  /\ id \in Ids
             /\ proteins'[id] \in ProteinType
             /\ proteins'[id].seq = proteins[id].seq
             /\ proteins'[id].src_pos = proteins[id].src_pos
  <2>1. id \in Ids /\ proteins[id] \in ProteinType /\ proteins[id].concs \in Concs
    BY <1>2 DEF TypeOK, ProteinType
  <2>2. proteins'[id] = IF id \in outputs[pos]
                        THEN [proteins[id] EXCEPT !.concs = Diffuse(proteins[id].concs)]
                        ELSE proteins[id]
    BY <1>2, <2>1 DEF RunDiffusion
  <2>3. Diffuse(proteins[id].concs) \in Concs
    BY <2>1, DiffuseType
  <2>4. CASE id \in outputs[pos]
    <3>1. proteins'[id] = [proteins[id] EXCEPT !.concs = Diffuse(proteins[id].concs)]
      BY <2>2, <2>4
    <3> QED BY <2>1, <2>3, <3>1, RewrittenProtein
  <2>5. CASE id \notin outputs[pos]
    BY <2>1, <2>2, <2>5
  <2> QED BY <2>4, <2>5
<1> HIDE DEF F
<1>4. TypeOK' /\ ControlOK'
  <2>1. /\ bound_protein' \in [Genes -> Nat \cup {None}]
        /\ active_output' \in [Genes -> Nat \cup {None}]
    BY <1>2 DEF RunDiffusion, TypeOK
  <2>2. outputs' \in [Genes -> SUBSET Nat]
    BY <1>1, <1>2 DEF TypeOK
  <2>3. phase' \in {"diffuse", "end"} /\ pos' \in Genes /\ reg_step' = reg_step /\ ControlOK'
    BY AdvanceControl DEF RunDiffusion
  <2>4. Ids' \subseteq 0 .. next_id' - 1 /\ \A id \in Ids' : proteins'[id] \in ProteinType
    BY <1>2, <1>3 DEF TypeOK, RunDiffusion
  <2> QED BY <2>1, <2>2, <2>3, <2>4 DEF RunDiffusion, TypeOK
<1>5. OutputsPartitionCreated'
  <2>1. ASSUME NEW g \in Genes
        PROVE  outputs'[g] = {id \in Ids' \ InitialIds : proteins'[id].src_pos = g}
    <3>1. {id \in Ids' \ InitialIds : proteins'[id].src_pos = g}
            = {id \in (Ids \ F) \ InitialIds : proteins[id].src_pos = g}
      BY <1>2, <1>3
    <3>2. outputs[g] = {id \in Ids \ InitialIds : proteins[id].src_pos = g}
      BY DEF OutputsPartitionCreated
    <3>3. outputs'[g] = IF g = pos THEN outputs[g] \ F ELSE outputs[g]
      BY <1>2 DEF TypeOK
    <3>4. g # pos => outputs[g] \cap F = {}
      BY <1>1, <3>2
    <3> QED BY <3>1, <3>2, <3>3, <3>4
  <2>2. \A id \in Ids' \ InitialIds : proteins'[id].src_pos \in Genes
    BY <1>2, <1>3 DEF OutputsPartitionCreated
  <2> QED BY <2>1, <2>2 DEF OutputsPartitionCreated
<1>6. NoDangling'
  <2> SUFFICES ASSUME NEW g \in Genes
               PROVE  /\ outputs'[g] \subseteq Ids'
                      /\ bound_protein'[g] \in Ids' \cup {None}
                      /\ active_output'[g] \in Ids' \cup {None}
    BY DEF NoDangling
  <2>1. outputs'[g] \subseteq Ids'
    BY <1>5 DEF OutputsPartitionCreated
  <2>2. bound_protein'[g] \in Ids' \cup {None}
    BY <1>2 DEF NoDangling
  <2>3. active_output'[g] \in Ids' \cup {None}
    <3>1. active_output[g] \in F => g = pos
      BY <1>1 DEF ProducesOwnWhileBound, TypeOK, None
    <3> QED BY <3>1, <1>2 DEF NoDangling
  <2> QED BY <2>1, <2>2, <2>3
<1>7. ProducesOwnWhileBound'
  <2> SUFFICES ASSUME NEW g \in Genes, active_output'[g] # None
               PROVE  /\ bound_protein'[g] # None
                      /\ active_output'[g] \in Ids' =>
                           /\ proteins'[active_output'[g]].src_pos = g
                           /\ proteins'[active_output'[g]].seq = genome'[g].output_seq
    BY DEF ProducesOwnWhileBound
  <2>1. active_output'[g] = active_output[g] /\ bound_protein'[g] = bound_protein[g]
    BY <1>2
  <2>2. /\ bound_protein[g] # None
        /\ active_output[g] \in Ids =>
             /\ proteins[active_output[g]].src_pos = g
             /\ proteins[active_output[g]].seq = genome[g].output_seq
    BY <2>1 DEF ProducesOwnWhileBound
  <2>3. genome' = genome
    BY DEF RunDiffusion
  <2> QED BY <1>3, <2>1, <2>2, <2>3
<1>8. NeverBoundToOwn'
  <2> SUFFICES ASSUME NEW g \in Genes, bound_protein'[g] \in Ids'
               PROVE  /\ proteins'[bound_protein'[g]].src_pos # g
                      /\ bound_protein'[g] # active_output'[g]
                      /\ Reaches(bound_protein[g], g)'
    BY DEF NeverBoundToOwn
  <2>1. bound_protein'[g] = bound_protein[g] /\ bound_protein[g] \in Ids
    BY <1>2, <1>3 DEF TypeOK, None
  <2>2. active_output'[g] \in {active_output[g], None} /\ None \notin Ids
    BY <1>2 DEF TypeOK, None
  <2>3. /\ proteins[bound_protein[g]].src_pos # g
        /\ bound_protein[g] # active_output[g]
        /\ Reaches(bound_protein[g], g)
    BY <2>1 DEF NeverBoundToOwn
  <2>4. proteins'[bound_protein[g]].src_pos # g
    BY <2>1, <2>3, <1>3
  <2>5. bound_protein'[g] # active_output'[g]
    BY <2>1, <2>2, <2>3
  <2>6. Reaches(bound_protein[g], g)'
    <3>1. genome' = genome /\ proteins'[bound_protein[g]].seq = proteins[bound_protein[g]].seq
      BY <2>1, <1>3 DEF RunDiffusion
    <3> QED BY <2>1, <2>3, <3>1 DEF Reaches
  <2> QED BY <2>1, <2>4, <2>5, <2>6
<1>9. InitialSurvive'
  <2> SUFFICES ASSUME NEW id \in InitialIds
               PROVE  /\ id \in Ids'
                      /\ proteins'[id].seq = initial_proteins'[id].seq
                      /\ proteins'[id].src_pos = initial_proteins'[id].src_pos
    BY DEF InitialSurvive
  <2>1. initial_proteins' = initial_proteins
    BY DEF RunDiffusion
  <2>2. /\ id \in Ids
        /\ proteins[id].seq = initial_proteins[id].seq
        /\ proteins[id].src_pos = initial_proteins[id].src_pos
    BY DEF InitialSurvive
  <2>3. id \in Ids'
    BY <1>1, <1>2, <2>2
  <2> QED BY <1>3, <2>1, <2>2, <2>3
<1> QED BY <1>4, <1>5, <1>6, <1>7, <1>8, <1>9

-----------------------------------------------------------------------------
(* reset: the network is what the constructor left.                        *)
LEMMA ResetInv == IInv /\ Reset => IInv'
<1> SUFFICES ASSUME IInv, Reset PROVE IInv'
  OBVIOUS
<1> USE DiffusionAssumption, GrnAssumption DEF IInv, Reset
<1>1. Ids' = InitialIds /\ \A id \in InitialIds : proteins'[id] = initial_proteins[id]
  BY DEF InitialStore, Ids
<1>2. initial_proteins \in [InitialIds -> ProteinType] /\ 0 \in InitialIds /\ 0 \in Genes
  BY DEF TypeOK, InitialIds, Genes
<1>3. growth_seq' \in Seqs
  BY <1>2 DEF ProteinType
<1>4. TypeOK'
  <2>1. (Ids \subseteq 0 .. next_id - 1 /\ next_id \in Nat)'
    BY <1>1 DEF InitialIds, NextIdAfterReset
  <2>2. (/\ genome \in [Genes -> GeneType]
         /\ initial_proteins \in [InitialIds -> ProteinType]
         /\ \A id \in Ids : proteins[id] \in ProteinType)'
    BY <1>1, <1>2 DEF TypeOK
  <2>3. (/\ bound_protein \in [Genes -> Nat \cup {None}]
         /\ active_output \in [Genes -> Nat \cup {None}]
         /\ outputs \in [Genes -> SUBSET Nat])'
    BY DEF Unbound, NoOutputs
  <2> QED BY <1>2, <1>3, <2>1, <2>2, <2>3 DEF TypeOK
<1>5. NoDangling' /\ OutputsPartitionCreated' /\ InitialSurvive'
  BY <1>1 DEF NoDangling, OutputsPartitionCreated, InitialSurvive, Unbound, NoOutputs
<1>6. ProducesOwnWhileBound'
  BY DEF ProducesOwnWhileBound, Unbound
<1>7. NeverBoundToOwn'
  BY <1>1 DEF NeverBoundToOwn, Unbound, None, InitialIds
<1>8. ControlOK'
  BY DEF ControlOK
<1> QED BY <1>4, <1>5, <1>6, <1>7, <1>8
-----------------------------------------------------------------------------
LEMMA NextInv == IInv /\ [Next]_vars => IInv'
<1> SUFFICES ASSUME IInv, [Next]_vars PROVE IInv'
  OBVIOUS
<1>1. CASE Bind
  <2>1. ASSUME NEW b \in Drawable(pos), Reactivate(pos, b) PROVE IInv'
    BY <1>1, <2>1, ReactivateInv DEF Bind
  <2>2. ASSUME NEW b \in Drawable(pos), Express(pos, b) PROVE IInv'
    BY <1>1, <2>2, ExpressInv DEF Bind
  <2>3. CASE Unbind(pos)
    BY <1>1, <2>3, UnbindInv DEF Bind
  <2> QED BY <1>1, <2>1, <2>2, <2>3 DEF Bind
<1>2. CASE UNCHANGED vars
  <2>1. UNCHANGED <<genome, initial_proteins, proteins, next_id, growth_seq, bound_protein,
                    active_output, outputs, phase, pos, reg_step>>
    BY <1>2 DEF vars, store, wiring, control
  <2>2. TypeOK' /\ ControlOK'
    BY <2>1 DEF IInv, TypeOK, ControlOK, Ids
  <2>3. NoDangling' /\ OutputsPartitionCreated' /\ InitialSurvive'
    BY <2>1 DEF IInv, NoDangling, OutputsPartitionCreated, InitialSurvive, Ids
  <2>4. ProducesOwnWhileBound' /\ NeverBoundToOwn'
    BY <2>1 DEF IInv, ProducesOwnWhileBound, NeverBoundToOwn, Reaches, Ids
  <2> QED BY <2>2, <2>3, <2>4 DEF IInv
<1> QED BY <1>1, <1>2, UpdateOutputProteinsInv, RunDiffusionInv, RunDecayInv, SkipDecayInv,
           ResetInv DEF Next

LEMMA SpecInv == Spec => []IInv
<1> QED BY InitInv, NextInv, PTL DEF Spec

(* Every variable keeps its type: concentrations stay in range, ids below  *)
(* next_id.                                                                *)
THEOREM TypeCorrect == Spec => []TypeOK
<1>1. IInv => TypeOK
  BY DEF IInv
<1> QED BY <1>1, SpecInv, PTL

(* No gene ever refers to a deleted protein.                               *)
THEOREM NothingDangles == Spec => []NoDangling
<1>1. IInv => NoDangling
  BY DEF IInv
<1> QED BY <1>1, SpecInv, PTL

(* A gene's outputs are exactly the created proteins that name it.         *)
THEOREM CreatedAreOwned == Spec => []OutputsPartitionCreated
<1>1. IInv => OutputsPartitionCreated
  BY DEF IInv
<1> QED BY <1>1, SpecInv, PTL

(* A producing gene is bound and produces its own protein, which is not    *)
(* the one that regulates it.                                              *)
THEOREM ProductionIsRegulated == Spec => [](ProducesOwnWhileBound /\ NeverBoundToOwn)
<1>1. IInv => ProducesOwnWhileBound /\ NeverBoundToOwn
  BY DEF IInv
<1> QED BY <1>1, SpecInv, PTL

(* The initial proteins outlive the simulation.                            *)
THEOREM InitialProteinsSurvive == Spec => []InitialSurvive
<1>1. IInv => InitialSurvive
  BY DEF IInv
<1> QED BY <1>1, SpecInv, PTL
-----------------------------------------------------------------------------
(* What a step does to the identity of proteins: an id that appears was    *)
(* never in use, one that stays keeps its protein and its interactions.    *)
IdsKept ==
    /\ \A id \in (DOMAIN proteins') \ Ids : id >= next_id
    /\ \A id \in (DOMAIN proteins') \cap Ids :
         /\ proteins'[id].seq = proteins[id].seq
         /\ proteins'[id].src_pos = proteins[id].src_pos
         /\ proteins'[id].interactions >= proteins[id].interactions

LEMMA SameStoreKeepsIds == ASSUME TypeOK, proteins' = proteins PROVE IdsKept
<1>1. \A id \in Ids : proteins[id].interactions \in Nat
  BY DEF TypeOK, ProteinType
<1> QED BY <1>1 DEF IdsKept, Ids

LEMMA RewritingKeepsIds ==
    ASSUME TypeOK, DOMAIN proteins' \subseteq Ids,
           \A id \in DOMAIN proteins' :
               \E c \in Concs : proteins'[id] = [proteins[id] EXCEPT !.concs = c]
    PROVE  IdsKept
<1> SUFFICES ASSUME NEW id \in DOMAIN proteins'
             PROVE  /\ proteins'[id].seq = proteins[id].seq
                    /\ proteins'[id].src_pos = proteins[id].src_pos
                    /\ proteins'[id].interactions >= proteins[id].interactions
  BY DEF IdsKept
<1>1. proteins[id] \in ProteinType
  BY DEF TypeOK
<1>2. proteins[id].interactions \in Nat
  BY <1>1 DEF ProteinType
<1>3. PICK c \in Concs : proteins'[id] = [proteins[id] EXCEPT !.concs = c]
  OBVIOUS
<1>4. proteins'[id].interactions = proteins[id].interactions
  BY <1>1, <1>3 DEF ProteinType
<1> QED BY <1>1, <1>2, <1>3, <1>4, RewrittenProtein

LEMMA ExpressKeepsIds ==
    ASSUME IInv, NEW b \in Drawable(pos), Express(pos, b)
    PROVE  IdsKept
<1>1. DOMAIN proteins' = Ids \cup {FreshId} /\ FreshId = next_id /\ next_id \in Nat
  BY DEF Express, FreshId, IInv, TypeOK
<1>2. FreshId \notin Ids
  BY FreshIdIsNew DEF IInv
<1>3. ASSUME NEW id \in Ids
      PROVE  /\ proteins'[id].seq = proteins[id].seq
             /\ proteins'[id].src_pos = proteins[id].src_pos
             /\ proteins'[id].interactions >= proteins[id].interactions
  <2>1. proteins'[id] = IF id = b THEN [proteins[id] EXCEPT !.interactions = @ + 1]
                                  ELSE proteins[id]
    BY <1>2 DEF Express
  <2>2. proteins[id] \in ProteinType /\ proteins[id].interactions \in Nat
    BY DEF IInv, TypeOK, ProteinType
  <2>3. [proteins[id] EXCEPT !.interactions = @ + 1].interactions
          = proteins[id].interactions + 1
    BY <2>2 DEF ProteinType
  <2> QED BY <2>1, <2>2, <2>3, CountedProtein
<1> QED BY <1>1, <1>3 DEF IdsKept

LEMMA StepKeepsIds == IInv /\ [Next]_vars /\ phase # "done" => IdsKept
<1> SUFFICES ASSUME IInv, [Next]_vars, phase # "done" PROVE IdsKept
  OBVIOUS
<1> USE DEF IInv
<1>1. CASE Bind
  <2>1. ASSUME NEW b \in Drawable(pos), Express(pos, b) PROVE IdsKept
    BY <2>1, ExpressKeepsIds
  <2>2. ASSUME NEW b \in Drawable(pos), Reactivate(pos, b) PROVE proteins' = proteins
    BY <2>2 DEF Reactivate
  <2>3. ASSUME Unbind(pos) PROVE proteins' = proteins
    BY <2>3 DEF Unbind
  <2> QED BY <1>1, <2>1, <2>2, <2>3, SameStoreKeepsIds DEF Bind
<1>2. CASE UpdateOutputProteins
  <2> DEFINE c(id) == [g \in Genes |-> IF active_output[g] = id
                                       THEN Clamp(proteins[id].concs[g] + genome[g].output_rate)
                                       ELSE proteins[id].concs[g]]
  <2>1. ASSUME NEW id \in Ids
        PROVE  c(id) \in Concs /\ proteins'[id] = [proteins[id] EXCEPT !.concs = c(id)]
    <3>1. \A g \in Genes : /\ proteins[id].concs[g] \in 0 .. MaxConc
                           /\ genome[g].output_rate \in 0 .. MaxConc
      BY DEF TypeOK, ProteinType, Concs, GeneType
    <3>2. \A g \in Genes : Clamp(proteins[id].concs[g] + genome[g].output_rate) \in 0 .. MaxConc
      BY <3>1, DiffusionAssumption DEF Clamp
    <3> QED BY <1>2, <3>1, <3>2 DEF UpdateOutputProteins, Concs
  <2>2. DOMAIN proteins' = Ids
    BY <1>2 DEF UpdateOutputProteins
  <2> HIDE DEF c
  <2> QED BY <2>1, <2>2, RewritingKeepsIds
<1>3. CASE RunDiffusion
  <2>1. DOMAIN proteins' \subseteq Ids
    BY <1>3 DEF RunDiffusion
  <2>2. ASSUME NEW id \in DOMAIN proteins'
        PROVE  \E c \in Concs : proteins'[id] = [proteins[id] EXCEPT !.concs = c]
    <3>1. /\ id \in Ids
          /\ proteins[id] = [proteins[id] EXCEPT !.concs = proteins[id].concs]
          /\ proteins[id].concs \in Concs
      BY <2>1 DEF TypeOK, ProteinType
    <3>2. proteins'[id] = IF id \in outputs[pos]
                          THEN [proteins[id] EXCEPT !.concs = Diffuse(proteins[id].concs)]
                          ELSE proteins[id]
      BY <1>3 DEF RunDiffusion
    <3>3. Diffuse(proteins[id].concs) \in Concs
      BY <3>1, DiffuseType
    <3>4. CASE id \in outputs[pos]
      <4>1. proteins'[id] = [proteins[id] EXCEPT !.concs = Diffuse(proteins[id].concs)]
        BY <3>2, <3>4
      <4> QED BY <3>3, <4>1
    <3>5. CASE id \notin outputs[pos]
      <4>1. proteins'[id] = [proteins[id] EXCEPT !.concs = proteins[id].concs]
        BY <3>1, <3>2, <3>5
      <4> QED BY <3>1, <4>1
    <3> QED BY <3>4, <3>5
  <2> QED BY <2>1, <2>2, RewritingKeepsIds
<1>4. CASE RunDecay
  <2> DEFINE c(id) == [g \in Genes |-> Decayed(proteins[id].concs[g])]
  <2>1. ASSUME NEW id \in Ids
        PROVE  c(id) \in Concs /\ proteins'[id] = [proteins[id] EXCEPT !.concs = c(id)]
    <3>1. \A g \in Genes : proteins[id].concs[g] \in 0 .. MaxConc
      BY DEF TypeOK, ProteinType, Concs
    <3> QED BY <1>4, <3>1, DecayedType DEF RunDecay, Concs
  <2>2. DOMAIN proteins' = Ids
    BY <1>4 DEF RunDecay
  <2> HIDE DEF c
  <2> QED BY <2>1, <2>2, RewritingKeepsIds
<1>5. CASE SkipDecay
  BY <1>5, SameStoreKeepsIds DEF SkipDecay, store
<1>6. ~ Reset
  BY DEF Reset
<1>7. CASE UNCHANGED vars
  BY <1>7, SameStoreKeepsIds DEF vars, store
<1> QED BY <1>1, <1>2, <1>3, <1>4, <1>5, <1>6, <1>7 DEF Next

(* Within a simulation an id is never given to a second protein, and what  *)
(* it names keeps its sequence, its source and its interactions.           *)
THEOREM IdsNeverReused == Spec => IdsStable
<1>1. IInv /\ [Next]_vars => [phase # "done" => IdsKept]_vars
  BY StepKeepsIds
<1> QED BY <1>1, SpecInv, PTL DEF Spec, IdsStable, IdsKept

(***************************************************************************)
(* Grn implements GeneExpression, for every value of its constants.  The   *)
(* invariant supplies what the mapping cannot see: that an own output is   *)
(* alive, that a fresh id is fresh, that what fades is never a founder.    *)
(***************************************************************************)
Producer == [id \in Ids |-> proteins[id].src_pos]
Founders == [id \in InitialIds |-> initial_proteins[id].src_pos]

LEMMA InitRefines == Init => GE!Init
<1> SUFFICES ASSUME Init PROVE GE!Init
  OBVIOUS
<1>1. \A id \in InitialIds : initial_proteins[id].src_pos \in Genes \cup {-1}
  BY DEF Init, Sources, None
<1>2. Ids = InitialIds /\ \A id \in InitialIds : proteins[id] = initial_proteins[id]
  BY DEF Init, InitialStore, Ids
<1>3. Founders \in [InitialIds -> Genes \cup {-1}] /\ Producer = Founders
  BY <1>1, <1>2 DEF Founders, Producer
<1>4. next_id = NumInitial /\ bound_protein = [g \in Genes |-> -1]
      /\ active_output = [g \in Genes |-> -1]
  BY DEF Init, Unbound, None
<1> QED BY <1>3, <1>4 DEF GE!Init, GE!Founder, GE!Nobody, GE!Silent, InitialIds, Producer, Founders

(* Two steps of the same producers look the same.                          *)
LEMMA SameProducers ==
    ASSUME Ids' = Ids, \A id \in Ids : proteins'[id].src_pos = proteins[id].src_pos
    PROVE  Producer' = Producer
<1> QED BY DEF Producer

LEMMA BindRefines == IInv /\ Bind => GE!Next
<1> SUFFICES ASSUME IInv, Bind PROVE GE!Next
  OBVIOUS
<1>0. pos \in Genes /\ UNCHANGED initial_proteins /\ Founders' = Founders
  BY DEF IInv, TypeOK, Bind, Founders
<1>1. ASSUME NEW b \in Drawable(pos), Reactivate(pos, b) PROVE GE!Next
  <2>1. PICK id \in Ids :
          /\ IsOwnOutput(id, pos)
          /\ bound_protein' = [bound_protein EXCEPT ![pos] = b]
          /\ active_output' = [active_output EXCEPT ![pos] = id]
          /\ UNCHANGED <<proteins, next_id, outputs>>
    BY <1>1 DEF Reactivate
  <2>2. b \in Ids /\ Producer[b] # pos /\ Producer[id] = pos
    BY <2>1 DEF Drawable, Candidates, IsOwnOutput, Producer
  <2>3. Producer' = Producer
    BY <2>1, SameProducers DEF Ids
  <2>4. GE!Continue(pos, b, id)
    BY <2>1, <2>2, <2>3 DEF GE!Continue, GE!Living, Producer
  <2>5. GE!Regulate(pos)
    BY <1>0, <2>1, <2>2, <2>4 DEF GE!Regulate, GE!Living, Producer, Founders
  <2> QED BY <1>0, <2>5 DEF GE!Next
<1>2. ASSUME NEW b \in Drawable(pos), Express(pos, b) PROVE GE!Next
  <2>1. b \in Ids /\ Producer[b] # pos
    BY DEF Drawable, Candidates, Producer
  <2>2. FreshId \notin Ids /\ FreshId = next_id
    BY FreshIdIsNew DEF IInv, FreshId
  <2>3. Ids' = Ids \cup {next_id} /\ proteins'[next_id].src_pos = pos
    BY <1>2, <2>2 DEF Express, Ids, NewProtein
  <2>4. ASSUME NEW id \in Ids PROVE proteins'[id].src_pos = proteins[id].src_pos
    <3>1. proteins'[id] = IF id = b THEN [proteins[id] EXCEPT !.interactions = @ + 1]
                                    ELSE proteins[id]
      BY <1>2, <2>2 DEF Express
    <3>2. proteins[id] \in ProteinType
      BY DEF IInv, TypeOK
    <3> QED BY <3>1, <3>2, CountedProtein
  <2>5. Producer' = [id \in Ids \cup {next_id} |-> IF id = next_id THEN pos ELSE Producer[id]]
    BY <2>2, <2>3, <2>4 DEF Producer
  <2>6. /\ bound_protein' = [bound_protein EXCEPT ![pos] = b]
        /\ active_output' = [active_output EXCEPT ![pos] = next_id]
        /\ next_id' = next_id + 1
    BY <1>2, <2>2 DEF Express
  <2>7. GE!Found(pos, b)
    BY <2>5, <2>6 DEF GE!Found, GE!Living, Producer
  <2>8. GE!Regulate(pos)
    BY <1>0, <2>1, <2>6, <2>7 DEF GE!Regulate, GE!Living, Producer, Founders
  <2> QED BY <1>0, <2>8 DEF GE!Next
<1>3. CASE Unbind(pos)
  <2>1. Producer' = Producer
    BY <1>3, SameProducers DEF Unbind, Ids
  <2>2. GE!Silence(pos)
    BY <1>0, <1>3, <2>1 DEF Unbind, None, GE!Silence, GE!Nobody, Producer, Founders
  <2> QED BY <1>0, <2>2 DEF GE!Next
<1> QED BY <1>1, <1>2, <1>3 DEF Bind

LEMMA RunDiffusionRefines == IInv /\ RunDiffusion => GE!Next \/ UNCHANGED GE!evars
<1> SUFFICES ASSUME IInv, RunDiffusion PROVE GE!Next \/ UNCHANGED GE!evars
  OBVIOUS
<1> DEFINE F == Faded(pos)
<1>1. /\ pos \in Genes
      /\ F \subseteq Ids \ InitialIds
      /\ \A id \in F : proteins[id].src_pos = pos
  BY DEF IInv, TypeOK, Faded, OutputsPartitionCreated
<1>2. /\ Ids' = Ids \ F
      /\ bound_protein' = [g \in Genes |-> IF bound_protein[g] \in F THEN None
                                                               ELSE bound_protein[g]]
      /\ active_output' = [g \in Genes |-> IF bound_protein[g] \in F \/ (g = pos /\ F # {})
                                           THEN None ELSE active_output[g]]
      /\ UNCHANGED <<initial_proteins, next_id>>
  BY DEF RunDiffusion, Ids, BoundTo
<1>3. ASSUME NEW id \in Ids' PROVE proteins'[id].src_pos = proteins[id].src_pos
  <2>1. id \in Ids /\ proteins[id] \in ProteinType /\ proteins[id].concs \in Concs
    BY <1>2 DEF IInv, TypeOK, ProteinType
  <2>2. proteins'[id] = IF id \in outputs[pos]
                        THEN [proteins[id] EXCEPT !.concs = Diffuse(proteins[id].concs)]
                        ELSE proteins[id]
    BY <1>2, <2>1 DEF RunDiffusion
  <2>3. Diffuse(proteins[id].concs) \in Concs
    BY <2>1, DiffuseType
  <2>4. [proteins[id] EXCEPT !.concs = Diffuse(proteins[id].concs)].src_pos
          = proteins[id].src_pos
    BY <2>1, <2>3, RewrittenProtein
  <2> QED BY <2>2, <2>4
<1> HIDE DEF F
<1>4. Founders' = Founders
  BY <1>2 DEF Founders
<1>5. CASE F = {}
  <2>1. Producer' = Producer
    BY <1>2, <1>3, <1>5, SameProducers
  <2>2. \A g \in Genes : bound_protein'[g] = bound_protein[g] /\ active_output'[g] = active_output[g]
    BY <1>2, <1>5
  <2>3. bound_protein' = bound_protein /\ active_output' = active_output
    BY <1>2, <2>2 DEF IInv, TypeOK
  <2> QED BY <1>2, <1>4, <2>1, <2>3 DEF GE!evars, Producer, Founders
<1>6. CASE F # {}
  <2>1. Producer' = [id \in Ids \ F |-> Producer[id]]
    BY <1>2, <1>3 DEF Producer
  <2>2. F \in SUBSET {id \in Ids \ InitialIds : Producer[id] = pos}
    BY <1>1 DEF Producer
  <2>3. active_output' = [g \in Genes |-> IF g = pos \/ bound_protein[g] \in F
                                          THEN None ELSE active_output[g]]
    BY <1>2, <1>6
  <2>4. GE!Die(pos)
    BY <1>2, <1>4, <1>6, <2>1, <2>2, <2>3
    DEF GE!Die, GE!Living, GE!Founder, GE!Nobody, None, InitialIds, Producer, Founders
  <2>5. pos \in Genes
    BY <1>1
  <2> QED BY <2>4, <2>5 DEF GE!Next, GE!Die
<1> QED BY <1>5, <1>6

LEMMA ResetRefines == IInv /\ Reset => GE!Next
<1> SUFFICES ASSUME IInv, Reset PROVE GE!Next
  OBVIOUS
<1>1. Ids' = InitialIds /\ \A id \in InitialIds : proteins'[id] = initial_proteins[id]
  BY DEF Reset, InitialStore, Ids
<1>2. Founders' = Founders /\ Producer' = Founders
  BY <1>1 DEF Reset, Founders, Producer
<1> QED BY <1>2 DEF Reset, Unbound, None, NextIdAfterReset, GE!Next, GE!Restart, GE!Silent,
                    GE!Nobody, Producer, Founders

(* Production and decay only rewrite concentrations.                       *)
LEMMA ConcsRefine ==
    ASSUME IInv, UpdateOutputProteins \/ RunDecay \/ SkipDecay \/ UNCHANGED vars
    PROVE  UNCHANGED GE!evars
<1>1. /\ Ids' = Ids
      /\ UNCHANGED <<initial_proteins, next_id, bound_protein, active_output>>
  BY DEF UpdateOutputProteins, RunDecay, SkipDecay, vars, store, wiring, Ids
<1>2. ASSUME NEW id \in Ids PROVE proteins'[id].src_pos = proteins[id].src_pos
  <2>1. proteins[id] \in ProteinType
    BY DEF IInv, TypeOK
  <2>2. \A c : [proteins[id] EXCEPT !.concs = c].src_pos = proteins[id].src_pos
    BY <2>1 DEF ProteinType
  <2>3. proteins'[id] = proteins[id]
        \/ \E c : proteins'[id] = [proteins[id] EXCEPT !.concs = c]
    BY DEF UpdateOutputProteins, RunDecay, SkipDecay, vars, store
  <2> QED BY <2>2, <2>3
<1>3. Producer' = Producer /\ Founders' = Founders
  BY <1>1, <1>2, SameProducers DEF Founders
<1> QED BY <1>1, <1>3 DEF GE!evars, Producer, Founders

LEMMA StepRefines == IInv /\ [Next]_vars => [GE!Next]_(GE!evars)
<1> QED BY BindRefines, RunDiffusionRefines, ResetRefines, ConcsRefine DEF Next

(* The network keeps what GeneExpression promises.                         *)
THEOREM Implements == Spec => ImplementsGeneExpression
<1> QED BY InitRefines, StepRefines, SpecInv, PTL DEF Spec, GE!Spec, ImplementsGeneExpression

(***************************************************************************)
(* The network under simulation                                            *)
(***************************************************************************)
LEMMA RegStepIsGrnStep == RegNext => [Next]_vars
<1> QED BY DEF RegNext, Regulate, EndStep, Restart, Next

(* Every behaviour of the regulatory simulation is one of the network's.   *)
THEOREM SimulatesTheNetwork == RegSpec => Spec
<1>1. RegInit => Init
  BY DEF RegInit
<1>2. [RegNext]_rvars => [Next]_vars
  BY RegStepIsGrnStep DEF rvars, vars
<1> QED BY <1>1, <1>2, PTL DEF RegSpec, Spec

(***************************************************************************)
(* The tree's instructions are bit sequences.                              *)
(***************************************************************************)
Instrs == Seqs \cup {NoInstr}

(***************************************************************************)
(* Growth                                                                  *)
(***************************************************************************)
(* The indices are the first ones in a total order of the positions over   *)
(* the threshold: each one's rank is its own, and below the room there is. *)
LEMMA GrowIndicesBounded ==
    ASSUME TypeOK, NEW t, Size(t) \in Nat, Size(t) <= SizeLimit, SizeLimit \in Nat
    PROVE  /\ GrowIndices(t) \subseteq Genes /\ IsFiniteSet(GrowIndices(t))
           /\ Size(t) + Cardinality(GrowIndices(t)) <= SizeLimit
<1> DEFINE above(i) == {id \in Ids : /\ proteins[id].seq = growth_seq
                                     /\ proteins[id].concs[i] > GrowthThreshold}
           over == {i \in Genes : above(i) # {}}
           first(i) == CHOOSE id \in above(i) : \A other \in above(i) : id <= other
           before(k, i) == first(k) < first(i) \/ (first(k) = first(i) /\ k < i)
           earlier(i) == {k \in over : before(k, i)}
           indices == {i \in over : Size(t) + Cardinality(earlier(i)) < SizeLimit}
           room == SizeLimit - Size(t)
<1>0. Ids \subseteq Nat
  BY DEF TypeOK
<1>1. GrowIndices(t) = indices
  BY DEF GrowIndices
<1>2. ASSUME NEW i \in over PROVE first(i) \in Nat
  <2>1. above(i) \in SUBSET Nat /\ above(i) # {}
    BY <1>0
  <2> HIDE DEF above
  <2>2. PICK id \in above(i) : \A other \in above(i) : id <= other
    BY <2>1, NatMinimum
  <2>3. first(i) \in above(i)
    BY <2>2
  <2> QED BY <2>1, <2>3
<1>3. IsFiniteSet(Genes) /\ Genes \subseteq Nat
  <2>1. 0 \in Int /\ NumGenes - 1 \in Int
    BY DiffusionAssumption
  <2> QED BY <2>1, FS_Interval DEF Genes
<1>4. over \subseteq Genes
  OBVIOUS
<1> HIDE DEF above, first, over
<1>5. \A i \in over : earlier(i) \subseteq over /\ IsFiniteSet(earlier(i)) /\ Cardinality(earlier(i)) \in Nat
  <2>1. \A T \in SUBSET Genes : IsFiniteSet(T) /\ Cardinality(T) \in Nat
    BY <1>3, FS_Subset, FS_CardinalityType
  <2> QED BY <1>4, <2>1
<1>6. ASSUME NEW i \in over, NEW j \in over, before(i, j)
      PROVE  Cardinality(earlier(i)) < Cardinality(earlier(j))
  <2>1. earlier(i) \subseteq earlier(j)
    <3> SUFFICES ASSUME NEW k \in earlier(i) PROVE before(k, j)
      OBVIOUS
    <3>1. /\ first(i) \in Nat /\ first(j) \in Nat /\ first(k) \in Nat
          /\ i \in Nat /\ j \in Nat /\ k \in Nat
      BY <1>2, <1>3, <1>4
    <3>2. before(k, i) /\ before(i, j)
      BY <1>6
    <3> QED BY <3>1, <3>2
  <2>2. i \in earlier(j) /\ i \notin earlier(i)
    BY <1>2, <1>3, <1>4, <1>6
  <2> HIDE DEF earlier
  <2>3. /\ Cardinality(earlier(i)) <= Cardinality(earlier(j))
        /\ Cardinality(earlier(i)) # Cardinality(earlier(j))
    BY <1>5, <2>1, <2>2, FS_Subset
  <2> QED BY <1>5, <2>3
<1>7. \A i, j \in over : i # j => before(i, j) \/ before(j, i)
  BY <1>2, <1>3, <1>4
<1> DEFINE rank == [i \in indices |-> Cardinality(earlier(i))]
<1>8. rank \in Injection(indices, 0 .. room - 1)
  <2> HIDE DEF earlier, before
  <2>1. room \in Nat
    OBVIOUS
  <2>2. \A i \in indices : i \in over /\ Cardinality(earlier(i)) \in 0 .. room - 1
    BY <1>5
  <2>3. ASSUME NEW i \in indices, NEW j \in indices, i # j PROVE rank[i] # rank[j]
    <3>1. Cardinality(earlier(i)) < Cardinality(earlier(j)) \/ Cardinality(earlier(j)) < Cardinality(earlier(i))
      BY <1>6, <1>7, <2>2, <2>3
    <3> QED BY <1>5, <2>2, <3>1
  <2> HIDE DEF room, indices
  <2> QED BY <2>2, <2>3 DEF Injection, IsInjective
<1>9. IsFiniteSet(0 .. room - 1) /\ Cardinality(0 .. room - 1) = room
  <2>1. room \in Nat /\ 0 \in Int /\ room - 1 \in Int
    OBVIOUS
  <2> HIDE DEF room
  <2>2. Cardinality(0 .. room - 1) = IF 0 > room - 1 THEN 0 ELSE (room - 1) - 0 + 1
    BY <2>1, FS_Interval
  <2> QED BY <2>1, <2>2, FS_Interval
<1>10. IsFiniteSet(indices) /\ Cardinality(indices) <= room
  <2> HIDE DEF room, indices, rank
  <2> QED BY <1>8, <1>9, FS_Injection
<1>11. indices \subseteq Genes
  BY <1>4
<1>12. Cardinality(indices) \in Nat
  <2> HIDE DEF indices
  <2> QED BY <1>10, FS_CardinalityType
<1> HIDE DEF indices
<1> QED BY <1>1, <1>10, <1>11, <1>12

NoneFilled(t) == \A id \in NodeIds(t) : t.nodes[id].instr = NoInstr

LEMMA AddChildFillsNone ==
    ASSUME NEW t \in SoundTrees(Instrs), NEW parent \in Nat, NoneFilled(t)
    PROVE  NoneFilled(AddChild(t, parent, NoInstr))
<1>1. t \in Trees(Instrs) /\ t.nodes \in [0 .. t.next_id - 1 -> Nodes(Instrs)] /\ NodeIds(t) = 0 .. t.next_id - 1
  BY TreeIs DEF SoundTrees
<1>2. CASE ~ HasRoot(t)
  BY <1>1, <1>2 DEF AddChild, AddRoot, NoneFilled, NewNode, NodeIds
<1>3. CASE HasRoot(t) /\ parent \in NodeIds(t)
  <2> DEFINE T == AddBelow(t, parent, NoInstr)
  <2>1. ASSUME NEW id \in NodeIds(T) PROVE T.nodes[id].instr = NoInstr
    <3>1. id \in NodeIds(t) \cup {t.next_id}
      BY DEF AddBelow, NodeIds
    <3>2. CASE id = t.next_id
      BY <3>2 DEF AddBelow, NewNode
    <3>3. CASE id # t.next_id /\ id = parent
      <4>1. T.nodes[id] = [t.nodes[id] EXCEPT !.children = Append(@, t.next_id)]
        BY <1>3, <3>3 DEF AddBelow
      <4>2. t.nodes[id] \in Nodes(Instrs) /\ t.nodes[id].instr = NoInstr
        BY <1>1, <1>3, <3>3 DEF NoneFilled
      <4> HIDE DEF T
      <4> QED BY <4>1, <4>2 DEF Nodes
    <3>4. CASE id # t.next_id /\ id # parent
      BY <3>1, <3>4 DEF AddBelow, NoneFilled
    <3> QED BY <3>2, <3>3, <3>4
  <2> HIDE DEF T
  <2> QED BY <1>3, <2>1 DEF AddChild, NoneFilled, T
<1>4. CASE HasRoot(t) /\ parent \notin NodeIds(t)
  BY <1>4 DEF AddChild
<1> QED BY <1>2, <1>3, <1>4

(* One position of the loop that adds the children.                        *)
GrownAt(t, indices, position) ==
    IF position \in indices THEN AddChild(t, position, NoInstr) ELSE t

LEMMA GrownIs ==
    ASSUME NEW t \in SoundTrees(Instrs)
    PROVE  \E grown \in [0 .. NumGenes -> SoundTrees(Instrs)] :
               /\ grown[0] = t
               /\ \A k \in 1 .. NumGenes :
                    grown[k] = GrownAt(grown[k - 1], GrowIndices(t), k - 1)
               /\ Grown(t) = IF Growing(t) THEN grown[NumGenes] ELSE t
<1> DEFINE indices == GrowIndices(t)
           body(f) == [k \in 0 .. NumGenes |->
                         IF k = 0 THEN t
                         ELSE IF k - 1 \in indices THEN AddChild(f[k - 1], k - 1, NoInstr)
                         ELSE f[k - 1]]
           step == [x \in (1 .. NumGenes) \X SoundTrees(Instrs) |-> GrownAt(x[2], indices, x[1] - 1)]
           grown == CHOOSE f : f = body(f)
<1>1. step \in [(1 .. NumGenes) \X SoundTrees(Instrs) -> SoundTrees(Instrs)]
  <2> HIDE DEF indices
  <2>1. ASSUME NEW k \in 1 .. NumGenes, NEW tree \in SoundTrees(Instrs)
        PROVE  GrownAt(tree, indices, k - 1) \in SoundTrees(Instrs)
    BY AddChildSound DEF GrownAt, Instrs
  <2> QED BY <2>1
<1>2. PICK run \in [0 .. NumGenes -> SoundTrees(Instrs)] : Rounds(NumGenes, t, step, run)
  <2> HIDE DEF step
  <2> QED BY <1>1, RunExists, DiffusionAssumption
<1>3. run[0] = t /\ \A k \in 1 .. NumGenes : run[k] = GrownAt(run[k - 1], indices, k - 1)
  <2>1. \A k \in 1 .. NumGenes : run[k - 1] \in SoundTrees(Instrs)
    BY DiffusionAssumption
  <2>2. \A k \in 1 .. NumGenes : step[<<k, run[k - 1]>>] = GrownAt(run[k - 1], indices, k - 1)
    BY <2>1
  <2> HIDE DEF step
  <2> QED BY <1>2, <2>2 DEF Rounds
<1>4. run = body(run)
  <2>1. \A k \in 0 .. NumGenes : run[k] = body(run)[k]
    BY <1>3 DEF GrownAt
  <2> QED BY <2>1
<1>5. grown = body(grown)
  BY <1>4
<1>6. Grown(t) = IF Growing(t) THEN grown[NumGenes] ELSE t
  BY DEF Grown
<1> HIDE DEF grown
<1>7. ASSUME NEW k \in 0 .. NumGenes PROVE grown[k] = run[k]
  <2> DEFINE T == {j \in 0 .. NumGenes : grown[j] = run[j]}
  <2>1. 0 \in T
    BY <1>3, <1>5, DiffusionAssumption
  <2>2. ASSUME NEW j \in 1 .. NumGenes, j - 1 \in T PROVE j \in T
    BY <1>3, <1>5, <2>2 DEF GrownAt
  <2> HIDE DEF T
  <2>3. 0 .. NumGenes \subseteq T
    BY <2>1, <2>2, RoundsInduction, DiffusionAssumption
  <2> QED BY <2>3 DEF T
<1>8. NumGenes \in 0 .. NumGenes
  BY DiffusionAssumption
<1> QED BY <1>3, <1>6, <1>7, <1>8

LEMMA SizeLimitIs == SizeLimit \in Nat /\ SizeLimit <= NumGenes
<1> QED BY DiffusionAssumption, RegSimAssumption DEF SizeLimit

LEMMA GrownSound ==
    ASSUME TypeOK, NEW t \in SoundTrees(Instrs), Size(t) <= SizeLimit
    PROVE  /\ Grown(t) \in SoundTrees(Instrs)
           /\ Size(Grown(t)) <= SizeLimit
           /\ NoneFilled(t) => NoneFilled(Grown(t))
<1> DEFINE indices == GrowIndices(t)
           upto(k) == {i \in indices : i < k}
<1>1. PICK grown \in [0 .. NumGenes -> SoundTrees(Instrs)] :
         /\ grown[0] = t
         /\ \A k \in 1 .. NumGenes : grown[k] = GrownAt(grown[k - 1], indices, k - 1)
         /\ Grown(t) = IF Growing(t) THEN grown[NumGenes] ELSE t
  BY GrownIs
<1>2. \A tree \in SoundTrees(Instrs) : Size(tree) \in Nat
  BY TreeIs DEF SoundTrees
<1>3. /\ indices \subseteq Nat /\ IsFiniteSet(indices)
      /\ Size(t) + Cardinality(indices) <= SizeLimit
  BY <1>2, GrowIndicesBounded, SizeLimitIs, DiffusionAssumption DEF Genes
<1> HIDE DEF indices
<1>4. \A k \in Nat : /\ IsFiniteSet(upto(k)) /\ Cardinality(upto(k)) \in Nat
                     /\ Cardinality(upto(k)) <= Cardinality(indices)
  <2>1. \A k \in Nat : upto(k) \subseteq indices
    OBVIOUS
  <2> HIDE DEF upto
  <2> QED BY <1>3, <2>1, FS_Subset, FS_CardinalityType
<1> DEFINE T == {k \in 0 .. NumGenes :
                   /\ Size(grown[k]) <= Size(t) + Cardinality(upto(k))
                   /\ NoneFilled(t) => NoneFilled(grown[k])}
<1>5. 0 \in T
  <2> HIDE DEF upto
  <2> QED BY <1>1, <1>2, <1>4, DiffusionAssumption
<1>6. ASSUME NEW k \in 1 .. NumGenes, k - 1 \in T PROVE k \in T
  <2>1. /\ k \in Nat /\ k - 1 \in Nat /\ k \in 0 .. NumGenes
        /\ grown[k - 1] \in SoundTrees(Instrs) /\ grown[k] \in SoundTrees(Instrs)
    BY DiffusionAssumption
  <2>2. CASE k - 1 \in indices
    <3>1. grown[k] = AddChild(grown[k - 1], k - 1, NoInstr)
      BY <1>1, <2>2 DEF GrownAt
    <3>2. upto(k) = upto(k - 1) \cup {k - 1} /\ k - 1 \notin upto(k - 1)
      <4>1. \A i \in indices : i < k <=> i < k - 1 \/ i = k - 1
        BY <1>3, <2>1
      <4>2. upto(k) = upto(k - 1) \cup {k - 1}
        BY <2>2, <4>1
      <4> QED BY <4>2, <2>1
    <3> HIDE DEF upto
    <3>3. Cardinality(upto(k)) = Cardinality(upto(k - 1)) + 1
      BY <1>4, <2>1, <3>2, FS_AddElement
    <3>4. Size(grown[k]) <= Size(grown[k - 1]) + 1
      <4>1. NoInstr \in Instrs
        BY DEF Instrs
      <4>2. Size(AddChild(grown[k - 1], k - 1, NoInstr)) \in {Size(grown[k - 1]), Size(grown[k - 1]) + 1}
        BY <2>1, <4>1, AddChildSound
      <4>3. Size(grown[k - 1]) \in Nat
        BY <1>2, <2>1
      <4> QED BY <3>1, <4>2, <4>3
    <3>5. NoneFilled(grown[k - 1]) => NoneFilled(grown[k])
      BY <2>1, <3>1, AddChildFillsNone
    <3>6. Size(grown[k - 1]) \in Nat /\ Size(grown[k]) \in Nat /\ Size(t) \in Nat
      BY <1>2, <2>1
    <3>7. Size(grown[k - 1]) <= Size(t) + Cardinality(upto(k - 1)) /\ Cardinality(upto(k - 1)) \in Nat
      BY <1>4, <1>6, <2>1
    <3>8. NoneFilled(t) => NoneFilled(grown[k - 1])
      BY <1>6
    <3>9. Size(grown[k]) <= Size(t) + Cardinality(upto(k))
      BY <3>3, <3>4, <3>6, <3>7
    <3> QED BY <2>1, <3>5, <3>8, <3>9
  <2>3. CASE k - 1 \notin indices
    <3>1. grown[k] = grown[k - 1]
      BY <1>1, <2>3 DEF GrownAt
    <3>2. upto(k) = upto(k - 1)
      <4>1. \A i \in indices : i < k <=> i < k - 1
        BY <1>3, <2>1, <2>3
      <4> QED BY <4>1
    <3> HIDE DEF upto
    <3> QED BY <1>6, <2>1, <3>1, <3>2
  <2> QED BY <2>2, <2>3
<1> HIDE DEF T, upto
<1>7. NumGenes \in T
  <2>1. 0 .. NumGenes \subseteq T
    BY <1>5, <1>6, RoundsInduction, DiffusionAssumption
  <2> QED BY <2>1, DiffusionAssumption
<1>8. CASE Growing(t)
  <2>1. NumGenes \in 0 .. NumGenes /\ NumGenes \in Nat
    BY DiffusionAssumption
  <2>2. Grown(t) = grown[NumGenes] /\ grown[NumGenes] \in SoundTrees(Instrs)
    BY <1>1, <1>8, <2>1
  <2>3. Size(grown[NumGenes]) <= Size(t) + Cardinality(upto(NumGenes))
    BY <1>7 DEF T
  <2>4. NoneFilled(t) => NoneFilled(grown[NumGenes])
    BY <1>7 DEF T
  <2> QED BY <1>2, <1>3, <1>4, <2>1, <2>2, <2>3, <2>4, SizeLimitIs, FS_CardinalityType
<1>9. CASE ~ Growing(t)
  BY <1>1, <1>9
<1> QED BY <1>8, <1>9

(***************************************************************************)
(* Coding                                                                  *)
(***************************************************************************)
LEMMA CodeStepIsNode ==
    ASSUME TypeOK, NEW t \in Trees(Instrs), Size(t) <= SizeLimit, Coding(t)
    PROVE  CodeStep \in NodeIds(t) /\ CodeStep \in Genes
<1>1. /\ reg_step - CodeStart \in Nat
      /\ CodeInterval \in Nat \ {0}
  BY GrnAssumption, RegSimAssumption DEF TypeOK, Coding
<1>2. CodeStep \in Nat
  <2> DEFINE n == reg_step - CodeStart
  <2>1. \A m \in Nat, d \in Nat \ {0} : m \div d \in Nat
    OBVIOUS
  <2>2. n \in Nat
    BY <1>1
  <2> HIDE DEF n
  <2>3. n \div CodeInterval \in Nat
    BY <1>1, <2>1, <2>2
  <2> QED BY <2>3 DEF CodeStep, n
<1>3. CodeStep < Size(t)
  BY DEF Coding
<1> QED BY <1>2, <1>3, TreeIs, SizeLimitIs, DiffusionAssumption DEF Genes

(* Coding fills at most the node of this sample, with an instruction that  *)
(* accepts the children it has.                                            *)
LEMMA CodedSound ==
    ASSUME TypeOK, NEW t \in SoundTrees(Instrs), Size(t) <= SizeLimit, NEW coded \in Coded(t)
    PROVE  /\ coded \in SoundTrees(Instrs) /\ NodeIds(coded) = NodeIds(t)
           /\ \A n \in NodeIds(t) :
                /\ Children(coded, n) = Children(t, n)
                /\ \/ coded.nodes[n].instr = t.nodes[n].instr
                   \/ Accepts(coded.nodes[n].instr, NumChildren(t, n))
           /\ coded = t \/ reg_step \in CodeStart .. CodeEnd
<1>1. CASE coded = t
  BY <1>1
<1>2. CASE coded # t
  <2>1. Coding(t)
    BY <1>2 DEF Coded
  <2>2. PICK id \in Buckets(t) : coded = SetInstr(t, CodeStep, proteins[id].seq)
    <3> DEFINE weights == [id \in Buckets(t) |-> proteins[id].concs[CodeStep]]
               drawn == Drawn(Buckets(t), weights, MaxConc, None)
    <3>1. coded \in {IF id = None THEN t ELSE SetInstr(t, CodeStep, proteins[id].seq) : id \in drawn}
      BY <1>2 DEF Coded
    <3>2. drawn \subseteq Buckets(t) \cup {None}
      BY DEF Drawn
    <3> HIDE DEF drawn
    <3> QED BY <1>2, <3>1, <3>2
  <2>3. proteins[id].seq \in Instrs /\ Accepts(proteins[id].seq, NumChildren(t, CodeStep))
    BY DEF Buckets, TypeOK, ProteinType, Instrs
  <2>4. CodeStep \in NodeIds(t)
    BY <2>1, CodeStepIsNode DEF SoundTrees
  <2>5. reg_step \in CodeStart .. CodeEnd
    BY <2>1 DEF Coding
  <2> QED BY <2>2, <2>3, <2>4, <2>5, SetInstrSound
<1> QED BY <1>1, <1>2

(***************************************************************************)
(* The phenotype                                                           *)
(***************************************************************************)
TreeInv == IInv /\ ptype \in SoundTrees(Instrs) /\ Size(ptype) <= SizeLimit

LEMMA SizeIsOfIds == \A s, t : NodeIds(s) = NodeIds(t) => Size(s) = Size(t)
<1> QED BY DEF Size

LEMMA TreeInvInit == RegInit => TreeInv
<1> QED BY InitInv, EmptyTreeSound, SizeLimitIs DEF RegInit, TreeInv

LEMMA TreeInvNext == TreeInv /\ [RegNext]_rvars => TreeInv'
<1> SUFFICES ASSUME TreeInv, [RegNext]_rvars PROVE TreeInv'
  OBVIOUS
<1>1. IInv'
  BY NextInv, RegStepIsGrnStep DEF TreeInv, rvars, vars
<1>2. SizeLimit' = SizeLimit
  BY DEF SizeLimit
<1>3. CASE Regulate \/ UNCHANGED rvars
  BY <1>1, <1>3 DEF TreeInv, Regulate, rvars, SoundTrees, Trees, WellFormed, Nodes, Instrs, Seqs,
     Size, NodeIds, NumChildren, Children, SizeLimit
<1>4. CASE EndStep
  <2>1. TypeOK
    BY DEF TreeInv, IInv
  <2>2. Grown(ptype) \in SoundTrees(Instrs) /\ Size(Grown(ptype)) <= SizeLimit
    BY <2>1, GrownSound DEF TreeInv
  <2>3. ptype' \in SoundTrees(Instrs) /\ NodeIds(ptype') = NodeIds(Grown(ptype))
    BY <1>4, <2>1, <2>2, CodedSound DEF EndStep
  <2>4. Size(ptype') = Size(Grown(ptype))
    BY <2>3, SizeIsOfIds
  <2> QED BY <1>1, <2>2, <2>3, <2>4 DEF TreeInv
<1>5. CASE Restart
  BY <1>1, <1>5, EmptyTreeSound, SizeLimitIs DEF TreeInv, Restart
<1> QED BY <1>3, <1>4, <1>5 DEF RegNext

LEMMA TreeInvHolds == RegSpec => []TreeInv
<1> QED BY TreeInvInit, TreeInvNext, PTL DEF RegSpec

(* Growing and coding keep the tree as Tree::invariant wants it and within *)
(* max_pgm_size and the number of genes, and the node that code_step2      *)
(* fills exists.                                                           *)
THEOREM TreeStaysSound == RegSpec => []TreeSound
<1>1. TreeInv => TreeSound
  <2> SUFFICES ASSUME TreeInv PROVE TreeSound
    OBVIOUS
  <2>1. TypeOK /\ ptype \in Trees(Instrs)
    BY DEF TreeInv, IInv, SoundTrees
  <2>2. Grown(ptype) \in Trees(Instrs) /\ Size(Grown(ptype)) <= SizeLimit
    BY <2>1, GrownSound DEF TreeInv, SoundTrees
  <2>3. Coding(Grown(ptype)) => CodeStep \in NodeIds(Grown(ptype)) /\ CodeStep \in Genes
    BY <2>1, <2>2, CodeStepIsNode
  <2> QED BY <2>1, <2>3, TreesAreContiguous DEF TreeInv, TreeSound, SoundTrees
<1> QED BY <1>1, TreeInvHolds, PTL

(* No node is filled while the tree may still grow.                        *)
FitInv ==
    /\ TreeInv
    /\ InstrsFit
    /\ NoneFilled(ptype) \/ reg_step > GrowthEnd

LEMMA FitInvInit == RegInit => FitInv
<1> SUFFICES ASSUME RegInit PROVE FitInv
  OBVIOUS
<1>1. NodeIds(ptype) = {}
  BY DEF RegInit, EmptyTree, NodeIds
<1> QED BY <1>1, TreeInvInit DEF FitInv, InstrsFit, NoneFilled

LEMMA FitInvNext == GrowthEnd < CodeStart /\ FitInv /\ [RegNext]_rvars => FitInv'
<1> SUFFICES ASSUME GrowthEnd < CodeStart, FitInv, [RegNext]_rvars PROVE FitInv'
  OBVIOUS
<1>1. TreeInv'
  BY TreeInvNext DEF FitInv
<1>2. reg_step \in Int /\ {GrowthEnd, CodeStart, CodeEnd} \subseteq Int
  BY RegSimAssumption, GrnAssumption DEF FitInv, TreeInv, IInv, TypeOK
<1>3. CASE Regulate \/ UNCHANGED rvars
  <2>1. ptype' = ptype
    BY <1>3 DEF Regulate, rvars
  <2>2. reg_step' = reg_step
    BY <1>3 DEF Regulate, rvars, vars, control, Bind, UpdateOutputProteins, RunDiffusion, Advance
  <2> QED BY <1>1, <2>1, <2>2 DEF FitInv, InstrsFit, NoneFilled, NodeIds, NumChildren, Children, Accepts
<1>4. CASE EndStep
  <2> DEFINE t == Grown(ptype)
  <2>1. TypeOK /\ ptype \in SoundTrees(Instrs) /\ Size(ptype) <= SizeLimit
    BY DEF FitInv, TreeInv, IInv
  <2>2. t \in SoundTrees(Instrs) /\ Size(t) <= SizeLimit /\ (NoneFilled(ptype) => NoneFilled(t))
    BY <2>1, GrownSound
  <2>3. t = ptype \/ reg_step <= GrowthEnd
    BY <1>2 DEF Grown, Growing
  <2>4. reg_step' = reg_step + 1
    BY <1>4 DEF EndStep, RunDecay, SkipDecay, StepOver
  <2> HIDE DEF t
  <2>5. \A n \in NodeIds(t) : t.nodes[n].instr # NoInstr => Accepts(t.nodes[n].instr, NumChildren(t, n))
    BY <1>2, <2>2, <2>3 DEF FitInv, InstrsFit, NoneFilled
  <2>6. NoneFilled(t) \/ reg_step > GrowthEnd
    BY <2>2, <2>3 DEF FitInv
  <2>7. ptype' \in Coded(t)
    BY <1>4 DEF EndStep, t
  <2>8. /\ NodeIds(ptype') = NodeIds(t)
        /\ \A n \in NodeIds(t) :
             /\ Children(ptype', n) = Children(t, n)
             /\ \/ ptype'.nodes[n].instr = t.nodes[n].instr
                \/ Accepts(ptype'.nodes[n].instr, NumChildren(t, n))
        /\ ptype' = t \/ reg_step \in CodeStart .. CodeEnd
    BY <2>1, <2>2, <2>7, CodedSound
  <2>9. InstrsFit'
    BY <2>5, <2>8 DEF InstrsFit, NumChildren, NodeIds, Children, Accepts
  <2>10. NoneFilled(ptype') \/ reg_step' > GrowthEnd
    BY <1>2, <2>4, <2>6, <2>8
  <2> QED BY <1>1, <2>9, <2>10 DEF FitInv, NoneFilled, NodeIds
<1>5. CASE Restart
  <2>1. NodeIds(ptype') = {}
    BY <1>5 DEF Restart, EmptyTree, NodeIds
  <2> QED BY <1>1, <2>1 DEF FitInv, InstrsFit, NoneFilled, NodeIds
<1> QED BY <1>3, <1>4, <1>5 DEF RegNext

(* When growth ends before coding begins, as in sample_runs.toml, a filled *)
(* node keeps the number of children its instruction was chosen for        *)
(* (reg_sim.cpp:119-124).                                                  *)
THEOREM InstructionsFit == ASSUME GrowthEnd < CodeStart PROVE RegSpec => []InstrsFit
<1>1. RegInit => FitInv
  BY FitInvInit
<1>2. FitInv /\ [RegNext]_rvars => FitInv'
  BY FitInvNext
<1>3. FitInv => InstrsFit
  BY DEF FitInv
<1> QED BY <1>1, <1>2, <1>3, PTL DEF RegSpec

(***************************************************************************)
(* The erasure of the faded outputs, by indices that shift: the i-th       *)
(* number of S is p[i], of n in all.                                       *)
(***************************************************************************)
CountsOff(p, n, S) ==
    /\ p \in [1 .. n -> S]
    /\ \A i, j \in 1 .. n : i < j => p[i] < p[j]
    /\ \A x \in S : \E i \in 1 .. n : p[i] = x

LEMMA OneErased ==
    ASSUME NEW n \in Nat, NEW S \in SUBSET Int, NEW p, CountsOff(p, n, S), NEW e \in 1 .. n
    PROVE  CountsOff([k \in 1 .. n - 1 |-> IF k < e THEN p[k] ELSE p[k + 1]], n - 1, S \ {p[e]})
<1> DEFINE q == [k \in 1 .. n - 1 |-> IF k < e THEN p[k] ELSE p[k + 1]]
<1>1. /\ p \in [1 .. n -> S]
      /\ \A i, j \in 1 .. n : i < j => p[i] < p[j]
      /\ \A x \in S : \E i \in 1 .. n : p[i] = x
  BY DEF CountsOff
<1>2. \A i, j \in 1 .. n : p[i] \in Int /\ (i # j => p[i] # p[j])
  <2>1. \A i \in 1 .. n : p[i] \in Int
    BY <1>1
  <2> SUFFICES ASSUME NEW i \in 1 .. n, NEW j \in 1 .. n, i # j PROVE p[i] # p[j]
    BY <2>1
  <2>2. i < j \/ j < i
    OBVIOUS
  <2> QED BY <1>1, <2>1, <2>2
<1>3. ASSUME NEW k \in 1 .. n - 1
      PROVE  /\ q[k] \in S \ {p[e]}
             /\ k < e => q[k] = p[k] /\ k \in 1 .. n
             /\ ~ (k < e) => q[k] = p[k + 1] /\ k + 1 \in 1 .. n
  <2>1. CASE k < e
    <3>1. k \in 1 .. n /\ k # e /\ q[k] = p[k]
      BY <2>1
    <3> QED BY <1>1, <1>2, <2>1, <3>1
  <2>2. CASE ~ (k < e)
    <3>1. k + 1 \in 1 .. n /\ k + 1 # e /\ q[k] = p[k + 1]
      BY <2>2
    <3> QED BY <1>1, <1>2, <2>2, <3>1
  <2> QED BY <2>1, <2>2
<1>4. ASSUME NEW i \in 1 .. n - 1, NEW j \in 1 .. n - 1, i < j PROVE q[i] < q[j]
  <2>1. CASE j < e
    <3>1. q[i] = p[i] /\ q[j] = p[j] /\ i \in 1 .. n /\ j \in 1 .. n
      BY <1>3, <1>4, <2>1
    <3> QED BY <1>1, <1>4, <3>1
  <2>2. CASE i < e /\ ~ (j < e)
    <3>1. q[i] = p[i] /\ q[j] = p[j + 1] /\ i \in 1 .. n /\ j + 1 \in 1 .. n /\ i < j + 1
      BY <1>3, <1>4, <2>2
    <3> HIDE DEF q
    <3> QED BY <1>1, <3>1
  <2>3. CASE ~ (i < e)
    <3>1. q[i] = p[i + 1] /\ q[j] = p[j + 1] /\ i + 1 \in 1 .. n /\ j + 1 \in 1 .. n /\ i + 1 < j + 1
      BY <1>3, <1>4, <2>3
    <3> HIDE DEF q
    <3> QED BY <1>1, <3>1
  <2> QED BY <2>1, <2>2, <2>3
<1>5. ASSUME NEW x \in S \ {p[e]} PROVE \E k \in 1 .. n - 1 : q[k] = x
  <2>1. PICK i \in 1 .. n : p[i] = x
    BY <1>1
  <2>2. i # e
    BY <2>1
  <2>3. CASE i < e
    <3>1. i \in 1 .. n - 1 /\ q[i] = p[i]
      BY <2>3
    <3> QED BY <2>1, <3>1
  <2>4. CASE i > e
    <3>1. i - 1 \in 1 .. n - 1 /\ ~ (i - 1 < e) /\ (i - 1) + 1 = i
      BY <2>4
    <3>2. q[i - 1] = p[i]
      BY <3>1
    <3> QED BY <2>1, <3>1, <3>2
  <2> QED BY <2>2, <2>3, <2>4
<1>6. q \in [1 .. n - 1 -> S \ {p[e]}]
  BY <1>3
<1> HIDE DEF q
<1>7. CountsOff(q, n - 1, S \ {p[e]})
  BY <1>4, <1>5, <1>6 DEF CountsOff
<1> QED BY <1>7 DEF q

LEMMA OneAppended ==
    ASSUME NEW s \in Seq(Int), NEW S \in SUBSET Int, CountsOff(s, Len(s), S), NEW x \in Int,
           \A other \in S : other < x
    PROVE  /\ Append(s, x) \in Seq(Int)
           /\ CountsOff(Append(s, x), Len(Append(s, x)), S \cup {x})
<1> DEFINE n == Len(s)
<1>1. n \in Nat
  OBVIOUS
<1> HIDE DEF n
<1>2. PICK q : q = Append(s, x)
  OBVIOUS
<1>3. /\ q \in Seq(Int) /\ Len(q) = n + 1
      /\ \A i \in 1 .. n : q[i] = s[i]
      /\ q[n + 1] = x
  BY <1>2, AppendProperties DEF n
<1>4. /\ s \in [1 .. n -> S]
      /\ \A i, j \in 1 .. n : i < j => s[i] < s[j]
      /\ \A y \in S : \E i \in 1 .. n : s[i] = y
  BY DEF CountsOff, n
<1>5. q \in [1 .. n + 1 -> S \cup {x}]
  <2>1. DOMAIN q = 1 .. n + 1 /\ q = [i \in DOMAIN q |-> q[i]]
    BY <1>3
  <2>2. ASSUME NEW i \in 1 .. n + 1 PROVE q[i] \in S \cup {x}
    <3>1. i = n + 1 \/ i \in 1 .. n
      BY <1>1
    <3> QED BY <1>3, <1>4, <3>1
  <2> QED BY <2>1, <2>2
<1>6. ASSUME NEW i \in 1 .. n + 1, NEW j \in 1 .. n + 1, i < j PROVE q[i] < q[j]
  <2>1. i \in 1 .. n /\ (j = n + 1 \/ j \in 1 .. n)
    BY <1>1, <1>6
  <2>2. CASE j = n + 1
    BY <1>3, <1>4, <2>1, <2>2
  <2>3. CASE j \in 1 .. n
    BY <1>3, <1>4, <1>6, <2>1, <2>3
  <2> QED BY <2>1, <2>2, <2>3
<1>7. ASSUME NEW y \in S \cup {x} PROVE \E i \in 1 .. n + 1 : q[i] = y
  <2>1. CASE y = x
    <3>1. n + 1 \in 1 .. n + 1
      BY <1>1
    <3> QED BY <1>3, <2>1, <3>1
  <2>2. CASE y \in S
    <3>1. PICK i \in 1 .. n : s[i] = y
      BY <1>4, <2>2
    <3>2. i \in 1 .. n + 1 /\ q[i] = y
      BY <1>1, <1>3, <3>1
    <3> QED BY <3>2
  <2> QED BY <2>1, <2>2
<1>8. CountsOff(q, n + 1, S \cup {x})
  BY <1>5, <1>6, <1>7 DEF CountsOff
<1> QED BY <1>2, <1>3, <1>8

(* The collected indices are those of the faded outputs, in their order.   *)
LEMMA RmIndicesIs ==
    ASSUME NEW D, NEW list \in Seq(D), NEW faded
    PROVE  LET rm == RmIndices(list, faded)
           IN /\ Len(rm) \in Nat
              /\ CountsOff(rm, Len(rm), {i \in 1 .. Len(list) : list[i] \in faded})
<1> DEFINE n == Len(list)
           step == [at \in (1 .. n) \X Seq(Int) |->
                      IF list[at[1]] \in faded THEN Append(at[2], at[1]) ELSE at[2]]
           next(f, j) == IF j = 0 THEN << >>
                         ELSE IF list[j] \in faded THEN Append(f[j - 1], j) ELSE f[j - 1]
           before(j) == {i \in 1 .. j : list[i] \in faded}
<1>1. n \in Nat
  OBVIOUS
<1>2. step \in [(1 .. n) \X Seq(Int) -> Seq(Int)]
  <2>1. ASSUME NEW k \in 1 .. n, NEW s \in Seq(Int)
        PROVE  (IF list[k] \in faded THEN Append(s, k) ELSE s) \in Seq(Int)
    <3>1. k \in Int
      BY <1>1
    <3> QED BY <3>1, AppendProperties
  <2> QED BY <2>1
<1>3. PICK run \in [0 .. n -> Seq(Int)] : Rounds(n, << >>, step, run)
  <2>1. << >> \in Seq(Int)
    OBVIOUS
  <2> HIDE DEF step, n
  <2> QED BY <1>1, <1>2, <2>1, RunExists
<1>4. /\ run[0] = << >>
      /\ \A k \in 1 .. n : run[k] = IF list[k] \in faded THEN Append(run[k - 1], k) ELSE run[k - 1]
  <2>1. run[0] = << >> /\ \A k \in 1 .. n : run[k] = step[<<k, run[k - 1]>>]
    BY <1>3 DEF Rounds
  <2>2. ASSUME NEW k \in 1 .. n PROVE <<k, run[k - 1]>> \in (1 .. n) \X Seq(Int)
    <3>1. k - 1 \in 0 .. n
      BY <1>1
    <3> QED BY <1>3, <3>1
  <2> HIDE DEF n
  <2> QED BY <2>1, <2>2
<1>5. run = [j \in 0 .. n |-> next(run, j)]
  <2>1. ASSUME NEW j \in 0 .. n PROVE run[j] = next(run, j)
    <3>1. CASE j = 0
      BY <1>4, <3>1
    <3>2. CASE j \in 1 .. n
      <4>1. next(run, j) = IF list[j] \in faded THEN Append(run[j - 1], j) ELSE run[j - 1]
        BY <3>2
      <4>2. run[j] = IF list[j] \in faded THEN Append(run[j - 1], j) ELSE run[j - 1]
        <5> HIDE DEF next, n
        <5> QED BY <1>4, <3>2
      <4> HIDE DEF next
      <4> QED BY <4>1, <4>2
    <3> QED BY <1>1, <3>1, <3>2
  <2> HIDE DEF next
  <2> QED BY <2>1
<1> DEFINE found == CHOOSE f : f = [j \in 0 .. n |-> next(f, j)]
<1>6. found = [j \in 0 .. n |-> next(found, j)]
  <2>1. \E f : f = [j \in 0 .. n |-> next(f, j)]
    BY <1>5
  <2> HIDE DEF n, next
  <2> QED BY <2>1
<1>7. RmIndices(list, faded) = found[n]
  BY DEF RmIndices
<1> HIDE DEF found, n, step
<1> DEFINE T == {j \in Nat : j <= n => found[j] \in Seq(Int) /\ CountsOff(found[j], Len(found[j]), before(j))}
<1>8. 0 \in T
  <2>1. found[0] = << >>
    BY <1>1, <1>6
  <2>2. before(0) = {}
    OBVIOUS
  <2>3. << >> \in Seq(Int) /\ Len(<< >>) = 0
    OBVIOUS
  <2>4. CountsOff(<< >>, 0, {})
    <3>1. << >> \in [1 .. 0 -> {}]
      OBVIOUS
    <3> QED BY <3>1 DEF CountsOff
  <2> QED BY <2>1, <2>2, <2>3, <2>4
<1>9. ASSUME NEW j \in Nat, j \in T PROVE j + 1 \in T
  <2> SUFFICES ASSUME j + 1 <= n
               PROVE  found[j + 1] \in Seq(Int) /\ CountsOff(found[j + 1], Len(found[j + 1]), before(j + 1))
    OBVIOUS
  <2>1. j + 1 \in 0 .. n /\ j + 1 # 0 /\ (j + 1) - 1 = j
    BY <1>1
  <2>2. found[j] \in Seq(Int) /\ CountsOff(found[j], Len(found[j]), before(j))
    BY <1>1, <1>9
  <2>3. found[j + 1] = IF list[j + 1] \in faded THEN Append(found[j], j + 1) ELSE found[j]
    <3>1. found[j + 1] = next(found, j + 1)
      BY <1>6, <2>1
    <3> QED BY <2>1, <3>1
  <2>4. before(j + 1) = IF list[j + 1] \in faded THEN before(j) \cup {j + 1} ELSE before(j)
    OBVIOUS
  <2>5. before(j) \in SUBSET Int /\ \A other \in before(j) : other < j + 1
    OBVIOUS
  <2>6. CASE list[j + 1] \in faded
    <3>1. PICK s, S, x : s = found[j] /\ S = before(j) /\ x = j + 1
      OBVIOUS
    <3>2. /\ s \in Seq(Int) /\ S \in SUBSET Int /\ x \in Int
          /\ CountsOff(s, Len(s), S) /\ \A other \in S : other < x
      BY <2>2, <2>5, <3>1
    <3>3. Append(s, x) \in Seq(Int) /\ CountsOff(Append(s, x), Len(Append(s, x)), S \cup {x})
      BY ONLY <3>2, OneAppended
    <3> HIDE DEF before
    <3>4. /\ Append(found[j], j + 1) \in Seq(Int)
          /\ CountsOff(Append(found[j], j + 1), Len(Append(found[j], j + 1)), before(j) \cup {j + 1})
      BY <3>1, <3>3
    <3> QED BY <2>3, <2>4, <2>6, <3>4
  <2>7. CASE list[j + 1] \notin faded
    <3> HIDE DEF before
    <3> QED BY <2>2, <2>3, <2>4, <2>7
  <2> QED BY <2>6, <2>7
<1> HIDE DEF T
<1>10. n \in T
  BY <1>1, <1>8, <1>9, NatSetInduction
<1>11. found[n] \in Seq(Int) /\ CountsOff(found[n], Len(found[n]), before(n))
  BY <1>1, <1>10 DEF T
<1>12. Len(found[n]) \in Nat
  BY <1>11
<1> QED BY <1>7, <1>11, <1>12 DEF n

(* What is kept of a list is all but the places S, in their order.         *)
KeepsTheOthers(kept, list, S) ==
    \E n \in Nat : \E p :
        /\ CountsOff(p, n, (1 .. Len(list)) \ S)
        /\ kept = [k \in 1 .. n |-> list[p[k]]]

ErasesInTurn(after, list, rm, n) ==
    after[0] = list /\ \A j \in 1 .. n : after[j] = Erase(after[j - 1], rm[j] - (j - 1))

LEMMA ErasureIs ==
    ASSUME NEW D, NEW list \in Seq(D), NEW n \in Nat, NEW rm, NEW S \in SUBSET (1 .. Len(list)),
           CountsOff(rm, n, S),
           NEW after, ErasesInTurn(after, list, rm, n)
    PROVE  KeepsTheOthers(after[n], list, S)
<1> DEFINE size == Len(list)
           gone(j) == {rm[i] : i \in 1 .. j}
           Left(j) == /\ size - j \in Nat
                      /\ j # 0 => j <= rm[j]
                      /\ \E p : /\ CountsOff(p, size - j, (1 .. size) \ gone(j))
                                /\ after[j] = [k \in 1 .. size - j |-> list[p[k]]]
                                /\ \A k \in 1 .. size - j : (j # 0 => rm[j] < k + j) => p[k] = k + j
           T == {j \in Nat : j <= n => Left(j)}
<1>1. size \in Nat /\ DOMAIN list = 1 .. size /\ list = [k \in 1 .. size |-> list[k]]
  OBVIOUS
<1>2. /\ rm \in [1 .. n -> 1 .. size]
      /\ \A i, j \in 1 .. n : i < j => rm[i] < rm[j]
      /\ gone(n) = S
  BY DEF CountsOff
<1> HIDE DEF size
<1>3. 0 \in T
  <2> DEFINE p == [k \in 1 .. size |-> k]
  <2>1. CountsOff(p, size, 1 .. size)
    <3>1. p \in [1 .. size -> 1 .. size] /\ \A i, j \in 1 .. size : i < j => p[i] < p[j]
      BY <1>1
    <3>2. \A x \in 1 .. size : \E i \in 1 .. size : p[i] = x
      OBVIOUS
    <3> HIDE DEF p
    <3> QED BY <3>1, <3>2 DEF CountsOff
  <2>2. size - 0 = size /\ gone(0) = {} /\ \A k \in 1 .. size : k + 0 = k
    BY <1>1
  <2>3. after[0] = [k \in 1 .. size |-> list[p[k]]]
    BY <1>1 DEF ErasesInTurn
  <2>4. \A k \in 1 .. size : p[k] = k
    OBVIOUS
  <2> HIDE DEF p, gone
  <2>5. Left(0)
    <3>1. /\ CountsOff(p, size - 0, (1 .. size) \ gone(0))
          /\ after[0] = [k \in 1 .. size - 0 |-> list[p[k]]]
      BY <2>1, <2>2, <2>3
    <3>2. \A k \in 1 .. size - 0 : p[k] = k + 0
      BY <1>1, <2>4
    <3>3. size - 0 \in Nat
      BY <1>1
    <3> QED BY <3>1, <3>2, <3>3
  <2> HIDE DEF Left
  <2> QED BY <2>5
<1>4. ASSUME NEW j \in Nat, j \in T PROVE j + 1 \in T
  <2> SUFFICES ASSUME j + 1 <= n PROVE Left(j + 1)
    <3> HIDE DEF Left
    <3> QED OBVIOUS
  <2>12. Left(j)
    <3> HIDE DEF Left
    <3> QED BY <1>4
  <2> DEFINE m == size - j
             e == rm[j + 1] - j
  <2>1. m \in Nat /\ (j # 0 => j <= rm[j])
    BY <2>12
  <2>2. PICK p : /\ CountsOff(p, m, (1 .. size) \ gone(j))
                 /\ after[j] = [k \in 1 .. m |-> list[p[k]]]
                 /\ \A k \in 1 .. m : (j # 0 => rm[j] < k + j) => p[k] = k + j
    BY <2>12
  <2>3. /\ j + 1 \in 1 .. n /\ rm[j + 1] \in 1 .. size
        /\ j # 0 => rm[j] \in 1 .. size /\ rm[j] < rm[j + 1]
    <3>1. j + 1 \in 1 .. n
      OBVIOUS
    <3>2. j # 0 => j \in 1 .. n /\ j < j + 1
      OBVIOUS
    <3> QED BY <1>2, <3>1, <3>2
  <2>4. e \in 1 .. m /\ j + 1 <= rm[j + 1] /\ e + j = rm[j + 1] /\ m - 1 \in Nat /\ size - (j + 1) = m - 1
    <3>1. PICK a : a = rm[j + 1]
      OBVIOUS
    <3>2. a \in 1 .. size /\ j + 1 <= a
      <4>1. CASE j = 0
        BY <2>3, <3>1, <4>1
      <4>2. CASE j # 0
        <5>1. PICK b : b = rm[j]
          OBVIOUS
        <5>2. b \in 1 .. size /\ b < a /\ j <= b /\ a \in 1 .. size
          BY <2>1, <2>3, <3>1, <4>2, <5>1
        <5> QED BY ONLY <1>1, <5>2, j \in Nat
      <4> QED BY <4>1, <4>2
    <3>3. /\ a - j \in 1 .. size - j /\ a - j + j = a /\ size - j - 1 \in Nat
          /\ size - (j + 1) = size - j - 1
      <4>1. a \in Int /\ size \in Int /\ j \in Int /\ 0 <= j /\ a <= size /\ j + 1 <= a
        BY <1>1, <3>2
      <4> QED BY ONLY <4>1
    <3> QED BY <3>1, <3>2, <3>3
  <2>5. p[e] = rm[j + 1]
    <3>1. j # 0 => rm[j] < e + j
      BY <2>3, <2>4
    <3> HIDE DEF e, m
    <3> QED BY <2>2, <2>4, <3>1
  <2> HIDE DEF m, e
  <2> DEFINE q == [k \in 1 .. m - 1 |-> IF k < e THEN p[k] ELSE p[k + 1]]
  <2>6. CountsOff(q, m - 1, ((1 .. size) \ gone(j)) \ {p[e]})
    <3>1. PICK U : U = (1 .. size) \ gone(j)
      OBVIOUS
    <3>2. U \in SUBSET Int
      BY <3>1
    <3> QED BY <2>1, <2>2, <2>4, <3>1, <3>2, OneErased
  <2>7. ((1 .. size) \ gone(j)) \ {p[e]} = (1 .. size) \ gone(j + 1)
    <3>1. gone(j + 1) = gone(j) \cup {rm[j + 1]}
      OBVIOUS
    <3> HIDE DEF gone
    <3> QED BY <2>5, <3>1
  <2>8. after[j + 1] = [k \in 1 .. m - 1 |-> list[q[k]]]
    <3>1. after[j + 1] = Erase(after[j], e)
      <4>1. (j + 1) - 1 = j
        OBVIOUS
      <4> QED BY <2>3, <4>1 DEF e, ErasesInTurn
    <3>2. Len(after[j]) = m
      BY <2>1, <2>2
    <3>3. after[j + 1] = [k \in 1 .. m - 1 |-> IF k < e THEN after[j][k] ELSE after[j][k + 1]]
      BY <3>1, <3>2 DEF Erase
    <3>4. ASSUME NEW k \in 1 .. m - 1
          PROVE  (IF k < e THEN after[j][k] ELSE after[j][k + 1]) = list[q[k]]
      <4>1. k \in 1 .. m /\ k + 1 \in 1 .. m
        BY <2>1
      <4>2. after[j][k] = list[p[k]] /\ after[j][k + 1] = list[p[k + 1]]
        BY <2>2, <4>1
      <4> QED BY <4>2
    <3> HIDE DEF q
    <3> QED BY <3>3, <3>4
  <2>9. ASSUME NEW k \in 1 .. m - 1, rm[j + 1] < k + (j + 1) PROVE q[k] = k + (j + 1)
    <3>1. /\ ~ (k < e) /\ k + 1 \in 1 .. m /\ (k + 1) + j = k + (j + 1)
          /\ rm[j + 1] \in Int
      BY <2>1, <2>3, <2>4, <2>9
    <3>2. j # 0 => rm[j] < (k + 1) + j
      <4> SUFFICES ASSUME j # 0 PROVE rm[j] < (k + 1) + j
        OBVIOUS
      <4>1. PICK a, b : a = rm[j] /\ b = rm[j + 1]
        OBVIOUS
      <4>2. a \in Int /\ b \in Int /\ a < b /\ b < k + (j + 1)
        <5>1. rm[j] \in 1 .. size /\ rm[j + 1] \in 1 .. size /\ rm[j] < rm[j + 1]
          BY <2>3
        <5>2. rm[j + 1] < k + (j + 1)
          BY <2>9
        <5>3. a \in Int /\ b \in Int
          BY ONLY <4>1, <5>1
        <5> QED BY ONLY <4>1, <5>1, <5>2, <5>3
      <4>3. a < (k + 1) + j
        BY ONLY <4>2, j \in Nat, k \in Int
      <4> QED BY <4>1, <4>3
    <3>3. p[k + 1] = k + (j + 1)
      BY <2>2, <3>1, <3>2
    <3> QED BY <3>1, <3>3
  <2>10. CountsOff(q, size - (j + 1), (1 .. size) \ gone(j + 1))
    <3> HIDE DEF q, gone
    <3> QED BY <2>4, <2>6, <2>7
  <2>11. j + 1 # 0
    OBVIOUS
  <2> HIDE DEF q, gone
  <2> QED BY <2>4, <2>8, <2>9, <2>10, <2>11
<1> HIDE DEF T
<1>5. n \in T
  BY <1>3, <1>4, NatSetInduction
<1>6. Left(n)
  <2> HIDE DEF Left
  <2> QED BY <1>5 DEF T
<1> HIDE DEF gone
<1>7. PICK p : /\ CountsOff(p, size - n, (1 .. size) \ S)
               /\ after[n] = [k \in 1 .. size - n |-> list[p[k]]]
  BY <1>2, <1>6
<1> QED BY <1>6, <1>7 DEF size, KeepsTheOthers

LEMMA EraseType ==
    ASSUME NEW D, NEW v \in Seq(D), NEW i \in Int
    PROVE  Erase(v, i) \in Seq(D)
<1> DEFINE n == Len(v)
<1>1. n \in Nat /\ \A k \in 1 .. n : v[k] \in D
  OBVIOUS
<1>2. Erase(v, i) = [k \in 1 .. n - 1 |-> IF k < i THEN v[k] ELSE v[k + 1]]
  BY DEF Erase
<1> HIDE DEF n
<1>3. CASE n = 0
  <2>1. 1 .. n - 1 = 1 .. 0
    BY <1>3
  <2>2. Erase(v, i) = [k \in 1 .. 0 |-> IF k < i THEN v[k] ELSE v[k + 1]]
    BY <1>2, <2>1
  <2>3. \A k \in 1 .. 0 : (IF k < i THEN v[k] ELSE v[k + 1]) \in D
    OBVIOUS
  <2>4. [k \in 1 .. 0 |-> IF k < i THEN v[k] ELSE v[k + 1]] \in Seq(D)
    BY <2>3, IsASeq
  <2> QED BY <2>2, <2>4
<1>4. CASE n # 0
  <2>1. n - 1 \in Nat
    BY <1>1, <1>4
  <2>2. \A k \in 1 .. n - 1 : (IF k < i THEN v[k] ELSE v[k + 1]) \in D
    <3> SUFFICES ASSUME NEW k \in 1 .. n - 1 PROVE v[k] \in D /\ v[k + 1] \in D
      OBVIOUS
    <3>1. k \in 1 .. n /\ k + 1 \in 1 .. n
      BY <1>1
    <3> QED BY <1>1, <3>1
  <2>3. [k \in 1 .. n - 1 |-> IF k < i THEN v[k] ELSE v[k + 1]] \in Seq(D)
    BY <2>1, <2>2, IsASeq
  <2> QED BY <1>2, <2>3
<1> QED BY <1>3, <1>4

(* What run_diffusion erases from a gene's outputs by indices that shift   *)
(* with every erasure is exactly what faded: the others stay, in their     *)
(* order, whatever the outputs and however many fade (grn.cpp:162-178).    *)
(* So RunDiffusion may take outputs for a set, and the faded ones from it. *)
THEOREM OnlyTheFadedAreErased ==
    ASSUME NEW D, NEW list \in Seq(D), NEW faded
    PROVE  KeepsTheOthers(Erased(list, faded), list, {i \in 1 .. Len(list) : list[i] \in faded})
<1> DEFINE S == {i \in 1 .. Len(list) : list[i] \in faded}
           rm == RmIndices(list, faded)
           n == Len(rm)
           step == [at \in (1 .. n) \X Seq(D) |-> Erase(at[2], rm[at[1]] - (at[1] - 1))]
           next(f, j) == IF j = 0 THEN list ELSE Erase(f[j - 1], rm[j] - (j - 1))
<1>1. n \in Nat /\ CountsOff(rm, n, S)
  BY RmIndicesIs
<1>2. S \in SUBSET (1 .. Len(list))
  OBVIOUS
<1>3. Erased(list, faded) = (CHOOSE f : f = [j \in 0 .. n |-> next(f, j)])[n]
  BY DEF Erased
<1> HIDE DEF rm, n
<1>4. \A j \in 1 .. n : rm[j] - (j - 1) \in Int
  <2> SUFFICES ASSUME NEW j \in 1 .. n PROVE rm[j] - (j - 1) \in Int
    OBVIOUS
  <2>1. rm[j] \in 1 .. Len(list)
    BY <1>1 DEF CountsOff
  <2> QED BY <1>1, <2>1
<1>5. step \in [(1 .. n) \X Seq(D) -> Seq(D)]
  <2>1. \A k \in 1 .. n : \A v \in Seq(D) : Erase(v, rm[k] - (k - 1)) \in Seq(D)
    BY <1>4, EraseType
  <2> QED BY <2>1
<1>6. PICK run \in [0 .. n -> Seq(D)] : Rounds(n, list, step, run)
  <2> HIDE DEF step
  <2> QED BY <1>1, <1>5, RunExists
<1>7. run[0] = list /\ \A j \in 1 .. n : run[j] = Erase(run[j - 1], rm[j] - (j - 1))
  <2>1. run[0] = list /\ \A k \in 1 .. n : run[k] = step[<<k, run[k - 1]>>]
    BY <1>6 DEF Rounds
  <2>2. ASSUME NEW k \in 1 .. n PROVE <<k, run[k - 1]>> \in (1 .. n) \X Seq(D)
    <3>1. k - 1 \in 0 .. n
      BY <1>1
    <3> QED BY <1>6, <3>1
  <2> QED BY <2>1, <2>2
<1>8. run = [j \in 0 .. n |-> next(run, j)]
  <2>1. ASSUME NEW j \in 0 .. n PROVE run[j] = next(run, j)
    <3>1. CASE j = 0
      BY <1>7, <3>1
    <3>2. CASE j \in 1 .. n
      <4>1. next(run, j) = Erase(run[j - 1], rm[j] - (j - 1))
        BY <3>2
      <4> HIDE DEF next
      <4> QED BY <1>7, <3>2, <4>1
    <3> QED BY <1>1, <3>1, <3>2
  <2> HIDE DEF next
  <2> QED BY <2>1
<1> DEFINE after == CHOOSE f : f = [j \in 0 .. n |-> next(f, j)]
<1>9. after = [j \in 0 .. n |-> next(after, j)]
  <2>1. \E f : f = [j \in 0 .. n |-> next(f, j)]
    BY <1>8
  <2> HIDE DEF next
  <2> QED BY <2>1
<1>10. Erased(list, faded) = after[n]
  BY <1>3
<1> HIDE DEF after, step
<1>11. after[0] = list /\ \A j \in 1 .. n : after[j] = Erase(after[j - 1], rm[j] - (j - 1))
  <2>1. after[0] = next(after, 0) /\ \A j \in 1 .. n : j \in 0 .. n /\ j # 0 /\ after[j] = next(after, j)
    <3> HIDE DEF next
    <3>1. \A j \in 0 .. n : after[j] = next(after, j)
      BY <1>9
    <3>2. 0 \in 0 .. n /\ \A j \in 1 .. n : j \in 0 .. n /\ j # 0
      BY <1>1
    <3> QED BY <3>1, <3>2
  <2> QED BY <2>1
<1> HIDE DEF S, next
<1>12. KeepsTheOthers(after[n], list, S)
  <2>1. /\ n \in Nat /\ CountsOff(rm, n, S) /\ S \in SUBSET (1 .. Len(list)) /\ list \in Seq(D)
        /\ ErasesInTurn(after, list, rm, n)
    BY <1>1, <1>2, <1>11 DEF ErasesInTurn
  <2> QED BY ONLY <2>1, ErasureIs
<1> QED BY <1>10, <1>12 DEF S

(* The numbers of a set are counted off in one way only.                   *)
LEMMA CountedAlike ==
    ASSUME NEW S \in SUBSET Int, NEW n \in Nat, NEW m \in Nat, NEW p, NEW q,
           CountsOff(p, n, S), CountsOff(q, m, S)
    PROVE  n <= m /\ \A i \in 1 .. n : p[i] = q[i]
<1> DEFINE T == {k \in 0 .. n : k <= m /\ \A j \in 1 .. k : p[j] = q[j]}
<1>1. /\ \A i \in 1 .. n : p[i] \in S /\ p[i] \in Int
      /\ \A i, j \in 1 .. n : i < j => p[i] < p[j]
      /\ \A x \in S : \E i \in 1 .. n : p[i] = x
  BY DEF CountsOff
<1>2. /\ \A i \in 1 .. m : q[i] \in S /\ q[i] \in Int
      /\ \A i, j \in 1 .. m : i < j => q[i] < q[j]
      /\ \A x \in S : \E i \in 1 .. m : q[i] = x
  BY DEF CountsOff
<1>3. 0 \in T
  OBVIOUS
<1>4. ASSUME NEW k \in 1 .. n, k - 1 \in T PROVE k \in T
  <2>1. k - 1 <= m /\ \A j \in 1 .. k - 1 : p[j] = q[j] /\ j \in 1 .. n /\ j \in 1 .. m
    BY <1>4
  <2>2. PICK i \in 1 .. m : q[i] = p[k]
    BY <1>1, <1>2
  <2>3. ~ (i \in 1 .. k - 1)
    <3>1. ASSUME i \in 1 .. k - 1 PROVE FALSE
      <4>1. p[i] = p[k] /\ i < k /\ i \in 1 .. n /\ p[k] \in Int /\ k \in 1 .. n
        BY <1>1, <2>1, <2>2, <3>1
      <4>2. p[i] < p[k]
        BY <1>1, <4>1
      <4> QED BY <4>1, <4>2
    <3> QED BY <3>1
  <2>4. k <= i /\ k \in 1 .. m /\ k \in 0 .. n
    BY <2>3
  <2>5. q[k] <= p[k]
    BY <1>2, <2>2, <2>4
  <2>6. PICK h \in 1 .. n : p[h] = q[k]
    BY <1>1, <1>2, <2>4
  <2>7. ~ (h \in 1 .. k - 1)
    <3>1. ASSUME h \in 1 .. k - 1 PROVE FALSE
      <4>1. q[h] = q[k] /\ h < k /\ h \in 1 .. m /\ q[k] \in Int /\ k \in 1 .. m
        BY <1>2, <2>1, <2>4, <2>6, <3>1
      <4>2. q[h] < q[k]
        BY <1>2, <4>1
      <4> QED BY <4>1, <4>2
    <3> QED BY <3>1
  <2>8. k <= h
    BY <2>7
  <2>9. p[k] <= q[k]
    BY <1>1, <2>6, <2>8
  <2>10. p[k] = q[k]
    BY <1>1, <1>2, <2>4, <2>5, <2>9
  <2>11. \A j \in 1 .. k : j = k \/ j \in 1 .. k - 1
    OBVIOUS
  <2> QED BY <2>1, <2>4, <2>10, <2>11
<1>5. n \in T
  <2> HIDE DEF T
  <2> QED BY <1>3, <1>4, RoundsInduction
<1> QED BY <1>5

LEMMA PlacesInOneWay ==
    ASSUME NEW S \in SUBSET Int, NEW n \in Nat, NEW m \in Nat, NEW p, NEW q,
           CountsOff(p, n, S), CountsOff(q, m, S)
    PROVE  n = m /\ p = q
<1>1. n <= m /\ \A i \in 1 .. n : p[i] = q[i]
  BY CountedAlike
<1>2. m <= n
  BY CountedAlike
<1>3. n = m
  BY <1>1, <1>2
<1>4. p \in [1 .. n -> S] /\ q \in [1 .. n -> S]
  BY <1>3 DEF CountsOff
<1> QED BY <1>1, <1>3, <1>4

(* The greatest of the first numbers is the last of them.                  *)
LEMMA GreatestIs ==
    ASSUME NEW n \in Nat, NEW s \in SUBSET (1 .. n), s # {}
    PROVE  Max(s) \in s /\ \A x \in s : Max(s) >= x
<1> DEFINE up == {n - x : x \in s}
<1>1. up \in SUBSET Nat /\ up # {}
  <2>1. \A x \in s : x \in Int /\ n - x \in Nat
    OBVIOUS
  <2>2. PICK x : x \in s
    OBVIOUS
  <2>3. n - x \in up
    BY <2>2
  <2> QED BY <2>1, <2>3
<1>2. PICK y \in up : \A z \in up : y <= z
  BY <1>1, NatMinimum
<1>3. PICK x \in s : y = n - x
  OBVIOUS
<1>4. ASSUME NEW z \in s PROVE x >= z
  <2>1. n - z \in up
    OBVIOUS
  <2>2. n - x <= n - z /\ x \in Int /\ z \in Int
    BY <1>2, <1>3, <2>1
  <2> QED BY <2>2
<1> QED BY <1>4 DEF Max

(* A pass from left to right keeps the outputs that did not fade.          *)
LEMMA KeptIs ==
    ASSUME NEW D, NEW list \in Seq(D), NEW faded
    PROVE  KeepsTheOthers(
               FoldLeft(LAMBDA kept, id : IF id \in faded THEN kept ELSE Append(kept, id), << >>, list),
               list, {i \in 1 .. Len(list) : list[i] \in faded})
<1> DEFINE n == Len(list)
           S == 1 .. n
           op(kept, id) == IF id \in faded THEN kept ELSE Append(kept, id)
           next(f, s) == IF s = {} THEN << >>
                         ELSE op(f[s \ {Max(s)}], list[Max(s)])
           c == [s \in (SUBSET S) \ {{}} |-> Max(s)]
           step == [at \in S \X Seq(D) |-> op(at[2], list[at[1]])]
           F == CHOOSE f : f = [s \in SUBSET S |-> next(f, s)]
<1>1. n \in Nat /\ DOMAIN list = S /\ \A i \in S : list[i] \in D
  OBVIOUS
<1>2. FoldLeft(LAMBDA kept, id : IF id \in faded THEN kept ELSE Append(kept, id), << >>, list) = F[S]
  BY <1>1 DEF FoldLeft, MapThenFoldSet
<1>3. \A s \in (SUBSET S) \ {{}} : c[s] = Max(s) /\ c[s] \in s
  BY <1>1, GreatestIs
<1>4. step \in [S \X Seq(D) -> Seq(D)]
  <2>1. ASSUME NEW i \in S, NEW kept \in Seq(D) PROVE op(kept, list[i]) \in Seq(D)
    BY <1>1, AppendProperties
  <2> HIDE DEF op
  <2> QED BY <2>1
<1>5. PICK G \in [SUBSET S -> Seq(D)] : Folds(G, S, << >>, step, c)
  <2>1. << >> \in Seq(D) /\ IsFiniteSet(S)
    BY <1>1, FS_Interval
  <2> HIDE DEF c, step, S
  <2> QED BY <1>3, <1>4, <2>1, FoldExists
<1>6. ASSUME NEW s \in SUBSET S PROVE G[s] = next(G, s)
  <2>1. CASE s = {}
    BY <1>5, <2>1 DEF Folds
  <2>2. CASE s # {}
    <3>1. PICK x : x = c[s] /\ x \in s /\ x = Max(s)
      BY <1>3, <2>2
    <3>2. G[s] = step[<<x, G[s \ {x}]>>]
      BY <1>5, <2>2, <3>1 DEF Folds
    <3>3. PICK v \in Seq(D) : v = G[s \ {x}]
      <4>1. s \ {x} \in SUBSET S
        OBVIOUS
      <4> QED BY <4>1
    <3>4. step[<<x, v>>] = op(v, list[x])
      <4> HIDE DEF op
      <4> QED BY <3>1
    <3> HIDE DEF op, step
    <3> QED BY <2>2, <3>1, <3>2, <3>3, <3>4
  <2> QED BY <2>1, <2>2
<1>7. F = [s \in SUBSET S |-> next(F, s)]
  <2>1. G = [s \in SUBSET S |-> next(G, s)]
    <3>1. G = [s \in SUBSET S |-> G[s]]
      BY <1>5
    <3> HIDE DEF next
    <3> QED BY <1>6, <3>1
  <2> HIDE DEF next
  <2> QED BY <2>1
<1> HIDE DEF F
<1>8. F[{}] = << >> /\ \A k \in S : F[1 .. k] = op(F[1 .. k - 1], list[k])
  <2>1. ASSUME NEW k \in S PROVE F[1 .. k] = op(F[1 .. k - 1], list[k])
    <3>1. 1 .. k \in SUBSET S /\ 1 .. k # {} /\ k \in 1 .. k
      BY <1>1
    <3>2. Max(1 .. k) = k
      <4>1. Max(1 .. k) \in 1 .. k /\ Max(1 .. k) >= k
        BY <1>1, <3>1, GreatestIs
      <4> QED BY <4>1
    <3>3. (1 .. k) \ {k} = 1 .. k - 1
      OBVIOUS
    <3>4. F[1 .. k] = next(F, 1 .. k)
      <4> HIDE DEF next
      <4> QED BY <1>7, <3>1
    <3> HIDE DEF op
    <3> QED BY <3>1, <3>2, <3>3, <3>4
  <2>2. F[{}] = << >>
    BY <1>7
  <2> QED BY <2>1, <2>2
<1> DEFINE before(k) == {i \in 1 .. k : list[i] \notin faded}
           kept(k) == F[1 .. k]
           AsPlaced(k) == \E p \in Seq(Int) :
                        /\ CountsOff(p, Len(p), before(k))
                        /\ kept(k) \in Seq(D) /\ Len(kept(k)) = Len(p)
                        /\ \A j \in 1 .. Len(p) : kept(k)[j] = list[p[j]]
           T == {k \in 0 .. n : AsPlaced(k)}
<1>9. 0 \in T
  <2>1. before(0) = {} /\ 1 .. 0 = {} /\ << >> \in Seq(D) /\ << >> \in Seq(Int) /\ Len(<< >>) = 0
    OBVIOUS
  <2>2. CountsOff(<< >>, 0, {})
    <3>1. << >> \in [1 .. 0 -> {}]
      OBVIOUS
    <3> QED BY <3>1 DEF CountsOff
  <2>3. kept(0) = << >>
    BY <1>8, <2>1
  <2> HIDE DEF before, kept
  <2>4. AsPlaced(0)
    <3> WITNESS << >> \in Seq(Int)
    <3> QED BY <2>1, <2>2, <2>3
  <2> QED BY <1>1, <2>4
<1>10. ASSUME NEW k \in 1 .. n, k - 1 \in T PROVE k \in T
  <2>1. PICK p \in Seq(Int) :
                        /\ CountsOff(p, Len(p), before(k - 1))
                        /\ kept(k - 1) \in Seq(D) /\ Len(kept(k - 1)) = Len(p)
                        /\ \A j \in 1 .. Len(p) : kept(k - 1)[j] = list[p[j]]
    <3> HIDE DEF before, kept
    <3> QED BY <1>10
  <2>2. kept(k) = op(kept(k - 1), list[k])
    BY <1>8
  <2>3. CASE list[k] \in faded
    <3>1. kept(k) = kept(k - 1)
      BY <2>2, <2>3
    <3>2. before(k) = before(k - 1)
      BY <2>3
    <3> HIDE DEF before, kept
    <3>3. AsPlaced(k)
      BY <2>1, <3>1, <3>2
    <3> HIDE DEF AsPlaced
    <3> QED BY <1>1, <3>3
  <2>4. CASE list[k] \notin faded
    <3>1. kept(k) = Append(kept(k - 1), list[k])
      BY <2>2, <2>4
    <3>2. before(k) = before(k - 1) \cup {k}
      BY <2>4
    <3>3. before(k - 1) \in SUBSET Int /\ \A other \in before(k - 1) : other < k
      OBVIOUS
    <3>4. Append(p, k) \in Seq(Int) /\ CountsOff(Append(p, k), Len(Append(p, k)), before(k))
      <4>1. PICK B : B = before(k - 1)
        OBVIOUS
      <4>2. B \in SUBSET Int /\ CountsOff(p, Len(p), B) /\ k \in Int /\ \A other \in B : other < k
        BY <2>1, <3>3, <4>1
      <4>3. Append(p, k) \in Seq(Int) /\ CountsOff(Append(p, k), Len(Append(p, k)), B \cup {k})
        BY ONLY <4>2, p \in Seq(Int), OneAppended
      <4> HIDE DEF before
      <4> QED BY <3>2, <4>1, <4>3
    <3> HIDE DEF before, kept
    <3>5. /\ kept(k) \in Seq(D) /\ Len(kept(k)) = Len(Append(p, k))
          /\ \A j \in 1 .. Len(Append(p, k)) : kept(k)[j] = list[Append(p, k)[j]]
      <4>1. PICK v \in Seq(D) : v = kept(k - 1)
        BY <2>1
      <4>2. kept(k) = Append(v, list[k]) /\ Len(v) = Len(p) /\ list[k] \in D /\ k \in Int
        BY <1>1, <2>1, <3>1, <4>1
      <4>3. /\ Append(v, list[k]) \in Seq(D) /\ Len(Append(v, list[k])) = Len(v) + 1
            /\ Append(v, list[k])[Len(v) + 1] = list[k]
            /\ \A j \in 1 .. Len(v) : Append(v, list[k])[j] = v[j]
        BY <4>2, AppendProperties
      <4>4. /\ Len(Append(p, k)) = Len(p) + 1 /\ Append(p, k)[Len(p) + 1] = k
            /\ \A j \in 1 .. Len(p) : Append(p, k)[j] = p[j]
        BY <4>2, AppendProperties
      <4>5. ASSUME NEW j \in 1 .. Len(p) + 1 PROVE kept(k)[j] = list[Append(p, k)[j]]
        <5>1. CASE j = Len(p) + 1
          BY <4>2, <4>3, <4>4, <5>1
        <5>2. CASE j \in 1 .. Len(p)
          BY <2>1, <4>1, <4>2, <4>3, <4>4, <5>2
        <5>3. Len(p) \in Nat
          OBVIOUS
        <5> QED BY <5>1, <5>2, <5>3
      <4> QED BY <4>2, <4>3, <4>4, <4>5
    <3>6. AsPlaced(k)
      <4> WITNESS Append(p, k) \in Seq(Int)
      <4> QED BY <3>4, <3>5
    <3> HIDE DEF AsPlaced
    <3> QED BY <1>1, <3>6
  <2> QED BY <2>3, <2>4
<1>11. n \in T
  <2> HIDE DEF T, n
  <2>1. 0 .. n \subseteq T
    BY <1>1, <1>9, <1>10, RoundsInduction
  <2> QED BY <1>1, <2>1
<1>12. PICK p \in Seq(Int) :
                        /\ CountsOff(p, Len(p), before(n))
                        /\ kept(n) \in Seq(D) /\ Len(kept(n)) = Len(p)
                        /\ \A j \in 1 .. Len(p) : kept(n)[j] = list[p[j]]
  <2> HIDE DEF before, kept
  <2> QED BY <1>11
<1>13. kept(n) = [k \in 1 .. Len(p) |-> list[p[k]]] /\ Len(p) \in Nat
  <2>1. PICK v \in Seq(D) : v = kept(n)
    BY <1>12
  <2>2. Len(v) = Len(p) /\ \A j \in 1 .. Len(p) : v[j] = list[p[j]]
    BY <1>12, <2>1
  <2>3. v = [k \in 1 .. Len(v) |-> v[k]]
    OBVIOUS
  <2>4. v = [k \in 1 .. Len(p) |-> list[p[k]]]
    BY <2>2, <2>3
  <2> HIDE DEF kept
  <2> QED BY <2>1, <2>4
<1>14. before(n) = (1 .. n) \ {i \in 1 .. n : list[i] \in faded}
  OBVIOUS
<1> HIDE DEF before
<1>15. KeepsTheOthers(kept(n), list, {i \in 1 .. n : list[i] \in faded})
  <2>1. CountsOff(p, Len(p), (1 .. n) \ {i \in 1 .. n : list[i] \in faded})
    BY <1>12, <1>14
  <2> HIDE DEF kept
  <2> QED BY <1>13, <2>1 DEF KeepsTheOthers
<1> QED BY <1>2, <1>15 DEF kept

(* The loop leaves of any outputs the ones that a single pass over them    *)
(* keeps, in their order (grn.cpp:162-178): the property that MCAlgorithms *)
(* checks for short lists, for all of them.                                *)
THEOREM KeptOutputsStay ==
    ASSUME NEW D, input.outputs \in Seq(D)
    PROVE  OutputsAreKept
<1> DEFINE list == input.outputs
           faded == input.faded
           gone == {i \in 1 .. Len(list) : list[i] \in faded}
           kept == FoldLeft(LAMBDA k, id : IF id \in faded THEN k ELSE Append(k, id), << >>, list)
<1>1. list \in Seq(D)
  OBVIOUS
<1>2. KeepsTheOthers(Erased(list, faded), list, gone)
  <2> HIDE DEF list, faded
  <2> QED BY <1>1, OnlyTheFadedAreErased
<1>3. KeepsTheOthers(kept, list, gone)
  <2> HIDE DEF list, faded
  <2> QED BY <1>1, KeptIs
<1>4. Erased(list, faded) = kept
  <2> HIDE DEF kept, list, faded
  <2>1. PICK n \in Nat : \E p : /\ CountsOff(p, n, (1 .. Len(list)) \ gone)
                               /\ Erased(list, faded) = [k \in 1 .. n |-> list[p[k]]]
    BY <1>2 DEF KeepsTheOthers
  <2>2. PICK m \in Nat : \E q : /\ CountsOff(q, m, (1 .. Len(list)) \ gone)
                               /\ kept = [k \in 1 .. m |-> list[q[k]]]
    BY <1>3 DEF KeepsTheOthers
  <2>3. (1 .. Len(list)) \ gone \in SUBSET Int
    OBVIOUS
  <2>4. PICK p : /\ CountsOff(p, n, (1 .. Len(list)) \ gone)
                 /\ Erased(list, faded) = [k \in 1 .. n |-> list[p[k]]]
    BY <2>1
  <2>5. PICK q : /\ CountsOff(q, m, (1 .. Len(list)) \ gone)
                 /\ kept = [k \in 1 .. m |-> list[q[k]]]
    BY <2>2
  <2> HIDE DEF gone
  <2>6. n = m /\ p = q
    BY <2>3, <2>4, <2>5, PlacesInOneWay
  <2> QED BY <2>4, <2>5, <2>6
<1> QED BY <1>4 DEF OutputsAreKept

(***************************************************************************)
(* The draw of an instruction                                              *)
(***************************************************************************)
(* The sum of weights, folded in an order that CHOOSE picks, is that of    *)
(* any order: taking any bucket away takes its weight away.                *)
SumOf(w, S) == MapThenSumSet(LAMBDA b : w[b], S)

LEMMA SumAdds ==
    ASSUME NEW S, IsFiniteSet(S), NEW w \in [S -> Nat]
    PROVE  /\ SumOf(w, {}) = 0
           /\ \A T \in SUBSET S : /\ SumOf(w, T) \in Nat
                                  /\ \A x \in T : SumOf(w, T) = w[x] + SumOf(w, T \ {x})
<1> DEFINE c == [s \in (SUBSET S) \ {{}} |-> CHOOSE x \in s : TRUE]
           step == [p \in S \X Nat |-> w[p[1]] + p[2]]
           next(f, s) == IF s = {} THEN 0 ELSE w[CHOOSE x \in s : TRUE] + f[s \ {CHOOSE x \in s : TRUE}]
           iter(T) == CHOOSE f : f = [s \in SUBSET T |-> next(f, s)]
<1>1. \A s \in (SUBSET S) \ {{}} : c[s] = (CHOOSE x \in s : TRUE) /\ c[s] \in s
  OBVIOUS
<1>2. step \in [S \X Nat -> Nat]
  OBVIOUS
<1>3. PICK G \in [SUBSET S -> Nat] : Folds(G, S, 0, step, c)
  <2> HIDE DEF c, step
  <2> QED BY <1>1, <1>2, FoldExists
<1>4. ASSUME NEW s \in SUBSET S PROVE G[s] = next(G, s)
  <2>1. CASE s = {}
    BY <1>3, <2>1 DEF Folds
  <2>2. CASE s # {}
    <3>1. PICK x : x = c[s] /\ x \in s /\ x = CHOOSE y \in s : TRUE
      BY <1>1, <2>2
    <3>2. s \ {x} \in SUBSET S /\ x \in S
      BY <3>1
    <3>3. G[s] = step[<<x, G[s \ {x}]>>]
      BY <1>3, <2>2, <3>1 DEF Folds
    <3>4. G[s] = w[x] + G[s \ {x}]
      <4> HIDE DEF c
      <4>1. PICK v \in Nat : v = G[s \ {x}]
        BY <3>2
      <4>2. step[<<x, v>>] = w[x] + v
        BY <3>2
      <4> QED BY <3>3, <4>1, <4>2
    <3> QED BY <2>2, <3>1, <3>4
  <2> QED BY <2>1, <2>2
<1> HIDE DEF step
<1>5. ASSUME NEW T \in SUBSET S PROVE SumOf(w, T) = G[T]
  <2> DEFINE F == iter(T)
  <2>1. SumOf(w, T) = F[T]
    BY DEF SumOf, MapThenSumSet, MapThenFoldSet
  <2>2. \E f : f = [s \in SUBSET T |-> next(f, s)]
    <3> DEFINE f == [s \in SUBSET T |-> G[s]]
    <3>1. ASSUME NEW s \in SUBSET T PROVE f[s] = next(f, s)
      <4>1. s \in SUBSET S /\ f[s] = G[s]
        OBVIOUS
      <4>2. s # {} => (CHOOSE x \in s : TRUE) \in s
        BY <1>1, <4>1
      <4>3. s # {} => f[s \ {CHOOSE x \in s : TRUE}] = G[s \ {CHOOSE x \in s : TRUE}]
        BY <4>2
      <4> HIDE DEF f
      <4> QED BY <1>4, <4>1, <4>3
    <3>2. f = [s \in SUBSET T |-> f[s]]
      OBVIOUS
    <3> HIDE DEF f, next
    <3> QED BY <3>1, <3>2
  <2>3. F = [s \in SUBSET T |-> next(F, s)]
    <3> HIDE DEF next
    <3> QED BY <2>2
  <2>4. IsFiniteSet(T) /\ T \subseteq S /\ \A s \in (SUBSET T) \ {{}} : c[s] \in s
    BY <1>1, FS_Subset
  <2> HIDE DEF F
  <2>5. F[{}] = G[{}]
    BY <1>4, <2>3
  <2>6. ASSUME NEW s \in (SUBSET T) \ {{}}, F[s \ {c[s]}] = G[s \ {c[s]}] PROVE F[s] = G[s]
    <3>1. s \in (SUBSET S) \ {{}} /\ F[s] = next(F, s) /\ G[s] = next(G, s)
      <4> HIDE DEF next
      <4> QED BY <1>4, <2>3
    <3>2. c[s] = CHOOSE x \in s : TRUE
      BY <1>1, <3>1
    <3> QED BY <2>6, <3>1, <3>2
  <2>7. \A s \in SUBSET T : F[s] = G[s]
    <3>1. \A s \in (SUBSET T) \ {{}} : F[s \ {c[s]}] = G[s \ {c[s]}] => F[s] = G[s]
      BY <2>6
    <3> HIDE DEF c
    <3> QED BY ONLY <2>4, <2>5, <3>1, FoldUnique
  <2> QED BY <2>1, <2>7
<1> DEFINE Adds(s) == \A x \in s : G[s] = w[x] + G[s \ {x}]
           A == {s \in SUBSET S : Adds(s)}
<1>6. ASSUME NEW s \in SUBSET S, \A u \in SUBSET s : u # s => u \in A PROVE s \in A
  <2> SUFFICES ASSUME NEW x \in s PROVE G[s] = w[x] + G[s \ {x}]
    OBVIOUS
  <2>1. PICK y : y = c[s] /\ y \in s
    BY <1>1
  <2>2. G[s] = w[y] + G[s \ {y}]
    BY <1>1, <1>4, <2>1
  <2>3. CASE x = y
    BY <2>2, <2>3
  <2>4. CASE x # y
    <3>1. s \ {y} \in A /\ x \in s \ {y}
      BY <1>6, <2>1, <2>4
    <3>2. s \ {x} \in A /\ y \in s \ {x}
      BY <1>6, <2>1, <2>4
    <3>3. (s \ {y}) \ {x} = (s \ {x}) \ {y}
      OBVIOUS
    <3>4. PICK rest : rest = (s \ {x}) \ {y}
      OBVIOUS
    <3>5. G[s \ {y}] = w[x] + G[rest]
      BY <3>1, <3>3, <3>4
    <3>6. G[s \ {x}] = w[y] + G[rest]
      BY <3>2, <3>4
    <3>7. x \in S /\ y \in S /\ rest \in SUBSET S
      BY <2>1, <3>4
    <3>8. w[x] \in Nat /\ w[y] \in Nat /\ G[rest] \in Nat
      BY <3>7
    <3> QED BY <2>2, <3>5, <3>6, <3>8
  <2> QED BY <2>3, <2>4
<1>7. SUBSET S \subseteq A
  <2> HIDE DEF A
  <2> QED BY <1>6, SubsetInduction
<1>8. SumOf(w, {}) = 0
  BY <1>4, <1>5
<1>9. ASSUME NEW T \in SUBSET S, NEW x \in T PROVE SumOf(w, T) = w[x] + SumOf(w, T \ {x})
  <2>1. T \in A /\ T \ {x} \in SUBSET S
    BY <1>7
  <2> QED BY <1>5, <2>1
<1> QED BY <1>5, <1>8, <1>9

LEMMA SumTaken ==
    ASSUME NEW S, IsFiniteSet(S), NEW w \in [S -> Nat], NEW T \in SUBSET S, NEW x \in T
    PROVE  SumOf(w, T) = w[x] + SumOf(w, T \ {x})
<1> QED BY SumAdds

(* The weights that sample() has passed before each bucket, and where it   *)
(* stops.                                                                  *)
Passes(passed, n, weights) ==
    passed[0] = 0 /\ \A k \in 1 .. n : passed[k] = passed[k - 1] + weights[k]
Stops(passed, n, spin) == {k \in 1 .. n : spin <= passed[k - 1]}
FirstStop(stops) == IF stops = {} THEN 0 ELSE CHOOSE k \in stops : \A j \in stops : k <= j

(* sample() stops at the first bucket that the weights passed before it    *)
(* bring to the spin, and at none when there is no such bucket.            *)
LEMMA SampleIs ==
    ASSUME NEW n \in Nat, NEW weights \in [1 .. n -> Nat]
    PROVE  \E passed \in [0 .. n -> Nat] :
             /\ Passes(passed, n, weights)
             /\ \A spin : Sample(weights, spin) = FirstStop(Stops(passed, n, spin))
<1> DEFINE next(f, k) == IF k = 0 THEN 0 ELSE f[k - 1] + weights[k]
           step == [at \in (1 .. n) \X Nat |-> at[2] + weights[at[1]]]
           passed == CHOOSE f : f = [k \in 0 .. n |-> next(f, k)]
<1>1. Len(weights) = n
  OBVIOUS
<1>2. \A spin : Sample(weights, spin) = FirstStop(Stops(passed, n, spin))
  BY <1>1 DEF Sample, FirstStop, Stops
<1>3. step \in [(1 .. n) \X Nat -> Nat]
  OBVIOUS
<1>4. PICK run \in [0 .. n -> Nat] : Rounds(n, 0, step, run)
  <2> HIDE DEF step
  <2> QED BY <1>3, RunExists
<1>5. ASSUME NEW k \in 1 .. n PROVE run[k] = run[k - 1] + weights[k]
  <2>1. run[k] = step[<<k, run[k - 1]>>] /\ k - 1 \in 0 .. n
    <3> HIDE DEF step
    <3> QED BY <1>4 DEF Rounds
  <2>2. PICK v \in Nat : v = run[k - 1]
    BY <2>1
  <2> QED BY <2>1, <2>2
<1>6. run[0] = 0
  BY <1>4 DEF Rounds
<1>7. run = [k \in 0 .. n |-> next(run, k)]
  <2>1. ASSUME NEW k \in 0 .. n PROVE run[k] = next(run, k)
    <3>1. CASE k = 0
      BY <1>6, <3>1
    <3>2. CASE k \in 1 .. n
      BY <1>5, <3>2
    <3> QED BY <3>1, <3>2
  <2> HIDE DEF next
  <2> QED BY <2>1
<1>8. passed = [k \in 0 .. n |-> next(passed, k)]
  <2> HIDE DEF next
  <2> QED BY <1>7
<1> HIDE DEF passed, step
<1>9. Passes(passed, n, weights)
  <2>1. 0 \in 0 .. n /\ \A k \in 1 .. n : k \in 0 .. n /\ k # 0
    OBVIOUS
  <2> QED BY <1>8, <2>1 DEF Passes
<1>10. passed \in [0 .. n -> Nat]
  <2> DEFINE T == {k \in 0 .. n : passed[k] \in Nat}
  <2>1. 0 \in T
    BY <1>9 DEF Passes
  <2>2. ASSUME NEW k \in 1 .. n, k - 1 \in T PROVE k \in T
    BY <1>9, <2>2 DEF Passes
  <2> HIDE DEF T
  <2>3. 0 .. n \subseteq T
    BY <2>1, <2>2, RoundsInduction
  <2>4. \A k \in 0 .. n : passed[k] \in Nat
    BY <2>3 DEF T
  <2>5. passed = [k \in 0 .. n |-> passed[k]]
    BY <1>8
  <2> QED BY <2>4, <2>5
<1> QED BY <1>2, <1>9, <1>10

LEMMA FirstStopIs ==
    ASSUME NEW n \in Nat, NEW T \in SUBSET (1 .. n)
    PROVE  /\ FirstStop(T) \in 0 .. n
           /\ FirstStop(T) = 0 <=> T = {}
           /\ 1 \in T => FirstStop(T) = 1
<1>1. CASE T = {}
  BY <1>1 DEF FirstStop
<1>2. CASE T # {}
  <2> DEFINE first == CHOOSE k \in T : \A j \in T : k <= j
  <2>1. T \in SUBSET Nat /\ \A j \in T : 1 <= j
    OBVIOUS
  <2>2. \E k \in T : \A j \in T : k <= j
    BY <1>2, <2>1, NatMinimum
  <2>3. first \in T /\ \A j \in T : first <= j
    BY <2>2
  <2>4. FirstStop(T) = first
    BY <1>2 DEF FirstStop
  <2> HIDE DEF first
  <2>5. first \in 1 .. n /\ first \in 0 .. n /\ first # 0
    BY <2>3
  <2>6. 1 \in T => first = 1
    BY <2>1, <2>3, <2>5
  <2>7. FirstStop(T) \in 0 .. n /\ FirstStop(T) # 0
    BY <2>4, <2>5
  <2> QED BY <1>2, <2>4, <2>6, <2>7
<1> QED BY <1>1, <1>2

(* The weights passed before a bucket are the sum of those in front of it, *)
(* in every order of the buckets.                                          *)
LEMMA PassedSums ==
    ASSUME NEW S, IsFiniteSet(S), NEW w \in [S -> Nat], NEW n \in Nat, NEW order \in Bijection(1 .. n, S),
           NEW passed \in [0 .. n -> Nat], Passes(passed, n, [i \in 1 .. n |-> w[order[i]]])
    PROVE  \A k \in 0 .. n : passed[k] = SumOf(w, {order[i] : i \in 1 .. k})
<1> DEFINE first(k) == {order[i] : i \in 1 .. k}
           T == {k \in 0 .. n : passed[k] = SumOf(w, first(k))}
<1>1. SumOf(w, {}) = 0
  BY SumAdds
<1>2. order \in [1 .. n -> S] /\ \A i, j \in 1 .. n : order[i] = order[j] => i = j
  BY DEF Bijection, Injection, IsInjective
<1>3. 0 \in T
  <2>1. first(0) = {} /\ passed[0] = 0
    BY DEF Passes
  <2>2. passed[0] = SumOf(w, first(0))
    BY <1>1, <2>1
  <2> QED BY <2>2
<1>4. ASSUME NEW k \in 1 .. n, k - 1 \in T PROVE k \in T
  <2>1. first(k) \in SUBSET S /\ order[k] \in first(k) /\ order[k] \in S
    BY <1>2
  <2>2. first(k) \ {order[k]} = first(k - 1)
    <3>1. ASSUME NEW i \in 1 .. k, order[i] # order[k] PROVE i \in 1 .. k - 1
      BY <3>1
    <3>2. ASSUME NEW i \in 1 .. k - 1 PROVE i \in 1 .. k /\ order[i] # order[k]
      BY <1>2
    <3> QED BY <3>1, <3>2
  <2> HIDE DEF first
  <2>3. PICK U, x : U = first(k) /\ x = order[k]
    OBVIOUS
  <2>4. SumOf(w, U) = w[x] + SumOf(w, U \ {x})
    <3>1. U \in SUBSET S /\ x \in U
      BY <2>1, <2>3
    <3> QED BY ONLY <3>1, SumTaken, IsFiniteSet(S), w \in [S -> Nat]
  <2>5. passed[k] = passed[k - 1] + w[x] /\ k - 1 \in 0 .. n
    BY <2>3 DEF Passes
  <2>6. passed[k - 1] \in Nat /\ w[x] \in Nat /\ passed[k - 1] = SumOf(w, U \ {x})
    BY <1>4, <2>1, <2>2, <2>3, <2>5
  <2>7. passed[k] = SumOf(w, first(k))
    BY <2>3, <2>4, <2>5, <2>6
  <2> QED BY <2>7
<1>5. 0 .. n \subseteq T
  <2> HIDE DEF T
  <2> QED BY <1>3, <1>4, RoundsInduction
<1> QED BY <1>5

LEMMA PassedGrows ==
    ASSUME NEW n \in Nat, NEW weights \in [1 .. n -> Nat],
           NEW passed \in [0 .. n -> Nat], Passes(passed, n, weights)
    PROVE  \A k \in 0 .. n : \A j \in 0 .. k : passed[j] <= passed[k]
<1> DEFINE T == {k \in 0 .. n : \A j \in 0 .. k : passed[j] <= passed[k]}
<1>1. 0 \in T
  OBVIOUS
<1>2. ASSUME NEW k \in 1 .. n, k - 1 \in T PROVE k \in T
  <2> SUFFICES ASSUME NEW j \in 0 .. k PROVE passed[j] <= passed[k]
    OBVIOUS
  <2>1. passed[k] = passed[k - 1] + weights[k] /\ k - 1 \in 0 .. n /\ weights[k] \in Nat
    BY DEF Passes
  <2>2. j = k \/ j \in 0 .. k - 1
    OBVIOUS
  <2>3. passed[j] \in Nat /\ passed[k - 1] \in Nat /\ passed[k] \in Nat
    BY <2>1
  <2> QED BY <1>2, <2>1, <2>2, <2>3
<1>3. 0 .. n \subseteq T
  <2> HIDE DEF T
  <2> QED BY <1>1, <1>2, RoundsInduction
<1> QED BY <1>3

(* The buckets of S can be put in an order with any of them at any place.  *)
LEMMA OrdersExist ==
    ASSUME NEW S, IsFiniteSet(S), NEW n \in Nat, n = Cardinality(S), NEW a \in 1 .. n, NEW b \in S
    PROVE  \E order \in Bijection(1 .. n, S) : order[a] = b
<1>1. PICK g : g \in Bijection(1 .. n, S)
  BY FS_CardinalityType DEF ExistsBijection
<1>2. g \in [1 .. n -> S] /\ (\A i, j \in 1 .. n : g[i] = g[j] => i = j) /\ \A x \in S : \E i \in 1 .. n : g[i] = x
  BY <1>1 DEF Bijection, Injection, Surjection, IsInjective
<1> DEFINE order == [i \in 1 .. n |-> IF i = a THEN b ELSE IF g[i] = b THEN g[a] ELSE g[i]]
<1>3. order \in [1 .. n -> S] /\ order[a] = b
  BY <1>2
<1>4. ASSUME NEW i \in 1 .. n, NEW j \in 1 .. n, order[i] = order[j] PROVE i = j
  BY <1>2, <1>4
<1>5. ASSUME NEW x \in S PROVE \E i \in 1 .. n : order[i] = x
  <2>1. PICK i \in 1 .. n : g[i] = x
    BY <1>2
  <2>2. PICK j \in 1 .. n : g[j] = b
    BY <1>2
  <2>3. CASE x = b
    BY <1>3, <2>3
  <2>4. CASE x # b /\ i # a
    BY <2>1, <2>4
  <2>5. CASE x # b /\ i = a
    <3>1. j # a
      BY <2>1, <2>2, <2>5
    <3>2. order[j] = g[a]
      BY <2>2, <3>1
    <3> HIDE DEF order
    <3> QED BY <2>1, <2>5, <3>2
  <2> QED BY <2>3, <2>4, <2>5
<1> HIDE DEF order
<1> QED BY <1>3, <1>4, <1>5 DEF Bijection, Injection, Surjection, IsInjective

(* What the loop draws over every order of n buckets, which is that of     *)
(* heap addresses, and every spin.                                         *)
LoopDrawn(n, S, w, spins, Nothing) ==
    {LET k == Sample([i \in 1 .. n |-> w[run[1][i]]], run[2])
     IN IF k = 0 THEN Nothing ELSE run[1][k] : run \in Bijection(1 .. n, S) \X (0 .. spins - 1)}

LEMMA LoopDraws ==
    ASSUME NEW S, IsFiniteSet(S), S # {}, NEW w \in [S -> Nat], NEW spins \in Nat \ {0}, NEW Nothing,
           NEW n \in Nat, n = Cardinality(S)
    PROVE  LoopDrawn(n, S, w, spins, Nothing) = Drawn(S, w, spins, Nothing)
<1> DEFINE weighed(order) == [i \in 1 .. n |-> w[order[i]]]
           drawn(order, spin) == LET k == Sample(weighed(order), spin) IN IF k = 0 THEN Nothing ELSE order[k]
           Orders == Bijection(1 .. n, S)
           Rest(last) == SumOf(w, S \ {last})
           None0 == {Nothing : last \in {id \in S : Rest(id) < spins - 1}}
<1>0. n # 0
  BY FS_EmptySet
<1>1. Drawn(S, w, spins, Nothing) = S \cup None0
  BY DEF Drawn, SumOf
<1>2. ASSUME NEW order \in Orders
      PROVE  /\ order \in [1 .. n -> S]
             /\ \A spin : Sample(weighed(order), spin) \in 0 .. n
             /\ Sample(weighed(order), 0) = 1
             /\ \A spin \in Nat : Sample(weighed(order), spin) = 0 <=> Rest(order[n]) < spin
  <2>1. /\ order \in [1 .. n -> S]
        /\ \A i, j \in 1 .. n : order[i] = order[j] => i = j
        /\ \A x \in S : \E i \in 1 .. n : order[i] = x
    BY DEF Bijection, Injection, Surjection, IsInjective
  <2>2. weighed(order) \in [1 .. n -> Nat]
    BY <2>1
  <2>3. PICK passed \in [0 .. n -> Nat] :
           /\ Passes(passed, n, weighed(order))
           /\ \A spin : Sample(weighed(order), spin) = FirstStop(Stops(passed, n, spin))
    <3> HIDE DEF weighed
    <3> QED BY <2>2, SampleIs
  <2>4. \A k \in 0 .. n : passed[k] = SumOf(w, {order[i] : i \in 1 .. k})
    <3>1. Passes(passed, n, [i \in 1 .. n |-> w[order[i]]])
      BY <2>3
    <3> QED BY ONLY <3>1, PassedSums, IsFiniteSet(S), w \in [S -> Nat], n \in Nat,
                    order \in Bijection(1 .. n, S), passed \in [0 .. n -> Nat]
  <2>5. \A k \in 0 .. n : \A j \in 0 .. k : passed[j] <= passed[k]
    <3> HIDE DEF weighed
    <3> QED BY <2>2, <2>3, PassedGrows
  <2> HIDE DEF weighed
  <2>6. \A spin : Stops(passed, n, spin) \in SUBSET (1 .. n)
    BY DEF Stops
  <2>7. 1 \in Stops(passed, n, 0)
    <3>1. passed[0] = 0 /\ 1 \in 1 .. n /\ 1 - 1 = 0
      BY <1>0, <2>3 DEF Passes
    <3> QED BY <3>1 DEF Stops
  <2>8. ASSUME NEW spin \in Nat PROVE Stops(passed, n, spin) = {} <=> passed[n - 1] < spin
    <3>1. n - 1 \in 0 .. n /\ n \in 1 .. n /\ \A k \in 1 .. n : k - 1 \in 0 .. n - 1 /\ k - 1 \in 0 .. n
      BY <1>0
    <3>2. \A k \in 1 .. n : passed[k - 1] <= passed[n - 1] /\ passed[k - 1] \in Nat /\ passed[n - 1] \in Nat
      BY <2>5, <3>1
    <3>3. ASSUME passed[n - 1] < spin, NEW k \in 1 .. n PROVE ~ (spin <= passed[k - 1])
      BY <3>2, <3>3
    <3>4. ASSUME ~ (passed[n - 1] < spin) PROVE n \in Stops(passed, n, spin)
      BY <3>1, <3>2, <3>4 DEF Stops
    <3> QED BY <3>3, <3>4 DEF Stops
  <2>9. passed[n - 1] = Rest(order[n])
    <3>1. n - 1 \in 0 .. n /\ n \in 1 .. n
      BY <1>0
    <3>2. {order[i] : i \in 1 .. n - 1} = S \ {order[n]}
      <4>1. ASSUME NEW j \in S \ {order[n]} PROVE \E i \in 1 .. n - 1 : order[i] = j
        <5>1. PICK i \in 1 .. n : order[i] = j
          BY <2>1
        <5>2. i # n
          BY <5>1
        <5> QED BY <5>1, <5>2
      <4>2. ASSUME NEW i \in 1 .. n - 1 PROVE order[i] \in S \ {order[n]}
        <5>1. i \in 1 .. n /\ i # n
          OBVIOUS
        <5> QED BY <2>1, <3>1, <5>1
      <4> QED BY <4>1, <4>2
    <3> QED BY <2>4, <3>1, <3>2
  <2>10. \A spin : Sample(weighed(order), spin) \in 0 .. n
    BY <2>3, <2>6, FirstStopIs
  <2>11. Sample(weighed(order), 0) = 1
    BY <2>3, <2>6, <2>7, FirstStopIs
  <2>12. ASSUME NEW spin \in Nat PROVE Sample(weighed(order), spin) = 0 <=> Rest(order[n]) < spin
    <3>1. Sample(weighed(order), spin) = 0 <=> Stops(passed, n, spin) = {}
      BY <2>3, <2>6, FirstStopIs
    <3> QED BY <2>8, <2>9, <3>1
  <2> HIDE DEF Rest
  <2> QED BY <2>1, <2>10, <2>11, <2>12
<1> HIDE DEF weighed
<1>3. ASSUME NEW b \in S PROVE \E order \in Orders, spin \in 0 .. spins - 1 : drawn(order, spin) = b
  <2>1. PICK order \in Orders : order[1] = b
    <3>1. 1 \in 1 .. n
      BY <1>0
    <3> QED BY <3>1, OrdersExist
  <2>2. Sample(weighed(order), 0) = 1
    <3> HIDE DEF Orders
    <3> QED BY <1>2
  <2>3. 0 \in 0 .. spins - 1
    OBVIOUS
  <2> QED BY <2>1, <2>2, <2>3
<1>4. ASSUME NEW last \in S, Rest(last) < spins - 1
      PROVE  \E order \in Orders, spin \in 0 .. spins - 1 : drawn(order, spin) = Nothing
  <2>1. PICK order \in Orders : order[n] = last
    <3>1. n \in 1 .. n
      BY <1>0
    <3> QED BY <3>1, OrdersExist
  <2>2. spins - 1 \in 0 .. spins - 1 /\ spins - 1 \in Nat
    OBVIOUS
  <2>3. Sample(weighed(order), spins - 1) = 0
    BY <1>2, <1>4, <2>1, <2>2
  <2> QED BY <2>2, <2>3
<1>5. ASSUME NEW order \in Orders, NEW spin \in 0 .. spins - 1 PROVE drawn(order, spin) \in S \cup None0
  <2>1. PICK k \in 0 .. n : k = Sample(weighed(order), spin)
    BY <1>2
  <2>2. CASE k = 0
    <3>1. spin \in Nat /\ spin <= spins - 1
      OBVIOUS
    <3>2. order[n] \in S
      <4>1. n \in 1 .. n
        BY <1>0
      <4>2. order \in [1 .. n -> S]
        BY <1>2
      <4> QED BY <4>1, <4>2
    <3>3. Rest(order[n]) < spin /\ Rest(order[n]) \in Nat
      <4>1. Rest(order[n]) < spin
        BY <1>2, <2>1, <2>2, <3>1
      <4>2. S \ {order[n]} \in SUBSET S
        OBVIOUS
      <4>3. Rest(order[n]) \in Nat
        BY <4>2, SumAdds
      <4> QED BY <4>1, <4>3
    <3>4. Rest(order[n]) < spins - 1
      BY <3>1, <3>3
    <3> QED BY <2>1, <2>2, <3>2, <3>4
  <2>3. CASE k # 0
    <3>1. k \in 1 .. n
      BY <2>3
    <3>2. order \in [1 .. n -> S]
      BY <1>2
    <3> QED BY <2>1, <2>3, <3>1, <3>2
  <2> QED BY <2>2, <2>3
<1>6. \A x \in S \cup None0 : \E order \in Orders, spin \in 0 .. spins - 1 : drawn(order, spin) = x
  <2>1. \A x \in None0 : x = Nothing /\ \E last \in S : Rest(last) < spins - 1
    OBVIOUS
  <2> HIDE DEF drawn, Orders, None0, Rest
  <2> QED BY <1>3, <1>4, <2>1
<1> DEFINE result == [run \in Orders \X (0 .. spins - 1) |-> drawn(run[1], run[2])]
<1> HIDE DEF drawn, Orders, None0
<1>7. {drawn(run[1], run[2]) : run \in Orders \X (0 .. spins - 1)}
        = {result[run] : run \in Orders \X (0 .. spins - 1)}
  OBVIOUS
<1>8. \A order \in Orders : \A spin \in 0 .. spins - 1 : result[<<order, spin>>] = drawn(order, spin)
  OBVIOUS
<1> HIDE DEF result
<1>9. ASSUME NEW x \in S \cup None0 PROVE \E run \in Orders \X (0 .. spins - 1) : result[run] = x
  <2>1. PICK order \in Orders, spin \in 0 .. spins - 1 : drawn(order, spin) = x
    BY <1>6
  <2>2. result[<<order, spin>>] = x /\ <<order, spin>> \in Orders \X (0 .. spins - 1)
    BY <1>8, <2>1
  <2> QED BY <2>2
<1>10. ASSUME NEW run \in Orders \X (0 .. spins - 1) PROVE result[run] \in S \cup None0
  <2>1. PICK order \in Orders, spin \in 0 .. spins - 1 : run = <<order, spin>>
    OBVIOUS
  <2> QED BY <1>5, <1>8, <2>1
<1>11. {result[run] : run \in Orders \X (0 .. spins - 1)} = S \cup None0
  BY <1>9, <1>10
<1>12. {drawn(run[1], run[2]) : run \in Orders \X (0 .. spins - 1)} = Drawn(S, w, spins, Nothing)
  BY <1>1, <1>7, <1>11
<1> QED BY <1>12 DEF LoopDrawn, drawn, Orders, weighed

(* Over every order of the buckets and every spin, the loop of sample()    *)
(* draws what the closed form used by RegSim says, for any number of       *)
(* buckets, all their weights and any number of spins                      *)
(* (instr_dist.cpp:33-49, protein.cpp:55-61).                              *)
THEOREM SamplesAreDrawn ==
    ASSUME NEW n \in Nat, Spins \in Nat \ {0}, input.weights \in [1 .. n -> Nat]
    PROVE  DrawsAsTheLoop
<1> DEFINE w == input.weights
           buckets == DOMAIN w
           drawn(S, order, spin) == LET k == Sample([i \in S |-> w[order[i]]], spin)
                                    IN IF k = 0 THEN 0 ELSE order[k]
           all(S) == {drawn(S, run[1], run[2]) : run \in Bijection(S, S) \X (0 .. Spins - 1)}
<1>0. buckets = 1 .. n /\ w \in [1 .. n -> Nat] /\ w \in [buckets -> Nat]
  OBVIOUS
<1> HIDE DEF w
<1>1. all(buckets) \ (IF buckets = {} THEN {0} ELSE {}) = Drawn(buckets, w, Spins, 0)
  <2>1. CASE n # 0
    <3>1. 1 \in buckets /\ 0 \notin buckets
      BY <1>0, <2>1
    <3>2. PICK S : S = buckets
      OBVIOUS
    <3>3. IsFiniteSet(buckets) /\ Cardinality(buckets) = n
      BY <1>0, FS_Interval
    <3>4. w \in [S -> Nat] /\ S # {}
      BY <1>0, <3>1, <3>2
    <3>5. LoopDrawn(n, S, w, Spins, 0) = Drawn(S, w, Spins, 0)
      <4>1. IsFiniteSet(S) /\ n = Cardinality(S)
        BY <3>2, <3>3
      <4> QED BY ONLY <3>4, <4>1, LoopDraws, Spins \in Nat \ {0}, n \in Nat
    <3>6. LoopDrawn(n, buckets, w, Spins, 0) = all(buckets)
      BY <1>0 DEF LoopDrawn
    <3>7. all(buckets) = Drawn(buckets, w, Spins, 0)
      BY <3>2, <3>5, <3>6
    <3> HIDE DEF all
    <3> QED BY <3>1, <3>7
  <2>2. CASE n = 0
    <3>1. PICK passed \in [0 .. n -> Nat] : \A spin : Sample(w, spin) = FirstStop(Stops(passed, n, spin))
      BY <1>0, SampleIs
    <3>2. \A spin : Stops(passed, n, spin) = {}
      BY <2>2 DEF Stops
    <3>3. \A spin : Sample(w, spin) = 0
      BY <3>1, <3>2 DEF FirstStop
    <3>4. buckets = {}
      BY <1>0, <2>2
    <3>5. \A order : [i \in buckets |-> w[order[i]]] = w
      BY <1>0, <3>4
    <3>6. \A order, spin : drawn(buckets, order, spin) = 0
      BY <3>3, <3>5
    <3> HIDE DEF drawn
    <3>7. \A x \in all(buckets) : x = 0
      BY <3>6
    <3>8. Drawn(buckets, w, Spins, 0) = {}
      BY <3>4 DEF Drawn
    <3> HIDE DEF all
    <3> QED BY <3>4, <3>7, <3>8
  <2> QED BY <2>1, <2>2
<1> QED BY <1>1 DEF w, buckets, drawn, all, DrawsAsTheLoop
=============================================================================
