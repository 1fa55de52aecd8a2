------------------------------ MODULE Diffusion ------------------------------
(***************************************************************************)
(* One diffusion step of a protein along the chromosome (diffusion.cpp).   *)
(*                                                                         *)
(* A protein has one concentration per gene position.  A concentration is  *)
(* a float of [0, max_protein_conc] in the program; here it is a whole     *)
(* number of levels of 0..MaxConc, and F = 0.3 is 3/10, rounded down, so a *)
(* model run loses at most one level more than the code does.              *)
(***************************************************************************)
EXTENDS Integers

CONSTANTS
    NumGenes,   \* run->num_genes
    MaxConc,    \* run->max_protein_conc, in levels
    MinConc     \* run->min_protein_conc, in levels

(* diffuse() reads prev_concs[1] and prev_concs[num_genes - 2], so a       *)
(* chromosome has at least two positions.                                  *)
ASSUME DiffusionAssumption ==
    /\ NumGenes \in Nat /\ NumGenes >= 2
    /\ MaxConc \in Nat
    /\ MinConc \in Nat

Genes == 0 .. NumGenes - 1
Concs == [Genes -> 0 .. MaxConc]

(* What sits beside position p: nothing flows in from outside the chain.   *)
(* (X_Fault is X, defined after it, as a plausible bug would have it: here *)
(* the ends of the chain reflect.)                                         *)
Beside_Fault(concs, p) ==
    IF p \in Genes THEN concs[p] ELSE IF p < 0 THEN concs[0] ELSE concs[NumGenes - 1]
Beside(concs, p) == IF p \in Genes THEN concs[p] ELSE 0

(* prev + F * (right * prev[p-1] - 2 * prev[p] + left * prev[p+1])         *)
Flow(concs, p) ==
    (3 * Beside(concs, p - 1) + 4 * concs[p] + 3 * Beside(concs, p + 1)) \div 10

(* Only the interior positions are capped at max_protein_conc.             *)
Diffuse(concs) ==
    [p \in Genes |->
        IF p \in {0, NumGenes - 1} \/ Flow(concs, p) <= MaxConc
        THEN Flow(concs, p)
        ELSE MaxConc]

(* diffuse()'s result: false marks the protein for deletion.               *)
AboveThreshold(concs) == \E p \in Genes : concs[p] > MinConc
=============================================================================
