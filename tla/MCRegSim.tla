------------------------------- MODULE MCRegSim -------------------------------
(* Instances of RegSim for TLC.  Of the four sequences of two bits one is  *)
(* that of the growth protein, one codes for a function of one or more     *)
(* arguments and two for terminals.  Two kinds of individuals are looked   *)
(* at: those whose network is left open, and those whose program is.       *)
EXTENDS RegSim, TLC

GrowthSeq == <<0, 0>>
Function == <<0, 1>>
Constant == <<1, 0>>
Symbol == <<1, 1>>

MCMinArgs == [s \in Seqs |-> IF s = Function THEN 1 ELSE 0]
MCMaxArgs == [s \in Seqs |-> IF s = Function THEN Unlimited ELSE 0]

Gene(binding_seqs, output_seqs, rates) ==
    [binding_seq : binding_seqs, output_seq : output_seqs,
     threshold : Thresholds, output_rate : rates]
Initial(seqs, sources, concs) ==
    [seq : seqs, src_pos : sources, concs : [Genes -> concs], interactions : {0}]
Felt == InitialConcs \ {0}

(* Two sequences, each bound by some genes and produced by some; what they *)
(* produce fades at once, or not.  The growth protein is the same all over *)
(* and may count as a gene's own; the second initial protein is not felt.  *)
Regulating ==
    /\ genome \in [Genes -> Gene({GrowthSeq, Symbol}, {GrowthSeq, Symbol}, Rates)]
    /\ \E growing \in Initial({GrowthSeq}, Sources, Felt), other \in Initial({Symbol}, {None}, {0}) :
         /\ \A g \in Genes : growing.concs[g] = growing.concs[0]
         /\ initial_proteins = (0 :> growing @@ 1 :> other)

(* Every gene is bound by the growth protein where there is enough of it,  *)
(* and produces more of it or what codes.  The initial proteins are those  *)
(* of a crossed individual: one grows the tree, one codes.                 *)
Programming ==
    /\ genome \in [Genes -> Gene({GrowthSeq}, {GrowthSeq, Function, Constant}, {Max(Rates)})]
    /\ \E growing \in Initial({GrowthSeq}, {None}, Felt),
          coding \in Initial({Function, Symbol}, {None}, Felt) :
         /\ \A g \in Genes \ {0} : coding.concs[g] = coding.concs[NumGenes - 1]
         /\ initial_proteins = (0 :> growing @@ 1 :> coding)

MCInit == (Regulating \/ Programming) /\ RegInit
MCSpec == MCInit /\ [][RegNext]_rvars
=============================================================================
