--------------------------- MODULE InstrAlgorithms ---------------------------
(***************************************************************************)
(* What the factory makes of the bits of a gene, as a property of one      *)
(* input.  MCAlgorithms checks it of the program's own types for genes of  *)
(* up to a byte; MainProofs proves it for every choice of active types.    *)
(***************************************************************************)
EXTENDS AlgorithmInput, Instr

(* Whatever its bits, a sequence stands for an active instruction, and for *)
(* the same one in create_instr, seq_to_type and the draw by arguments.    *)
(* Every active instruction has a sequence that stands for it only if a    *)
(* gene has twice the bits of a type: with fewer, which the factory's own  *)
(* check accepts, x1 and the constant 1 cannot be expressed, since the     *)
(* selecting bits are shifted past the end or not back to it               *)
(* (instr_factory.cpp:28-31, 78-94).                                       *)
EveryInstrHasASequence ==
    Is("gene_bits") /\ EnoughBits(input.gene_bits) =>
        LET coded == {CreateInstr(Bits!OfBits(b)) : b \in [1 .. input.gene_bits -> {0, 1}]}
            all == UNION {RandInstrs(n) : n \in 0 .. 3}
        IN /\ coded \subseteq all
           /\ coded = all <=> input.gene_bits >= 2 * TypeBits
           /\ {i.sel : i \in coded} = {0} <=> input.gene_bits < 2 * TypeBits
=============================================================================
