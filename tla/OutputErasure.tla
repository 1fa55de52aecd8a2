---------------------------- MODULE OutputErasure ----------------------------
(***************************************************************************)
(* The erasure loop of Grn::run_diffusion (grn.cpp:162-178): the indices   *)
(* in gene.outputs of the proteins that faded are collected first, then    *)
(* erased from the vector in that order, each shifted by the number of     *)
(* erasures before it.  Module Grn takes the outputs as a set and the      *)
(* faded ones away from it at once; here they are the vector.              *)
(***************************************************************************)
EXTENDS Integers, Sequences

(* rm_pairs: the indices, from 1, of the outputs that faded.               *)
RmIndices(outputs, faded) ==
    LET rm[j \in 0 .. Len(outputs)] ==
            IF j = 0 THEN << >>
            ELSE IF outputs[j] \in faded THEN Append(rm[j - 1], j) ELSE rm[j - 1]
    IN rm[Len(outputs)]

(* vector::erase(begin + i)                                                *)
Erase(v, i) == [k \in 1 .. Len(v) - 1 |-> IF k < i THEN v[k] ELSE v[k + 1]]

(* Fault: the indices are used as they were collected.                     *)
Erased_Fault(outputs, faded) ==
    LET rm == RmIndices(outputs, faded)
        after[j \in 0 .. Len(rm)] ==
            IF j = 0 THEN outputs ELSE Erase(after[j - 1], rm[j])
    IN after[Len(rm)]
Erased(outputs, faded) ==
    LET rm == RmIndices(outputs, faded)
        after[j \in 0 .. Len(rm)] ==
            IF j = 0 THEN outputs ELSE Erase(after[j - 1], rm[j] - (j - 1))
    IN after[Len(rm)]
=============================================================================
