------------------------------ MODULE InstrDist ------------------------------
(***************************************************************************)
(* The draw of an instruction from the proteins above a gene               *)
(* (instr_dist.cpp).  The buckets are a map ordered by Protein::compare,   *)
(* which compares the addresses of the proteins' sequences                 *)
(* (protein.cpp:56): every protein has a bucket of its own, and the order  *)
(* of the buckets is that of the heap.  The constructor's division by the  *)
(* sum changes copies of the entries: the weights are the concentrations   *)
(* as they are.                                                            *)
(***************************************************************************)
EXTENDS Integers, Sequences, FiniteSetsExt

(* sample(): from the first bucket on, take the next one while the spin    *)
(* exceeds the weights passed so far; 0 when the end is reached.           *)
Sample_Fault(weights, spin) ==
    LET passed[k \in 0 .. Len(weights)] ==
            IF k = 0 THEN 0 ELSE passed[k - 1] + weights[k]
        stops == {k \in 1 .. Len(weights) : spin <= passed[k]}
    IN IF stops = {} THEN 0 ELSE CHOOSE k \in stops : \A j \in stops : k <= j
Sample(weights, spin) ==
    LET passed[k \in 0 .. Len(weights)] ==
            IF k = 0 THEN 0 ELSE passed[k - 1] + weights[k]
        stops == {k \in 1 .. Len(weights) : spin <= passed[k - 1]}
    IN IF stops = {} THEN 0 ELSE CHOOSE k \in stops : \A j \in stops : k <= j

(* What sample() may give over every order of the buckets and every spin   *)
(* below spins: any bucket, when it comes first and the spin is 0; none,   *)
(* when all but the last of them weigh less than some spin.  MCAlgorithms  *)
(* checks this against Sample.                                             *)
Drawn(buckets, weights, spins, Nothing) ==
    buckets \cup
    {Nothing : last \in {id \in buckets :
                 MapThenSumSet(LAMBDA b : weights[b], buckets \ {id}) < spins - 1}}
=============================================================================
