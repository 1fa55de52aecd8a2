------------------------------ MODULE Crossover ------------------------------
(***************************************************************************)
(* How crossover puts children together (crossover.cpp) and how it selects *)
(* their parents (prob_dist.cpp).  A gene or an initial protein of a       *)
(* parent is any value; one of a child names its two sources: the gene     *)
(* whose bits come first and the one whose bits come second, the same one  *)
(* for a plain copy.  Module Population has crossover's part in the run.   *)
(***************************************************************************)
EXTENDS BitVec

Cross(left, right, pos) == [first |-> left, second |-> right, pos |-> pos]
CopyOf(gene, pos) == [first |-> gene, second |-> gene, pos |-> pos]

(* build_child_genes, and build_child_init_proteins, in which pos plays no *)
(* part: the two slices crossed one way as far as the shorter one goes,    *)
(* then the other way, then the rest of the longer slice.                  *)
BuildChild_Fault(left, right) ==
    LET mix_len == IF Len(left) < Len(right) THEN Len(left) ELSE Len(right)
        longer == IF Len(left) > Len(right) THEN left ELSE right
    IN [k \in 1 .. Len(left) + Len(right) |->
          IF k <= mix_len THEN Cross(left[k], right[k], k - 1)
          ELSE IF k <= 2 * mix_len
               THEN Cross(right[k - mix_len], left[k - mix_len], k - 1)
          ELSE CopyOf(longer[k - 2 * mix_len], k - 1)]
BuildChild(left, right) ==
    LET mix_len == IF Len(left) < Len(right) THEN Len(left) ELSE Len(right)
        longer == IF Len(left) > Len(right) THEN left ELSE right
        rest(k) == k - 2 * mix_len
    IN [k \in 1 .. Len(left) + Len(right) |->
          IF k <= mix_len THEN Cross(left[k], right[k], k - 1)
          ELSE IF k <= 2 * mix_len
               THEN Cross(right[k - mix_len], left[k - mix_len], mix_len + (k - mix_len - 1))
          ELSE CopyOf(longer[mix_len + rest(k)], 2 * mix_len + (rest(k) - 1))]

LeftSlice(s, n) == SubSeq(s, 1, n)
RightSlice(s, n) == SubSeq(s, n + 1, Len(s))

(* The genes of the two children of a couple ...                           *)
ChildGenes(parent0, parent1, split_pt) ==
    <<BuildChild(LeftSlice(parent0, split_pt), RightSlice(parent1, split_pt)),
      BuildChild(LeftSlice(parent1, split_pt), RightSlice(parent0, split_pt))>>

(* ... and their initial proteins: both slices of child 0 are parent 0's.  *)
ChildProteins(parent0, parent1, split_pt) ==
    <<BuildChild(LeftSlice(parent0, split_pt), RightSlice(parent0, split_pt)),
      BuildChild(LeftSlice(parent1, split_pt), RightSlice(parent0, split_pt))>>

(* cross_bitsets, for the random left_bits of 1 .. gene_bits - 1.          *)
CrossBitsets(left, right, left_bits) ==
    LET right_bits == left.len - left_bits
        left_copy == ShiftLeft(ShiftRight(left, left.len - left_bits), left.len - left_bits)
        right_copy == ShiftLeft(ShiftRight(right, left.len - right_bits), left.len - right_bits)
    IN Or(left_copy, right_copy)

(* ProbDist with invert and normalize over the fitnesses: the weights are  *)
(* 1 - fitness, the wheel their running sums over their total.             *)
Weights(fitnesses) == [i \in DOMAIN fitnesses |-> 1 - fitnesses[i]]
RunningSum(weights) ==
    LET sum[i \in 0 .. Len(weights)] == IF i = 0 THEN 0 ELSE sum[i - 1] + weights[i]
    IN sum

(* sample(), for a spin of k / n: the first whose place on the wheel is    *)
(* not below the spin.  Over a total of 0 a place is infinite or not a     *)
(* number, and the first weight that is not negative stops the wheel.      *)
StopsAt(weights, i, k, n) ==
    LET sum == RunningSum(weights)
        total == sum[Len(weights)]
    IN IF total > 0 THEN k * total <= sum[i] * n
       ELSE IF total < 0 THEN k * total >= sum[i] * n
       ELSE weights[i] >= 0
Selected(fitnesses, k, n) ==
    CHOOSE i \in DOMAIN fitnesses :
        /\ StopsAt(Weights(fitnesses), i, k, n)
        /\ \A j \in 1 .. i - 1 : ~ StopsAt(Weights(fitnesses), j, k, n)
=============================================================================
