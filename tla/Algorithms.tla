----------------------------- MODULE Algorithms -----------------------------
(***************************************************************************)
(* What the algorithms on draws, outputs, couples and bits compute, against *)
(* reference definitions, as properties of one input.  MCAlgorithms checks  *)
(* them over every input up to a bound; RegSimProofs and GaProofs prove     *)
(* them for every input there is.                                          *)
(***************************************************************************)
EXTENDS AlgorithmInput, InstrDist, OutputErasure, Crossover, SequencesExt, Functions

CONSTANTS
    Spins,      \* the spins that a draw distinguishes
    MaxBits     \* two vectors of as many bits, or one less, are not combined

BitStrings(lens) == UNION {[1 .. n -> {0, 1}] : n \in lens}
NumberOf(bits) == FoldLeft(LAMBDA value, bit : 2 * value + bit, 0, bits)

(* Over every order of the buckets, which is that of heap addresses, and   *)
(* every spin, the loop of sample() draws what the closed form used by     *)
(* RegSim says (instr_dist.cpp:33-49, protein.cpp:55-61).                  *)
DrawsAsTheLoop ==
    Is("weights") =>
        LET buckets == DOMAIN input.weights
            drawn(order, spin) ==
                LET k == Sample([i \in buckets |-> input.weights[order[i]]], spin)
                IN IF k = 0 THEN 0 ELSE order[k]
            runs == Bijection(buckets, buckets) \X (0 .. Spins - 1)
        IN {drawn(run[1], run[2]) : run \in runs} \ (IF buckets = {} THEN {0} ELSE {})
             = Drawn(buckets, input.weights, Spins, 0)

(* Erasing by indices that shift with every erasure leaves exactly the     *)
(* outputs that did not fade, in their order, so that a gene never gets a  *)
(* removed protein by its id later (grn.cpp:162-178).                      *)
OutputsAreKept ==
    Is("outputs") =>
        Erased(input.outputs, input.faded)
            = FoldLeft(LAMBDA kept, id : IF id \in input.faded THEN kept ELSE Append(kept, id),
                       << >>, input.outputs)

(* Between them the two children of a couple have every gene of both       *)
(* parents once as the first and once as the second source, and every      *)
(* child's genes are numbered by their place (crossover.cpp:31-51,         *)
(* 153-181): the modules that index genes by pos rely on it.               *)
ParentOf(p) == [i \in 1 .. input.size |-> <<p, i>>]
PairKeepsEveryGene ==
    Is("couple") =>
        LET children == ChildGenes(ParentOf(0), ParentOf(1), input.split_pt)
            places == {0, 1} \X (1 .. input.size)
            child(at) == children[at[1] + 1][at[2]]
        IN \A gene \in places :
             /\ Cardinality({at \in places : child(at).first = gene}) = 1
             /\ Cardinality({at \in places : child(at).second = gene}) = 1
             /\ child(gene).pos = gene[2] - 1

(* The blocks of a vector are those of its bits after every operation: no  *)
(* 1 is left beyond the length, where == would see it, a shift to the left *)
(* by any distance, and one to the right by less than a block, moves every *)
(* bit across the block boundaries and fills up with zeros, and the        *)
(* operations on two vectors and on one bit are those of the bits.  A      *)
(* vector that fills its blocks, or has only one, is the binary number of  *)
(* its bits and comes back from that number; of longer ones that end       *)
(* inside a block nothing is promised (bitvec.cpp:54-81, 120-291,          *)
(* 320-351).                                                               *)
BlocksHoldTheBits ==
    Is("bits") =>
        LET n == Len(input.bits)
            bv == OfBits(input.bits)
            bit(i) == IF i \in 1 .. n THEN input.bits[i] ELSE 0
            moved(d) == OfBits([i \in 1 .. n |-> bit(i + d)])
        IN /\ ToBits(bv) = input.bits
           /\ Count(bv) = FoldLeft(+, 0, input.bits)
           /\ Not(bv) = OfBits([i \in 1 .. n |-> 1 - bit(i)])
           /\ \A d \in 0 .. n : ShiftLeft(bv, d) = moved(d)
           /\ \A d \in 0 .. BlockBits - 1 : ShiftRight(bv, d) = moved(-d)
           /\ \A i \in 1 .. n, b \in {0, 1} :
                SetBit(bv, i - 1, b) = OfBits([input.bits EXCEPT ![i] = b])
           /\ n < MaxBits - 1 => \A other \in BitStrings({n}) :
                /\ Or(bv, OfBits(other)) = OfBits([i \in 1 .. n |-> Max({bit(i), other[i]})])
                /\ And(bv, OfBits(other)) = OfBits([i \in 1 .. n |-> Min({bit(i), other[i]})])
                /\ Xor(bv, OfBits(other)) = OfBits([i \in 1 .. n |-> (bit(i) + other[i]) % 2])
                /\ Less(bv, OfBits(other)) <=> NumberOf(input.bits) < NumberOf(other)
           /\ n <= BlockBits \/ n % BlockBits = 0 =>
                /\ ToUint(bv) = NumberOf(input.bits)
                /\ FromUint(NumberOf(input.bits), n) = bv
=============================================================================
