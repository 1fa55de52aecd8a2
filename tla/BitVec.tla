-------------------------------- MODULE BitVec --------------------------------
(***************************************************************************)
(* Bit vectors stored in blocks (bitvec.cpp): the binding and output       *)
(* sequences of genes and proteins.  Bit 0 is the leftmost bit of the      *)
(* first block; the bits of the last block beyond the length are kept 0,   *)
(* because == compares the blocks.  The program's block is an unsigned     *)
(* char: with blocks of fewer bits, short vectors have several of them.    *)
(*                                                                         *)
(* (X_Fault is X, defined after it, as a plausible bug would have it.)     *)
(***************************************************************************)
EXTENDS Integers, Sequences, FiniteSets

CONSTANT BlockBits   \* bits in a block: 8 in the program

ASSUME BitVecAssumption == BlockBits \in Nat /\ BlockBits >= 1

BitPos == 1 .. BlockBits
ZeroBlock == [i \in BitPos |-> 0]
NumBlocks(len) == len \div BlockBits + (IF len % BlockBits > 0 THEN 1 ELSE 0)

(* The vector of a string of bits, and the string of a vector.             *)
OfBits(bits) ==
    [len |-> Len(bits),
     blocks |-> [k \in 1 .. NumBlocks(Len(bits)) |->
         [i \in BitPos |-> LET n == (k - 1) * BlockBits + i
                        IN IF n <= Len(bits) THEN bits[n] ELSE 0]]]
ToBits(bv) ==
    [n \in 1 .. bv.len |-> bv.blocks[((n - 1) \div BlockBits) + 1][((n - 1) % BlockBits) + 1]]

(* The shifts of one block, an unsigned char.                              *)
ShrBlock(b, dist) == [i \in BitPos |-> IF i > dist THEN b[i - dist] ELSE 0]
ShlBlock(b, dist) == [i \in BitPos |-> IF i + dist <= BlockBits THEN b[i + dist] ELSE 0]
OrBlock(a, b) == [i \in BitPos |-> IF a[i] = 1 \/ b[i] = 1 THEN 1 ELSE 0]

AndBlock(a, b) == [i \in BitPos |-> a[i] * b[i]]
XorBlock(a, b) == [i \in BitPos |-> IF a[i] = b[i] THEN 0 ELSE 1]
NotBlock(b) == [i \in BitPos |-> 1 - b[i]]

(* The block with ones from start up to end; positions start at 0.         *)
MakeBlockMask(start, end) ==
    [i \in BitPos |-> IF start <= i - 1 /\ i - 1 < end THEN 1 ELSE 0]

ZeroExtraBits(bv) ==
    LET overflow_bits == bv.len % BlockBits
    IN IF overflow_bits = 0 THEN bv
       ELSE [bv EXCEPT !.blocks[Len(bv.blocks)] =
                AndBlock(@, NotBlock(MakeBlockMask(overflow_bits, BlockBits)))]

(* The blocks of y are taken for as many blocks as x has.                  *)
And(x, y) == [x EXCEPT !.blocks = [k \in DOMAIN x.blocks |-> AndBlock(x.blocks[k], y.blocks[k])]]
Or(x, y) == [x EXCEPT !.blocks = [k \in DOMAIN x.blocks |-> OrBlock(x.blocks[k], y.blocks[k])]]
Xor(x, y) == [x EXCEPT !.blocks = [k \in DOMAIN x.blocks |-> XorBlock(x.blocks[k], y.blocks[k])]]
Not(x) ==
    ZeroExtraBits([x EXCEPT !.blocks =
        [k \in DOMAIN x.blocks |-> NotBlock(x.blocks[k])]])

(* >>= puts shift_blocks zero blocks in front, drops as many blocks from   *)
(* the FRONT of the vector, not from its end, and shifts the others, with  *)
(* the carry of the block before, where they are.                          *)
ShiftRight(bv, dist) ==
    LET shift_blocks == dist \div BlockBits
        offset == dist % BlockBits
        carry(k) == IF k = shift_blocks + 1 THEN ZeroBlock
                    ELSE ShlBlock(bv.blocks[k - 1], BlockBits - offset)
    IN ZeroExtraBits([bv EXCEPT !.blocks = [k \in DOMAIN bv.blocks |->
           IF k <= shift_blocks THEN ZeroBlock
           ELSE OrBlock(ShrBlock(bv.blocks[k], offset), carry(k))]])

(* <<= drops shift_blocks blocks from the front and ends with zero blocks. *)
ShiftLeft_Fault(bv, dist) ==
    LET shift_blocks == dist \div BlockBits
    IN [bv EXCEPT !.blocks = [k \in DOMAIN bv.blocks |->
           IF k + shift_blocks > Len(bv.blocks) THEN ZeroBlock
           ELSE ShlBlock(bv.blocks[k + shift_blocks], dist % BlockBits)]]
ShiftLeft(bv, dist) ==
    LET shift_blocks == dist \div BlockBits
        offset == dist % BlockBits
        last == Len(bv.blocks)
        carry(k) == IF k = last THEN ZeroBlock
                    ELSE ShrBlock(bv.blocks[k + 1], BlockBits - offset)
    IN [bv EXCEPT !.blocks = [k \in DOMAIN bv.blocks |->
           IF k + shift_blocks > last THEN ZeroBlock
           ELSE OrBlock(ShlBlock(bv.blocks[k + shift_blocks], offset),
                        carry(k + shift_blocks))]]

Count(bv) == Cardinality({n \in 1 .. bv.len : ToBits(bv)[n] = 1})

(* b[pos] = val, through a BitRef; positions start at 0.                   *)
SetBit(bv, pos, val) ==
    LET mask == MakeBlockMask(pos % BlockBits, (pos % BlockBits) + 1)
    IN [bv EXCEPT !.blocks[(pos \div BlockBits) + 1] =
           IF val = 1 THEN OrBlock(@, mask) ELSE AndBlock(@, NotBlock(mask))]

(* operator<: the first bit, from the left, in which the two differ.       *)
Less(x, y) ==
    \E n \in 1 .. x.len :
        /\ ToBits(x)[n] = 0 /\ ToBits(y)[n] = 1
        /\ \A m \in 1 .. n - 1 : ToBits(x)[m] = ToBits(y)[m]

(***************************************************************************)
(* Numbers.  The unused bits of the last block are shifted out of EVERY    *)
(* block, so that the two operations are inverse only for one block, or    *)
(* for whole ones.  (Up to the 32 bits of an unsigned int.)                *)
(***************************************************************************)
Pow2(e) ==
    LET pow[i \in 0 .. e] == IF i = 0 THEN 1 ELSE 2 * pow[i - 1]
    IN pow[e]

UnusedBits(len) == IF len % BlockBits = 0 THEN 0 ELSE BlockBits - (len % BlockBits)
BlockToUint(b) ==
    LET val[i \in 0 .. BlockBits] == IF i = 0 THEN 0 ELSE 2 * val[i - 1] + b[i]
    IN val[BlockBits]
BlockOfUint(u) == [i \in BitPos |-> (u \div Pow2(BlockBits - i)) % 2]

ToUint(bv) ==
    LET val[k \in 0 .. Len(bv.blocks)] ==
            IF k = 0 THEN 0
            ELSE val[k - 1] * Pow2(BlockBits)
                   + BlockToUint(ShrBlock(bv.blocks[k], UnusedBits(bv.len)))
    IN val[Len(bv.blocks)]

FromUint(val, size) ==
    LET num_chunks == NumBlocks(size)
    IN ZeroExtraBits([len |-> size, blocks |-> [k \in 1 .. num_chunks |->
           ShlBlock(BlockOfUint(val \div Pow2(BlockBits * (num_chunks - k))),
                    UnusedBits(size))]])
=============================================================================
