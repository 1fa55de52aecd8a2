-------------------------------- MODULE Instr --------------------------------
(***************************************************************************)
(* The instructions of programs and their factory (instr_factory.cpp,      *)
(* instr.hpp and its subclasses): which there are, how many arguments each *)
(* takes, and which of them a bit sequence of a protein stands for.        *)
(*                                                                         *)
(* An instruction is a value: clone() gives an equal one.  The types are   *)
(* named, in place of the numbers of INSTR_TYPES.  That the one factory is *)
(* shared and deleted is in module Main.                                   *)
(***************************************************************************)
EXTENDS Integers, Sequences

CONSTANT ActiveTypes   \* active_instr_types, in order

Bits == INSTANCE BitVec WITH BlockBits <- 8

Unlimited == -1   \* UNLIMITED_ARGS

FnCall(type, min_args, max_args) ==
    [type |-> type, sel |-> 0, min_args |-> min_args, max_args |-> max_args]
Terminal(type, sel) == [type |-> type, sel |-> sel, min_args |-> 0, max_args |-> 0]

F ==
    [type \in {"ADD", "SUB", "MULT", "DIV", "EQ", "IF", "LIST"} |->
       CASE type \in {"ADD", "SUB", "MULT", "DIV"} -> FnCall(type, 1, Unlimited)
         [] type = "EQ" -> FnCall(type, 2, 2)
         [] type = "IF" -> FnCall(type, 3, 3)
         [] type = "LIST" -> FnCall(type, 0, Unlimited)]

(* The numbers of constants of each type, and of variables: x0 and x1.     *)
T == [FLOAT_CONST |-> 1, INT_CONST |-> 2, VAR_CONST |-> 2]

ASSUME InstrAssumption ==
    ActiveTypes \in Seq(DOMAIN F \cup DOMAIN T) /\ Len(ActiveTypes) > 0

Instrs ==
    [type : DOMAIN F \cup DOMAIN T, sel : Nat, min_args : Nat, max_args : Nat \cup {Unlimited}]

(* ceil(log2(n))                                                           *)
CeilLog2(n) == CHOOSE k \in 0 .. n : Bits!Pow2(k) >= n /\ \A j \in 0 .. k - 1 : Bits!Pow2(j) < n
TypeBits == CeilLog2(Len(ActiveTypes))
ConstSelBits == CeilLog2(CHOOSE n \in {T[t] : t \in DOMAIN T} : \A t \in DOMAIN T : T[t] <= n)

(* The constructor ends the program for genes with too few bits.           *)
EnoughBits(gene_bits) == TypeBits + ConstSelBits <= gene_bits

(***************************************************************************)
(* From a sequence of gene_bits bits to an instruction                     *)
(***************************************************************************)
SeqToType(seq) ==
    LET index == Bits!ToUint(Bits!ShiftRight(seq, seq.len - TypeBits))
    IN ActiveTypes[(index % Len(ActiveTypes)) + 1]

(* The bits after the type's are shifted to the left end, and back by the  *)
(* same distance as the type's were, not by the length of the type.        *)
SelBits_Fault(seq) == Bits!ShiftRight(seq, seq.len - TypeBits)
SelBits(seq) == Bits!ShiftRight(Bits!ShiftLeft(seq, TypeBits), seq.len - TypeBits)
SeqToSel(seq) == Bits!ToUint(SelBits(seq)) % T[SeqToType(seq)]

CreateInstr(seq) ==
    LET type == SeqToType(seq)
    IN IF type \in DOMAIN F THEN F[type] ELSE Terminal(type, SeqToSel(seq))

InstrInfo(seq) ==
    LET instr == CreateInstr(seq)
    IN [min_args |-> instr.min_args, max_args |-> instr.max_args,
        is_term |-> instr.type \in DOMAIN T]

(***************************************************************************)
(* Choosing among all instructions that take a number of arguments         *)
(***************************************************************************)
Accepts(instr, num_args) ==
    /\ num_args >= instr.min_args
    /\ num_args <= instr.max_args \/ instr.max_args = Unlimited

(* get_rand_instr draws one of these; it gives nullptr if there is none.   *)
RandInstrs(num_args) ==
    LET types == {ActiveTypes[i] : i \in 1 .. Len(ActiveTypes)}
    IN {F[type] : type \in {t \in types \cap DOMAIN F : Accepts(F[t], num_args)}}
         \cup (IF num_args # 0 THEN {}
               ELSE UNION {{Terminal(t, sel) : sel \in 0 .. T[t] - 1} :
                             t \in types \cap DOMAIN T})

(* check_args, the assertion of to_code, for the code of num_args children *)
(* or, at a leaf, for none.  A symbol does not check.                      *)
ArgsOk(instr, num_args) == instr.type = "VAR_CONST" \/ Accepts(instr, num_args)
=============================================================================
