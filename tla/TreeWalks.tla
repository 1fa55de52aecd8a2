------------------------------ MODULE TreeWalks ------------------------------
(***************************************************************************)
(* The recursive walks of a program tree from the root (tree.cpp).  (X_Fault *)
(* is X, defined after it, as a plausible bug would have it.)              *)
(***************************************************************************)
EXTENDS Tree, Instr, SequencesExt

(* height(): calc_max_depth from the root.                                 *)
MaxDepth(t, id, depth) ==
    LET deepest[at \in NodeIds(t) \X Nat] ==
            Max({at[2]} \cup {deepest[<<kid, at[2] + 1>>] : kid \in ToSet(Children(t, at[1]))})
    IN deepest[<<id, depth>>]

Height_Fault(t) == IF HasRoot(t) THEN MaxDepth(t, 0, 0) ELSE 0
Height(t) == IF HasRoot(t) THEN MaxDepth(t, 0, 1) ELSE 0

(* get_bf_info: the numbers of branches and of split points, threaded      *)
(* through the children in order; at is a node and the sums before it.     *)
BranchInfo(t) ==
    LET info[at \in NodeIds(t) \X (Nat \X Nat)] ==
            LET n == at[1]
                sums == at[2]
            IN IF NumChildren(t, n) = 0 THEN sums
               ELSE FoldLeft(LAMBDA so_far, kid : info[<<kid, so_far>>],
                             <<sums[1] + NumChildren(t, n), sums[2] + 1>>, Children(t, n))
    IN info[<<0, <<0, 0>>>>]

(* to_code: the program as Lisp, token by token.  A node that is not       *)
(* filled prints nothing, and neither does what is below it, so that the   *)
(* call above it has an argument less than it has children.                *)
ToCode(t) ==
    LET code[n \in NodeIds(t)] ==
            LET instr == t.nodes[n].instr
                args == FoldLeft(LAMBDA tokens, kid : tokens \o code[kid], << >>, Children(t, n))
            IN IF instr = NoInstr THEN << >>
               ELSE IF instr.type \in DOMAIN F THEN <<"(", instr>> \o args \o <<")">>
               ELSE <<instr>>
    IN IF HasRoot(t) THEN code[0] ELSE << >>

(* The assertions of to_code hold at every node that it reaches.           *)
Printable(t) ==
    LET printable[n \in NodeIds(t)] ==
            LET instr == t.nodes[n].instr
            IN instr # NoInstr =>
                 /\ ArgsOk(instr, NumChildren(t, n))
                 /\ \A kid \in ToSet(Children(t, n)) : printable[kid]
    IN HasRoot(t) => printable[0]
=============================================================================
