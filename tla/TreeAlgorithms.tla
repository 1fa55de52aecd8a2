--------------------------- MODULE TreeAlgorithms ---------------------------
(***************************************************************************)
(* What the walks of a program tree compute, against reference             *)
(* definitions, as a property of one input.  MCAlgorithms checks it over    *)
(* every tree up to a bound; MainProofs proves it for every tree there is. *)
(***************************************************************************)
EXTENDS AlgorithmInput, TreeWalks

FittingInstr(n) == CHOOSE i \in RandInstrs(n) : TRUE
Filled(t, ids) ==
    [t EXCEPT !.nodes = [id \in NodeIds(t) |->
        IF id \in ids THEN [t.nodes[id] EXCEPT !.instr = FittingInstr(NumChildren(t, id))]
        ELSE t.nodes[id]]]

(* The walks from the root count every node: height() is the longest chain *)
(* of parents, and branching_factor() divides all nodes but the root by    *)
(* the nodes that have a child (tree.cpp:278-329); whichever nodes are     *)
(* filled, the program has the instruction of every node that hangs below  *)
(* filled ones, in parentheses if it is a call (tree.cpp:175-194,          *)
(* fn_call_instr.hpp:16-27).                                               *)
WalksCountEveryNode ==
    Is("tree") =>
        LET t == input.tree
            depth[id \in NodeIds(t)] == IF id = 0 THEN 1 ELSE depth[t.nodes[id].parent] + 1
        IN /\ Height(t) = Max({0} \cup {depth[id] : id \in NodeIds(t)})
           /\ HasRoot(t) =>
                BranchInfo(t) =
                    <<Size(t) - 1, Cardinality({id \in NodeIds(t) : NumChildren(t, id) > 0})>>
           /\ \A ids \in SUBSET NodeIds(t) :
                LET u == Filled(t, ids)
                    printed[id \in NodeIds(t)] ==
                        id \in ids /\ (id = 0 \/ printed[t.nodes[id].parent])
                    calls == {id \in NodeIds(t) : printed[id] /\ u.nodes[id].instr.type \in DOMAIN F}
                IN Len(ToCode(u))
                     = Cardinality({id \in NodeIds(t) : printed[id]}) + 2 * Cardinality(calls)
=============================================================================
