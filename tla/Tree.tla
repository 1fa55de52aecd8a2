-------------------------------- MODULE Tree --------------------------------
(***************************************************************************)
(* The program tree of a phenotype (tree.cpp, node.cpp), as a value: the   *)
(* nodes by id and the next id.  Node 0 is the root; the tree has a root   *)
(* iff it has a node 0.  An instruction is a value of the caller's.        *)
(***************************************************************************)
EXTENDS Integers, Sequences, FiniteSets

CONSTANT NoInstr   \* a node that is not filled yet: instr is nullptr

NoParent == -1

EmptyTree == [nodes |-> << >>, next_id |-> 0]

NodeIds(t) == DOMAIN t.nodes
Size(t) == Cardinality(NodeIds(t))
HasRoot(t) == 0 \in NodeIds(t)
NewNode(parent, instr) == [parent |-> parent, children |-> << >>, instr |-> instr]

Children(t, id) == t.nodes[id].children
NumChildren(t, id) == Len(Children(t, id))
NumFilled(t) == Cardinality({id \in NodeIds(t) : t.nodes[id].instr # NoInstr})
NumUnfilled(t) == Size(t) - NumFilled(t)

(* add_child: without a root any parent id creates it ...                  *)
AddRoot(t, instr) ==
    [nodes |-> [id \in NodeIds(t) \cup {0} |->
                  IF id = 0 THEN NewNode(NoParent, instr) ELSE t.nodes[id]],
     next_id |-> IF t.next_id = 0 THEN 1 ELSE t.next_id]

(* ... with one, a parent that does not exist gets no child.               *)
AddBelow(t, parent, instr) ==
    [nodes |-> [id \in NodeIds(t) \cup {t.next_id} |->
                  IF id = t.next_id THEN NewNode(parent, instr)
                  ELSE IF id = parent
                       THEN [t.nodes[id] EXCEPT !.children = Append(@, t.next_id)]
                       ELSE t.nodes[id]],
     next_id |-> t.next_id + 1]

(* Fault: the parent is looked up with map's [], which creates it.         *)
AddChild_Fault(t, parent, instr) ==
    IF ~ HasRoot(t) THEN AddRoot(t, instr)
    ELSE AddBelow([t EXCEPT !.nodes = [id \in NodeIds(t) \cup {parent} |->
                     IF id \in NodeIds(t) THEN t.nodes[id] ELSE NewNode(NoParent, instr)]],
                  parent, instr)
AddChild(t, parent, instr) ==
    IF ~ HasRoot(t) THEN AddRoot(t, instr)
    ELSE IF parent \in NodeIds(t) THEN AddBelow(t, parent, instr)
    ELSE t

SetInstr(t, id, instr) == [t EXCEPT !.nodes[id].instr = instr]

(* Tree::invariant: the ids are 0, 1, 2, ... without a gap.                *)
IdsContiguous(t) == NodeIds(t) = 0 .. Size(t) - 1

(* What the walks from the root (height, to_code, branching_factor) and    *)
(* the logger's (child, parent) rows rely on: every node but the root      *)
(* hangs below an older node that lists it once, and no other does.        *)
WellFormed(t) ==
    \A id \in NodeIds(t) :
        /\ id = 0 <=> t.nodes[id].parent = NoParent
        /\ id # 0 => t.nodes[id].parent \in NodeIds(t) /\ t.nodes[id].parent < id
        /\ \A p \in NodeIds(t) :
             Cardinality({i \in 1 .. NumChildren(t, p) : Children(t, p)[i] = id})
               = IF t.nodes[id].parent = p THEN 1 ELSE 0
        /\ \A i \in 1 .. NumChildren(t, id) : Children(t, id)[i] \in NodeIds(t)
=============================================================================
