------------------------------- MODULE MCLogger -------------------------------
(* Instances of Logger for TLC.  Two genes, one initial protein, two       *)
(* regulatory steps: in the first simulation gene 0 creates protein 1,     *)
(* which gene 1 binds; in the second gene 1 creates a protein of the same  *)
(* id and then loses both, and the program grows to four nodes.            *)
EXTENDS Logger

Obs(concs, bound, active, tree) ==
    [concs |-> concs, bound |-> [g \in Positions |-> bound[g + 1]],
     active |-> [g \in Positions |-> active[g + 1]], tree |-> tree]
Start == Obs(0 :> 5, <<-1, -1>>, <<-1, -1>>, EmptyTree)

Root == AddChild(EmptyTree, 0, "f")
Grown == AddChild(AddChild(AddChild(Root, 0, "g"), 1, "x"), 0, "y")

Regulated ==
    (-1 :> Start) @@ (0 :> Obs((0 :> 5) @@ (1 :> 3), <<0, -1>>, <<1, -1>>, Root))
      @@ (1 :> Obs((0 :> 4) @@ (1 :> 2) @@ (2 :> 1), <<0, 1>>, <<1, 2>>, Root))
Faded ==
    (-1 :> Start) @@ (0 :> Obs((0 :> 5) @@ (1 :> 1), <<-1, 0>>, <<-1, 1>>, Root))
      @@ (1 :> Obs(0 :> 4, <<-1, -1>>, <<-1, -1>>, Grown))

MCSimulations ==
    {[steps |-> Regulated, fitness |-> 1], [steps |-> Faded, fitness |-> 0],
     [steps |-> Faded, fitness |-> 2]}
MCCouples ==
    {<<[parents |-> <<0, 1>>, split_pt |-> 1], [parents |-> <<1, 1>>, split_pt |-> 2]>>}
=============================================================================
