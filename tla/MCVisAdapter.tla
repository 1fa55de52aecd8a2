----------------------------- MODULE MCVisAdapter -----------------------------
(* Instances of VisAdapter for TLC: the selects of graph.py, with two and  *)
(* with no sampled steps, and those that the other plots of GraphGen make, *)
(* with parameters of every type.                                          *)
EXTENDS VisAdapter

Query(sql, params, cols, takes_row) ==
    [sql |-> sql, params |-> params, cols |-> cols, takes_row |-> takes_row]
Param(type, val) == [type |-> type, val |-> val]

Id == Query("id", << >>, <<"int">>, TRUE)
Attrs == Query("attrs", << >>, <<"int", "double", "text">>, TRUE)
Best == Query("fitness", << >>, <<"int", "double">>, FALSE)
NotSampled == Query("none", << >>, <<"int", "double">>, FALSE)
Concs == Query("concs", <<Param("int", 0), Param("double", 3), Param("int", 1)>>,
               <<"int", "text", "double">>, FALSE)
Named == Query("named", <<Param("int", 0), Param("text", 2), Param("int", 1)>>,
               <<"int">>, FALSE)

MCScripts ==
    {<<Id, Attrs, Best, Best>>, <<Id, NotSampled, Best>>, <<Id, Concs>>, <<Concs, Named>>}
MCNumRows == [sql \in {"id", "attrs", "fitness", "none", "concs", "named"} |->
                CASE sql \in {"id", "attrs", "named"} -> 1
                  [] sql = "none" -> 0
                  [] OTHER -> 2]
=============================================================================
