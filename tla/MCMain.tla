-------------------------------- MODULE MCMain --------------------------------
(* Instances of Main for TLC: files of up to two runs, of which one may be *)
(* incomplete, have too few bits, or more iterations than individuals.     *)
EXTENDS Main

MCActiveTypes == <<"ADD", "EQ", "IF", "INT_CONST">>

Table == [complete |-> TRUE, pop_size |-> 2, ga_steps |-> 2, gene_bits |-> 8, num_genes |-> 3,
          max_pgm_size |-> 2, initial_proteins |-> 3, max_proteins |-> 2]
Tables ==
    {Table, [Table EXCEPT !.pop_size = 1], [Table EXCEPT !.ga_steps = 0],
     [Table EXCEPT !.gene_bits = 2], [Table EXCEPT !.complete = FALSE]}
MCRunFiles == {<< >>} \cup {<<t>> : t \in Tables} \cup {<<Table, t>> : t \in Tables}
                \cup {<<t, Table>> : t \in Tables}
=============================================================================
