----------------------------- MODULE LoggerProofs -----------------------------
(***************************************************************************)
(* The Logger, proved for every outcome of the simulations and of the      *)
(* crossover, every size of the population and every interval: what it     *)
(* expects of the database is there, the networks and fitnesses that the   *)
(* viewer takes for the best are, and the curves, genes and programs that  *)
(* it shows of a regulatory step are those that were observed.             *)
(***************************************************************************)
EXTENDS Logger, Lemmas, SequenceTheorems

(***************************************************************************)
(* The database.  The tables of states, trees and nodes are only appended  *)
(* to, and nothing that the Logger looks for is in them.                   *)
(***************************************************************************)
GrnRows == [ga_step : Int, pop_index : Int, split_pt : Int]
GeneRows == [grn_id : Nat, pos : Int]
ProteinRows == [pid : Int, grn_id : Nat]
FitnessRows == [ga_step : Int, pop_index : Int, fitness : Nat]

Tables(d) ==
    d = [grn |-> d.grn, gene |-> d.gene, protein |-> d.protein,
         protein_state |-> d.protein_state, gene_state |-> d.gene_state,
         ptype_state |-> d.ptype_state, tree |-> d.tree, node |-> d.node,
         fitness |-> d.fitness, failed |-> d.failed]

IsDb(d) ==
    /\ Tables(d)
    /\ d.grn \in Seq(GrnRows) /\ d.gene \in Seq(GeneRows)
    /\ d.protein \in Seq(ProteinRows) /\ d.fitness \in Seq(FitnessRows)

SameKeys(d, e) == e.grn = d.grn /\ e.gene = d.gene /\ e.fitness = d.fitness /\ e.failed = d.failed
SameTrees(d, e) == e.tree = d.tree /\ e.node = d.node

LEMMA ProteinStatesAdded ==
    ASSUME NEW d, IsDb(d), NEW x, NEW e, e = [d EXCEPT !.protein_state = x]
    PROVE  /\ IsDb(e) /\ SameKeys(d, e) /\ SameTrees(d, e) /\ e.protein = d.protein
           /\ e.protein_state = x /\ e.gene_state = d.gene_state /\ e.ptype_state = d.ptype_state
<1>1. Tables(d)
  BY DEF IsDb
<1>2. /\ Tables(e) /\ SameKeys(d, e) /\ SameTrees(d, e) /\ e.protein = d.protein
      /\ e.protein_state = x /\ e.gene_state = d.gene_state /\ e.ptype_state = d.ptype_state
  BY ONLY <1>1, e = [d EXCEPT !.protein_state = x] DEF Tables, SameKeys, SameTrees
<1> QED BY <1>2 DEF IsDb, SameKeys

LEMMA GeneStatesAdded ==
    ASSUME NEW d, IsDb(d), NEW x, NEW e, e = [d EXCEPT !.gene_state = x]
    PROVE  /\ IsDb(e) /\ SameKeys(d, e) /\ SameTrees(d, e) /\ e.protein = d.protein
           /\ e.protein_state = d.protein_state /\ e.gene_state = x /\ e.ptype_state = d.ptype_state
<1>1. Tables(d)
  BY DEF IsDb
<1>2. /\ Tables(e) /\ SameKeys(d, e) /\ SameTrees(d, e) /\ e.protein = d.protein
      /\ e.protein_state = d.protein_state /\ e.gene_state = x /\ e.ptype_state = d.ptype_state
  BY ONLY <1>1, e = [d EXCEPT !.gene_state = x] DEF Tables, SameKeys, SameTrees
<1> QED BY <1>2 DEF IsDb, SameKeys

LEMMA PhenotypeStatesAdded ==
    ASSUME NEW d, IsDb(d), NEW x, NEW e, e = [d EXCEPT !.ptype_state = x]
    PROVE  /\ IsDb(e) /\ SameKeys(d, e) /\ SameTrees(d, e) /\ e.protein = d.protein
           /\ e.protein_state = d.protein_state /\ e.gene_state = d.gene_state /\ e.ptype_state = x
<1>1. Tables(d)
  BY DEF IsDb
<1>2. /\ Tables(e) /\ SameKeys(d, e) /\ SameTrees(d, e) /\ e.protein = d.protein
      /\ e.protein_state = d.protein_state /\ e.gene_state = d.gene_state /\ e.ptype_state = x
  BY ONLY <1>1, e = [d EXCEPT !.ptype_state = x] DEF Tables, SameKeys, SameTrees
<1> QED BY <1>2 DEF IsDb, SameKeys

(* A tree and its nodes.                                                   *)
WithTree(d, x, y) == [d EXCEPT !.tree = x, !.node = y]
LEMMA TreesAdded ==
    ASSUME NEW d, IsDb(d), NEW x, NEW y, NEW e, e = WithTree(d, x, y)
    PROVE  /\ IsDb(e) /\ SameKeys(d, e) /\ e.protein = d.protein
           /\ e.protein_state = d.protein_state /\ e.gene_state = d.gene_state
           /\ e.ptype_state = d.ptype_state /\ e.tree = x /\ e.node = y
<1>1. Tables(d)
  BY DEF IsDb
<1>2. /\ Tables(e) /\ SameKeys(d, e) /\ e.protein = d.protein
      /\ e.protein_state = d.protein_state /\ e.gene_state = d.gene_state
      /\ e.ptype_state = d.ptype_state /\ e.tree = x /\ e.node = y
  BY ONLY <1>1, e = WithTree(d, x, y) DEF Tables, SameKeys, WithTree
<1> QED BY <1>2 DEF IsDb, SameKeys

LEMMA NetworksChanged ==
    ASSUME NEW d, Tables(d), NEW x, NEW e, e = [d EXCEPT !.grn = x]
    PROVE  /\ Tables(e) /\ e.grn = x /\ e.gene = d.gene
           /\ e.protein = d.protein /\ e.fitness = d.fitness /\ e.failed = d.failed
           /\ e.protein_state = d.protein_state /\ e.gene_state = d.gene_state
           /\ e.ptype_state = d.ptype_state /\ SameTrees(d, e)
BY DEF Tables, SameTrees

LEMMA ProteinsAdded ==
    ASSUME NEW d, Tables(d), NEW x, NEW e, e = [d EXCEPT !.protein = x]
    PROVE  Tables(e) /\ SameKeys(d, e) /\ e.protein = x
BY DEF Tables, SameKeys

(* The row that a SELECT gives.                                            *)
LEMMA FirstIs ==
    ASSUME NEW ids \in SUBSET Nat, ids # {}
    PROVE  First(ids) \in ids
<1>1. \E id \in ids : \A other \in ids : id <= other
  BY NatMinimum
<1> QED BY <1>1 DEF First

(* What is appended to a table does not touch the rows that are there.     *)
LEMMA Appended ==
    ASSUME NEW S, NEW table \in Seq(S), NEW row \in S
    PROVE  /\ Append(table, row) \in Seq(S)
           /\ Len(table) \in Nat
           /\ DOMAIN Append(table, row) = 1 .. Len(table) + 1
           /\ DOMAIN table = 1 .. Len(table)
           /\ \A i \in 1 .. Len(table) : Append(table, row)[i] = table[i]
           /\ Append(table, row)[Len(table) + 1] = row
BY AppendProperties

LEMMA RowsAppended ==
    ASSUME NEW S, NEW table \in Seq(S), NEW n \in Nat, NEW rows \in [1 .. n -> S]
    PROVE  /\ table \o rows \in Seq(S)
           /\ Len(table) \in Nat
           /\ DOMAIN (table \o rows) = 1 .. Len(table) + n
           /\ DOMAIN table = 1 .. Len(table)
           /\ \A i \in 1 .. Len(table) : (table \o rows)[i] = table[i]
           /\ \A i \in 1 .. n : (table \o rows)[Len(table) + i] = rows[i]
<1>1. rows \in Seq(S) /\ Len(rows) = n
  BY IsASeq
<1>2. Len(table) \in Nat /\ DOMAIN table = 1 .. Len(table)
  OBVIOUS
<1>3. PICK longer \in Seq(S) : longer = table \o rows
  BY <1>1, ConcatProperties
<1>4. /\ Len(longer) = Len(table) + n
      /\ \A i \in 1 .. Len(table) + n :
           longer[i] = IF i <= Len(table) THEN table[i] ELSE rows[i - Len(table)]
  BY <1>1, <1>3, ConcatProperties
<1>5. DOMAIN longer = 1 .. Len(table) + n
  BY <1>4
<1>6. \A i \in 1 .. Len(table) : longer[i] = table[i]
  BY <1>2, <1>4
<1>7. \A i \in 1 .. n : longer[Len(table) + i] = rows[i]
  BY <1>2, <1>4
<1> QED BY <1>2, <1>3, <1>5, <1>6, <1>7

(***************************************************************************)
(* The networks                                                            *)
(***************************************************************************)
HasGrn(d, step, index) == GrnIds(d, step, index) # {}
HasGenes(d) == \A i \in DOMAIN d.grn : \A g \in Positions : GeneIds(d, i, g) # {}

(* A database that no function of the Logger finds fault with.             *)
Sound(d) == IsDb(d) /\ HasGenes(d) /\ ~ d.failed

NewGrn(step, index) == [ga_step |-> step, pop_index |-> index, split_pt |-> NoRow]

(***************************************************************************)
(* A regulatory step: every protein gets a row before a gene refers to it. *)
(***************************************************************************)
LEMMA SoundKept ==
    ASSUME NEW d, Sound(d), NEW e, IsDb(e), SameKeys(d, e)
    PROVE  Sound(e) /\ \A s, i : HasGrn(e, s, i) <=> HasGrn(d, s, i)
<1>1. e.grn = d.grn /\ e.gene = d.gene /\ e.failed = d.failed
  BY DEF SameKeys
<1>2. HasGenes(e) /\ ~ e.failed
  BY <1>1 DEF Sound, HasGenes, GeneIds
<1>3. \A s, i : HasGrn(e, s, i) <=> HasGrn(d, s, i)
  BY <1>1 DEF HasGrn, GrnIds
<1> QED BY <1>2, <1>3 DEF Sound

LEMMA OrderedIs ==
    ASSUME NEW S \in SUBSET Nat, IsFiniteSet(S)
    PROVE  /\ Cardinality(S) \in Nat
           /\ Ordered(S) \in [1 .. Cardinality(S) -> S]
           /\ \A number \in S : \E i \in 1 .. Cardinality(S) : Ordered(S)[i] = number
           /\ \A i, j \in 1 .. Cardinality(S) : Ordered(S)[i] = Ordered(S)[j] => i = j
<1>1. S \in SUBSET Int
  OBVIOUS
<1>2. PICK ordered \in [1 .. Cardinality(S) -> S] :
        /\ ordered = [i \in 1 .. Cardinality(S) |->
                        CHOOSE number \in S : Cardinality({other \in S : other < number}) = i - 1]
        /\ \A number \in S : \E i \in 1 .. Cardinality(S) : ordered[i] = number
        /\ \A i, j \in 1 .. Cardinality(S) : ordered[i] = ordered[j] => i = j
  BY <1>1, InOrder
<1>3. Ordered(S) = ordered
  BY <1>2 DEF Ordered, Below
<1> QED BY <1>2, <1>3, FS_CardinalityType

Kept(table, longer) ==
    DOMAIN table \subseteq DOMAIN longer /\ \A i \in DOMAIN table : longer[i] = table[i]

ProteinsUnique(d) ==
    \A i, j \in DOMAIN d.protein :
        d.protein[i].grn_id = d.protein[j].grn_id /\ d.protein[i].pid = d.protein[j].pid => i = j

NewPids(d, grn_id, obs) == {pid \in DOMAIN obs.concs : IsNewProtein(d, grn_id, pid)}
Inserted(d, grn_id, obs) ==
    LET new == Ordered(NewPids(d, grn_id, obs))
    IN [d EXCEPT !.protein = @ \o [k \in DOMAIN new |-> [pid |-> new[k], grn_id |-> grn_id]]]

LEMMA InsertedIs ==
    ASSUME NEW d, Sound(d), NEW grn_id \in Nat, NEW obs, Observation(obs)
    PROVE  LET e == Inserted(d, grn_id, obs)
           IN /\ IsDb(e) /\ SameKeys(d, e) /\ SameTrees(d, e) /\ Kept(d.protein, e.protein)
              /\ e.protein_state = d.protein_state /\ e.gene_state = d.gene_state
              /\ e.ptype_state = d.ptype_state
              /\ \A pid \in DOMAIN obs.concs : ProteinIds(e, grn_id, pid) # {}
              /\ ProteinsUnique(d) => ProteinsUnique(e)
<1> DEFINE fresh == NewPids(d, grn_id, obs)
           new == Ordered(fresh)
           rows == [k \in DOMAIN new |-> [pid |-> new[k], grn_id |-> grn_id]]
           e == Inserted(d, grn_id, obs)
           old == Len(d.protein)
<1>1. fresh \in SUBSET Nat /\ IsFiniteSet(fresh)
  BY FS_Subset DEF Observation, NewPids
<1>2. PICK n \in Nat : /\ new \in [1 .. n -> fresh]
                       /\ \A pid \in fresh : \E k \in 1 .. n : new[k] = pid
                       /\ \A k, l \in 1 .. n : new[k] = new[l] => k = l
  <2> HIDE DEF fresh
  <2> QED BY <1>1, OrderedIs
<1>3. DOMAIN new = 1 .. n /\ \A k \in 1 .. n : new[k] \in fresh /\ new[k] \in Int
  <2> HIDE DEF new, fresh
  <2>1. DOMAIN new = 1 .. n /\ \A k \in 1 .. n : new[k] \in fresh
    BY <1>2
  <2>2. fresh \subseteq Int
    BY <1>1
  <2> QED BY <2>1, <2>2
<1>4. /\ rows \in [1 .. n -> ProteinRows]
      /\ \A k \in 1 .. n : rows[k].pid = new[k] /\ rows[k].grn_id = grn_id
  <2> HIDE DEF new, fresh
  <2> QED BY <1>3 DEF ProteinRows
<1>5. d.protein \in Seq(ProteinRows) /\ Tables(d)
  BY DEF Sound, IsDb
<1>6. PICK x : x = d.protein \o rows
  OBVIOUS
<1>7. e = [d EXCEPT !.protein = x]
  BY <1>6 DEF Inserted
<1> HIDE DEF e, rows, new, fresh
<1>8. /\ Tables(e) /\ SameKeys(d, e) /\ SameTrees(d, e) /\ e.protein = x
      /\ e.protein_state = d.protein_state /\ e.gene_state = d.gene_state
      /\ e.ptype_state = d.ptype_state
  <2>1. Tables(d)
    BY <1>5
  <2> QED BY ONLY <1>7, <2>1 DEF Tables, SameKeys, SameTrees
<1>9. /\ x \in Seq(ProteinRows) /\ old \in Nat
      /\ DOMAIN x = 1 .. old + n /\ DOMAIN d.protein = 1 .. old
      /\ \A i \in 1 .. old : x[i] = d.protein[i]
      /\ \A i \in 1 .. n : x[old + i] = rows[i]
  <2>1. PICK table, added, S : table = d.protein /\ added = rows /\ S = ProteinRows
    OBVIOUS
  <2>2. table \in Seq(S) /\ added \in [1 .. n -> S]
    BY <1>4, <1>5, <2>1
  <2>3. x = table \o added
    BY <1>6, <2>1
  <2>4. /\ table \o added \in Seq(S) /\ Len(table) \in Nat
        /\ DOMAIN (table \o added) = 1 .. Len(table) + n /\ DOMAIN table = 1 .. Len(table)
        /\ \A i \in 1 .. Len(table) : (table \o added)[i] = table[i]
        /\ \A i \in 1 .. n : (table \o added)[Len(table) + i] = added[i]
    BY ONLY <1>2, <2>2, RowsAppended
  <2> QED BY ONLY <2>1, <2>3, <2>4
<1> HIDE DEF old
<1>10. \A i \in 1 .. old : i \in DOMAIN x
  BY ONLY <1>2, <1>9
<1>11. Kept(d.protein, x)
  BY <1>9, <1>10 DEF Kept
<1>12. \A i \in DOMAIN x : i \in 1 .. old \/ \E k \in 1 .. n : i = old + k
  <2> SUFFICES ASSUME NEW i \in 1 .. old + n, i \notin 1 .. old PROVE \E k \in 1 .. n : i = old + k
    BY <1>9
  <2>1. i - old \in 1 .. n /\ i = old + (i - old)
    BY ONLY <1>2, <1>9, i \in 1 .. old + n, i \notin 1 .. old
  <2> QED BY <2>1
<1>13. \A k \in 1 .. n : old + k \in DOMAIN x
  BY ONLY <1>2, <1>9
<1>14. \A k \in 1 .. n : x[old + k].pid = new[k] /\ x[old + k].grn_id = grn_id
  BY <1>4, <1>9
<1>15. ASSUME NEW pid \in DOMAIN obs.concs PROVE \E i \in DOMAIN x : x[i].grn_id = grn_id /\ x[i].pid = pid
  <2>1. CASE pid \in fresh
    <3>1. PICK k \in 1 .. n : new[k] = pid
      BY <1>2, <2>1
    <3> QED BY <1>13, <1>14, <3>1
  <2>2. CASE pid \notin fresh
    <3>1. PICK k \in DOMAIN d.protein : d.protein[k].grn_id = grn_id /\ d.protein[k].pid = pid
      BY <2>2 DEF fresh, NewPids, IsNewProtein, ProteinIds
    <3> QED BY <1>9, <1>10, <3>1
  <2> QED BY <2>1, <2>2
<1>16. ASSUME NEW k \in 1 .. n, NEW i \in 1 .. old, x[i].grn_id = grn_id PROVE x[i].pid # new[k]
  <2>1. ProteinIds(d, grn_id, new[k]) = {}
    BY <1>3 DEF fresh, NewPids, IsNewProtein
  <2>2. i \in DOMAIN d.protein /\ d.protein[i] = x[i]
    BY <1>9
  <2> QED BY <1>16, <2>1, <2>2 DEF ProteinIds
<1>17. ASSUME ProteinsUnique(d) PROVE ProteinsUnique(e)
  <2> SUFFICES ASSUME NEW i \in DOMAIN x, NEW j \in DOMAIN x, x[i].grn_id = x[j].grn_id, x[i].pid = x[j].pid
               PROVE  i = j
    BY <1>8 DEF ProteinsUnique
  <2>1. CASE i \in 1 .. old /\ j \in 1 .. old
    <3>1. x[i] = d.protein[i] /\ x[j] = d.protein[j] /\ i \in DOMAIN d.protein /\ j \in DOMAIN d.protein
      BY <1>9, <2>1
    <3> QED BY <1>17, <3>1 DEF ProteinsUnique
  <2>2. ASSUME i \in 1 .. old, NEW k \in 1 .. n, j = old + k PROVE FALSE
    BY <1>14, <1>16, <2>2
  <2>3. ASSUME j \in 1 .. old, NEW k \in 1 .. n, i = old + k PROVE FALSE
    BY <1>14, <1>16, <2>3
  <2>4. ASSUME NEW k \in 1 .. n, i = old + k, NEW l \in 1 .. n, j = old + l PROVE i = j
    <3>1. new[k] = new[l]
      BY <1>14, <2>4
    <3> QED BY <1>2, <2>4, <3>1
  <2> QED BY <1>12, <2>1, <2>2, <2>3, <2>4
<1>18. IsDb(e)
  BY <1>8, <1>9 DEF IsDb, Sound, SameKeys
<1>19. \A pid \in DOMAIN obs.concs : ProteinIds(e, grn_id, pid) # {}
  BY <1>8, <1>15 DEF ProteinIds
<1> QED BY <1>8, <1>11, <1>17, <1>18, <1>19 DEF e

(* The states of the proteins, in the order of their ids.                  *)
StateRows(d, grn_id, reg_step, obs) ==
    LET pids == Ordered(DOMAIN obs.concs)
    IN [k \in DOMAIN pids |->
          [reg_step |-> reg_step, conc |-> obs.concs[pids[k]], grn_id |-> grn_id,
           protein_id |-> First(ProteinIds(d, grn_id, pids[k]))]]

LEMMA WithProteinsIs ==
    ASSUME NEW d, Sound(d), NEW grn_id \in Nat, NEW reg_step, NEW obs, Observation(obs)
    PROVE  LET c == Inserted(d, grn_id, obs)
               e == WithProteins(d, grn_id, reg_step, obs)
           IN /\ e = [c EXCEPT !.protein_state = d.protein_state \o StateRows(c, grn_id, reg_step, obs)]
              /\ IsDb(e) /\ SameKeys(d, e) /\ e.protein = c.protein
              /\ \A pid \in DOMAIN obs.concs : ProteinIds(e, grn_id, pid) # {}
<1> DEFINE pids == Ordered(DOMAIN obs.concs)
           c == Inserted(d, grn_id, obs)
           x == c.protein_state \o StateRows(c, grn_id, reg_step, obs)
           e == WithProteins(d, grn_id, reg_step, obs)
<1>1. /\ IsDb(c) /\ SameKeys(d, c) /\ c.protein_state = d.protein_state
      /\ \A pid \in DOMAIN obs.concs : ProteinIds(c, grn_id, pid) # {}
  BY InsertedIs
<1>2. \A k \in DOMAIN pids : pids[k] \in DOMAIN obs.concs
  <2>1. DOMAIN obs.concs \in SUBSET Nat /\ IsFiniteSet(DOMAIN obs.concs)
    BY DEF Observation
  <2> QED BY <2>1, OrderedIs
<1>3. ~ \E k \in DOMAIN pids : ProteinIds(c, grn_id, pids[k]) = {}
  <2> HIDE DEF c, pids
  <2> QED BY <1>1, <1>2
<1>4. e = IF \E k \in DOMAIN pids : ProteinIds(c, grn_id, pids[k]) = {}
          THEN Failed(c) ELSE [c EXCEPT !.protein_state = x]
  BY DEF WithProteins, Inserted, NewPids, StateRows
<1> HIDE DEF e, c, x, pids
<1>5. e = [c EXCEPT !.protein_state = x]
  BY <1>3, <1>4
<1>6. IsDb(e) /\ SameKeys(c, e) /\ e.protein = c.protein
  BY <1>1, <1>5, ProteinStatesAdded
<1>7. SameKeys(d, e)
  BY <1>1, <1>6 DEF SameKeys
<1>8. \A pid \in DOMAIN obs.concs : ProteinIds(e, grn_id, pid) # {}
  BY <1>1, <1>6 DEF ProteinIds
<1> QED BY <1>1, <1>5, <1>6, <1>7, <1>8 DEF e, c, x

(* The states of the genes, in the order of their positions.               *)
ProteinRow(d, grn_id, pid) == IF pid = NoProtein THEN NoRow ELSE First(ProteinIds(d, grn_id, pid))
GeneStateRows(d, grn_id, reg_step, obs) ==
    [k \in 1 .. NumGenes |->
       [reg_step |-> reg_step, active_output |-> ProteinRow(d, grn_id, obs.active[k - 1]),
        bound_protein |-> ProteinRow(d, grn_id, obs.bound[k - 1]),
        gene_id |-> First(GeneIds(d, grn_id, k - 1))]]

HaveGeneStates(d, grn_id, reg_step, obs, e) ==
    /\ IsDb(e) /\ SameKeys(d, e) /\ SameTrees(d, e) /\ e.protein = d.protein
    /\ e.protein_state = d.protein_state /\ e.ptype_state = d.ptype_state
    /\ e.gene_state = d.gene_state \o GeneStateRows(d, grn_id, reg_step, obs)

LEMMA WithGeneStatesIs ==
    ASSUME NEW d, Sound(d), NEW grn_id \in DOMAIN d.grn, NEW reg_step, NEW obs, Observation(obs),
           \A pid \in DOMAIN obs.concs : ProteinIds(d, grn_id, pid) # {}
    PROVE  HaveGeneStates(d, grn_id, reg_step, obs, WithGeneStates(d, grn_id, reg_step, obs))
<1> DEFINE referred == {obs.active[g] : g \in Positions} \cup {obs.bound[g] : g \in Positions}
           x == d.gene_state \o GeneStateRows(d, grn_id, reg_step, obs)
           e == WithGeneStates(d, grn_id, reg_step, obs)
           fails == \/ \E g \in Positions : GeneIds(d, grn_id, g) = {}
                    \/ \E pid \in referred \ {NoProtein} : ProteinIds(d, grn_id, pid) = {}
<1>1. e = IF fails THEN Failed(d) ELSE [d EXCEPT !.gene_state = x]
  BY DEF WithGeneStates, GeneStateRows, ProteinRow
<1>2. referred \subseteq DOMAIN obs.concs \cup {NoProtein}
  BY DEF Observation
<1>3. ~ fails
  <2> HIDE DEF referred
  <2> QED BY <1>2 DEF Sound, HasGenes
<1> HIDE DEF x, e, fails
<1>4. e = [d EXCEPT !.gene_state = x]
  BY <1>1, <1>3
<1>5. IsDb(d)
  BY DEF Sound
<1>6. /\ IsDb(e) /\ SameKeys(d, e) /\ SameTrees(d, e) /\ e.protein = d.protein
      /\ e.protein_state = d.protein_state /\ e.ptype_state = d.ptype_state /\ e.gene_state = x
  BY <1>4, <1>5, GeneStatesAdded
<1> QED BY <1>6 DEF e, x, HaveGeneStates

(* A tree gets a row, and its nodes theirs, if it has any.                 *)
TreeAdded(d, e, t) ==
    IF Size(t) = 0 THEN SameTrees(d, e)
    ELSE /\ e.tree = Append(d.tree, [ptype_state_id |-> Len(e.ptype_state)])
         /\ e.node = IF HasRoot(t) THEN d.node \o NodeRows(t, Len(d.tree) + 1, Len(d.node) + 1)
                     ELSE d.node

LEMMA WithPhenotypeIs ==
    ASSUME NEW d, IsDb(d), NEW grn_id, NEW reg_step, NEW t
    PROVE  LET e == WithPhenotype(d, grn_id, reg_step, t)
           IN /\ IsDb(e) /\ SameKeys(d, e) /\ e.protein = d.protein
              /\ e.protein_state = d.protein_state /\ e.gene_state = d.gene_state
              /\ e.ptype_state = Append(d.ptype_state,
                                        [grn_id |-> grn_id, reg_step |-> reg_step, size |-> Size(t)])
              /\ TreeAdded(d, e, t)
<1> DEFINE x == Append(d.ptype_state, [grn_id |-> grn_id, reg_step |-> reg_step, size |-> Size(t)])
           stated == [d EXCEPT !.ptype_state = x]
           y == Append(stated.tree, [ptype_state_id |-> Len(stated.ptype_state)])
           z == IF HasRoot(t)
                THEN stated.node \o NodeRows(t, Len(stated.tree) + 1, Len(stated.node) + 1)
                ELSE stated.node
           e == WithPhenotype(d, grn_id, reg_step, t)
<1>1. e = IF Size(t) = 0 THEN stated ELSE [stated EXCEPT !.tree = y, !.node = z]
  BY DEF WithPhenotype
<1> HIDE DEF x
<1>2. /\ IsDb(stated) /\ SameKeys(d, stated) /\ SameTrees(d, stated) /\ stated.protein = d.protein
      /\ stated.protein_state = d.protein_state /\ stated.gene_state = d.gene_state
      /\ stated.ptype_state = x
  BY PhenotypeStatesAdded
<1> HIDE DEF stated, e
<1>3. CASE Size(t) = 0
  BY <1>1, <1>2, <1>3 DEF e, x, TreeAdded
<1>4. CASE Size(t) # 0
  <2>0. /\ y = Append(d.tree, [ptype_state_id |-> Len(stated.ptype_state)])
        /\ z = IF HasRoot(t) THEN d.node \o NodeRows(t, Len(d.tree) + 1, Len(d.node) + 1) ELSE d.node
    BY <1>2 DEF SameTrees
  <2> HIDE DEF y, z
  <2>1. e = WithTree(stated, y, z)
    BY <1>1, <1>4 DEF WithTree
  <2>2. /\ IsDb(e) /\ SameKeys(stated, e) /\ e.protein = stated.protein
        /\ e.protein_state = stated.protein_state /\ e.gene_state = stated.gene_state
        /\ e.ptype_state = stated.ptype_state /\ e.tree = y /\ e.node = z
    <3>1. IsDb(stated)
      BY <1>2
    <3> QED BY ONLY <2>1, <3>1, TreesAdded
  <2>3. SameKeys(d, e)
    BY <1>2, <2>2 DEF SameKeys
  <2>4. TreeAdded(d, e, t)
    BY <1>4, <2>0, <2>2 DEF TreeAdded
  <2> QED BY <1>2, <2>2, <2>3, <2>4 DEF e, x
<1> QED BY <1>3, <1>4

(***************************************************************************)
(* The programs: what a node lists, and what is seen below a node          *)
(***************************************************************************)
(* What a node lists are the nodes that hang below it, each once.          *)
LEMMA ListedOnce ==
    ASSUME NEW children \in Seq(Nat), NEW id
    PROVE  /\ Cardinality(Places(children, id)) = 1 =>
                /\ \E i \in 1 .. Len(children) : children[i] = id
                /\ \A i, j \in 1 .. Len(children) : children[i] = id /\ children[j] = id => i = j
           /\ Cardinality(Places(children, id)) = 0 =>
                \A i \in 1 .. Len(children) : children[i] # id
<1>1. Len(children) \in Nat /\ 1 \in Int
  OBVIOUS
<1>2. IsFiniteSet(1 .. Len(children))
  BY <1>1, FS_Interval
<1>3. Places(children, id) \subseteq 1 .. Len(children)
  BY DEF Places
<1>4. IsFiniteSet(Places(children, id))
  BY <1>2, <1>3, FS_Subset
<1>5. ASSUME Cardinality(Places(children, id)) = 1 PROVE \E i : Places(children, id) = {i}
  BY <1>4, <1>5, FS_Singleton
<1>6. ASSUME Cardinality(Places(children, id)) = 0 PROVE Places(children, id) = {}
  BY <1>4, <1>6, FS_EmptySet
<1>7. \A i \in 1 .. Len(children) : i \in Places(children, id) <=> children[i] = id
  BY DEF Places
<1>8. ASSUME Cardinality(Places(children, id)) = 1
      PROVE  /\ \E i \in 1 .. Len(children) : children[i] = id
             /\ \A i, j \in 1 .. Len(children) : children[i] = id /\ children[j] = id => i = j
  <2>1. PICK x : Places(children, id) = {x}
    BY <1>5, <1>8
  <2>2. x \in 1 .. Len(children)
    BY <1>3, <2>1
  <2> QED BY <1>7, <2>1, <2>2
<1> QED BY <1>6, <1>7, <1>8

ListsChildren(t, p) ==
    /\ \A i \in 1 .. Len(Children(t, p)) :
         /\ Children(t, p)[i] \in NodeIds(t) /\ p < Children(t, p)[i]
         /\ t.nodes[Children(t, p)[i]].parent = p
    /\ \A i, j \in 1 .. Len(Children(t, p)) : Children(t, p)[i] = Children(t, p)[j] => i = j
    /\ \A id \in NodeIds(t) : t.nodes[id].parent = p =>
         \E i \in 1 .. Len(Children(t, p)) : Children(t, p)[i] = id

LEMMA ChildrenOf ==
    ASSUME NEW t, WellFormed(t), NodeIds(t) \subseteq Nat, NEW p \in NodeIds(t), Children(t, p) \in Seq(Nat)
    PROVE  ListsChildren(t, p)
<1>1. \A id \in NodeIds(t) : NodeFormed(t, id)
  BY NodesFormed
<1>2. ASSUME NEW id \in NodeIds(t)
      PROVE  /\ t.nodes[id].parent = p =>
                  /\ \E i \in 1 .. Len(Children(t, p)) : Children(t, p)[i] = id
                  /\ \A i, j \in 1 .. Len(Children(t, p)) :
                       Children(t, p)[i] = id /\ Children(t, p)[j] = id => i = j
             /\ t.nodes[id].parent # p =>
                  \A i \in 1 .. Len(Children(t, p)) : Children(t, p)[i] # id
  <2>1. Cardinality(Places(Children(t, p), id)) = IF t.nodes[id].parent = p THEN 1 ELSE 0
    BY <1>1 DEF NodeFormed, Listed
  <2> QED BY <2>1, ListedOnce
<1>3. ASSUME NEW i \in 1 .. Len(Children(t, p))
      PROVE  /\ Children(t, p)[i] \in NodeIds(t) /\ p < Children(t, p)[i]
             /\ t.nodes[Children(t, p)[i]].parent = p
  <2>1. Children(t, p)[i] \in NodeIds(t)
    BY <1>1 DEF NodeFormed, NumChildren
  <2>2. t.nodes[Children(t, p)[i]].parent = p
    BY <1>2, <2>1
  <2>3. NodeFormed(t, Children(t, p)[i]) /\ p # NoParent
    BY <1>1, <2>1 DEF NoParent
  <2> QED BY <2>1, <2>2, <2>3 DEF NodeFormed
<1> QED BY <1>2, <1>3 DEF ListsChildren

(* The numbers of a set in their order are any increasing listing of them. *)
LEMMA OrderedIsSorted ==
    ASSUME NEW S \in SUBSET Nat, NEW m \in Nat, NEW at \in [1 .. m -> S],
           \A number \in S : \E i \in 1 .. m : at[i] = number,
           \A i, j \in 1 .. m : i < j => at[i] < at[j]
    PROVE  Ordered(S) = at
<1>1. \A i, j \in 1 .. m : at[i] = at[j] => i = j
  <2> SUFFICES ASSUME NEW i \in 1 .. m, NEW j \in 1 .. m, at[i] = at[j], i # j PROVE FALSE
    OBVIOUS
  <2>1. i < j \/ j < i
    OBVIOUS
  <2>2. at[i] \in Nat /\ at[j] \in Nat
    OBVIOUS
  <2> QED BY <2>1, <2>2
<1>2. ASSUME NEW k \in 0 .. m, NEW T \in SUBSET S, \A number \in S : number \in T <=> \E i \in 1 .. k : at[i] = number
      PROVE  Cardinality(T) = k
  <2> DEFINE f == [i \in 1 .. k |-> at[i]]
  <2>1. f \in [1 .. k -> T] /\ \A i \in 1 .. k : f[i] = at[i]
    <3>1. \A i \in 1 .. k : i \in 1 .. m
      OBVIOUS
    <3>2. \A i \in 1 .. k : at[i] \in S
      BY <3>1
    <3> QED BY <1>2, <3>2
  <2>2. k \in Nat /\ 1 \in Int /\ k \in Int
    OBVIOUS
  <2>3. IsFiniteSet(1 .. k) /\ Cardinality(1 .. k) = k
    <3>1. IsFiniteSet(1 .. k) /\ Cardinality(1 .. k) = IF 1 > k THEN 0 ELSE k - 1 + 1
      BY <2>2, FS_Interval
    <3> QED BY <2>2, <3>1
  <2> HIDE DEF f
  <2>4. f \in Injection(1 .. k, T)
    BY <1>1, <2>1 DEF Injection, IsInjective
  <2>5. f \in Surjection(1 .. k, T)
    BY <1>2, <2>1 DEF Surjection
  <2>6. ExistsBijection(1 .. k, T)
    BY <2>4, <2>5 DEF ExistsBijection, Bijection
  <2> QED BY <2>3, <2>6, FS_Bijection
<1>3. Cardinality(S) = m
  <2>1. m \in 0 .. m
    OBVIOUS
  <2> QED BY <1>2, <2>1
<1>4. ASSUME NEW i \in 1 .. m PROVE Cardinality(Below(at[i], S)) = i - 1
  <2>1. i - 1 \in 0 .. m /\ Below(at[i], S) \in SUBSET S
    BY DEF Below
  <2>2. ASSUME NEW j \in 1 .. m PROVE at[j] < at[i] <=> j \in 1 .. i - 1
    <3>1. at[i] \in Nat /\ at[j] \in Nat
      OBVIOUS
    <3>2. CASE j < i
      BY <3>2
    <3>3. CASE i < j
      BY <3>1, <3>3
    <3>4. CASE i = j
      BY <3>1, <3>4
    <3> QED BY <3>2, <3>3, <3>4
  <2>3. \A number \in S : number \in Below(at[i], S) <=> \E j \in 1 .. i - 1 : at[j] = number
    <3> SUFFICES ASSUME NEW number \in S
                 PROVE  number < at[i] <=> \E j \in 1 .. i - 1 : at[j] = number
      BY DEF Below
    <3>1. PICK j \in 1 .. m : at[j] = number
      OBVIOUS
    <3>2. \A l \in 1 .. i - 1 : l \in 1 .. m
      OBVIOUS
    <3> QED BY <1>1, <2>2, <3>1, <3>2
  <2> QED BY <1>2, <2>1, <2>3
<1>5. ASSUME NEW i \in 1 .. m
      PROVE  (CHOOSE number \in S : Cardinality(Below(number, S)) = i - 1) = at[i]
  <2>1. \E number \in S : Cardinality(Below(number, S)) = i - 1
    BY <1>4
  <2>2. PICK c : c = CHOOSE number \in S : Cardinality(Below(number, S)) = i - 1
    OBVIOUS
  <2>3. c \in S /\ Cardinality(Below(c, S)) = i - 1
    BY <2>1, <2>2
  <2>4. PICK j \in 1 .. m : at[j] = c
    BY <2>3
  <2>5. j - 1 = i - 1
    BY <1>4, <2>3, <2>4
  <2>6. j = i
    BY ONLY <2>5, i \in 1 .. m, j \in 1 .. m
  <2> QED BY <2>2, <2>4, <2>6
<1>6. Ordered(S) = [i \in 1 .. m |-> at[i]]
  BY <1>3, <1>5 DEF Ordered
<1> QED BY <1>6

(* A view of what hangs below each of the numbers of S: what D says of it, *)
(* and the views of those that K lists for it.                             *)
View(f, D, K, x) == [descr |-> D[x], below |-> [i \in DOMAIN K[x] |-> f[K[x][i]]]]
Views(f, S, D, K) == f = [x \in S |-> View(f, D, K, x)]
Viewed(f, S, D, K) == \A x \in S : f[x] = View(f, D, K, x)
Upward(S, K) == \A x \in S : \A i \in DOMAIN K[x] : K[x][i] \in S /\ x < K[x][i]

LEMMA ViewExists ==
    ASSUME NEW n \in Nat, NEW S \in SUBSET (0 .. n), NEW D, NEW K, Upward(S, K)
    PROVE  \E f : Views(f, S, D, K)
<1> DEFINE Top(m) == {x \in S : x + m > n}
           T == {m \in Nat : \E f : f = [x \in Top(m) |-> View(f, D, K, x)]}
<1>0. \A x \in S : x \in Nat /\ 0 <= x /\ x <= n
  <2>1. \A x \in 0 .. n : x \in Nat /\ 0 <= x /\ x <= n
    OBVIOUS
  <2> QED BY <2>1
<1>1. 0 \in T
  <2> DEFINE f == [x \in Top(0) |-> 0]
  <2>1. Top(0) = {}
    <3>1. \A x \in S : ~ (x + 0 > n)
      BY <1>0
    <3> QED BY <3>1
  <2>2. f = [x \in Top(0) |-> View(f, D, K, x)]
    BY <2>1
  <2> QED BY <2>2
<1>2. ASSUME NEW m \in Nat, m \in T PROVE m + 1 \in T
  <2>1. PICK f : f = [x \in Top(m) |-> View(f, D, K, x)]
    BY <1>2
  <2> DEFINE g == [x \in Top(m + 1) |-> View(f, D, K, x)]
  <2>2. ASSUME NEW x \in Top(m + 1), NEW i \in DOMAIN K[x] PROVE K[x][i] \in Top(m) /\ K[x][i] \in Top(m + 1)
    <3>1. x \in S /\ x + (m + 1) > n
      OBVIOUS
    <3>2. K[x][i] \in S /\ x < K[x][i]
      BY <3>1 DEF Upward
    <3>3. K[x][i] \in Nat /\ x \in Nat
      BY <1>0, <3>1, <3>2
    <3> HIDE DEF T
    <3>4. K[x][i] + m > n /\ K[x][i] + (m + 1) > n
      BY <3>1, <3>2, <3>3
    <3> QED BY <3>2, <3>4
  <2>3. ASSUME NEW x \in Top(m) PROVE g[x] = f[x]
    <3>1. x \in Top(m + 1)
      BY <1>0
    <3>2. g[x] = View(f, D, K, x)
      BY <3>1
    <3> QED BY <2>1, <3>2
  <2>4. ASSUME NEW x \in Top(m + 1) PROVE g[x] = View(g, D, K, x)
    <3>1. \A i \in DOMAIN K[x] : g[K[x][i]] = f[K[x][i]]
      BY <2>2, <2>3
    <3> HIDE DEF Top
    <3>2. g[x] = View(f, D, K, x)
      OBVIOUS
    <3> HIDE DEF g
    <3>3. [i \in DOMAIN K[x] |-> g[K[x][i]]] = [i \in DOMAIN K[x] |-> f[K[x][i]]]
      BY <3>1
    <3> QED BY <3>2, <3>3 DEF View
  <2>5. g = [x \in Top(m + 1) |-> View(g, D, K, x)]
    <3> HIDE DEF Top
    <3>1. \A x \in Top(m + 1) : View(f, D, K, x) = View(g, D, K, x)
      <4> SUFFICES ASSUME NEW x \in Top(m + 1) PROVE View(f, D, K, x) = View(g, D, K, x)
        OBVIOUS
      <4>1. g[x] = View(f, D, K, x)
        OBVIOUS
      <4> HIDE DEF g
      <4> QED BY <2>4, <4>1
    <3>2. PICK h : h = g
      OBVIOUS
    <3>3. h = [x \in Top(m + 1) |-> View(f, D, K, x)]
      BY <3>2
    <3>4. \A x \in Top(m + 1) : View(f, D, K, x) = View(h, D, K, x)
      BY <3>1, <3>2
    <3> HIDE DEF g
    <3>5. h = [x \in Top(m + 1) |-> View(h, D, K, x)]
      BY <3>3, <3>4
    <3> QED BY <3>2, <3>5
  <2> HIDE DEF g
  <2> QED BY <2>5
<1>3. n + 1 \in T
  <2> HIDE DEF T
  <2> QED BY <1>1, <1>2, NatSetInduction
<1>4. Top(n + 1) = S
  <2>1. \A x \in S : x + (n + 1) > n
    BY <1>0
  <2> QED BY <2>1
<1> QED BY <1>3, <1>4 DEF Views

(* Two views agree where the one's numbers stand for the other's.          *)
Alike(h, R, D, K, E, L) ==
    \A x \in R : /\ D[x] = E[h[x]] /\ DOMAIN K[x] = DOMAIN L[h[x]]
                 /\ \A i \in DOMAIN K[x] : h[K[x][i]] = L[h[x]][i]

LEMMA ViewsAgree ==
    ASSUME NEW n \in Nat, NEW R \in SUBSET (0 .. n), NEW D, NEW K, Upward(R, K),
           NEW f, Viewed(f, R, D, K),
           NEW N, NEW E, NEW L, NEW h \in [R -> N], NEW g, Viewed(g, N, E, L), Alike(h, R, D, K, E, L)
    PROVE  \A x \in R : f[x] = g[h[x]]
<1> DEFINE Same(x) == f[x] = g[h[x]]
           T == {m \in Nat : \A x \in R : x + m > n => Same(x)}
<1>0. \A x \in R : x \in Nat /\ 0 <= x /\ x <= n
  <2>1. \A x \in 0 .. n : x \in Nat /\ 0 <= x /\ x <= n
    OBVIOUS
  <2> QED BY <2>1
<1>1. 0 \in T
  <2>1. \A x \in R : ~ (x + 0 > n)
    BY <1>0
  <2> QED BY <2>1
<1>2. ASSUME NEW m \in Nat, m \in T, NEW x \in R, x + (m + 1) > n PROVE Same(x)
  <2>1. \A i \in DOMAIN K[x] : K[x][i] \in R /\ K[x][i] + m > n
    <3> SUFFICES ASSUME NEW i \in DOMAIN K[x] PROVE K[x][i] \in R /\ K[x][i] + m > n
      OBVIOUS
    <3>1. K[x][i] \in R /\ x < K[x][i]
      BY DEF Upward
    <3>2. K[x][i] \in Nat /\ x \in Nat
      BY <1>0, <3>1
    <3> QED BY ONLY <1>2, <3>1, <3>2, m \in Nat, n \in Nat
  <2>2. \A i \in DOMAIN K[x] : f[K[x][i]] = g[L[h[x]][i]]
    BY <1>2, <2>1 DEF Alike
  <2>3. h[x] \in N /\ D[x] = E[h[x]] /\ DOMAIN K[x] = DOMAIN L[h[x]]
    BY DEF Alike
  <2>4. [i \in DOMAIN K[x] |-> f[K[x][i]]] = [i \in DOMAIN L[h[x]] |-> g[L[h[x]][i]]]
    BY <2>2, <2>3
  <2>5. f[x] = View(f, D, K, x) /\ g[h[x]] = View(g, E, L, h[x])
    BY <2>3 DEF Viewed
  <2> QED BY <2>3, <2>4, <2>5 DEF View
<1>3. n + 1 \in T
  <2>1. ASSUME NEW m \in Nat, m \in T PROVE m + 1 \in T
    <3> HIDE DEF Same
    <3>1. \A x \in R : x + (m + 1) > n => Same(x)
      <4> HIDE DEF T
      <4> QED BY <1>2, <2>1
    <3>2. m + 1 \in Nat
      OBVIOUS
    <3> QED BY <3>1, <3>2
  <2> HIDE DEF T
  <2> QED BY <1>1, <2>1, NatSetInduction
<1>4. \A x \in R : x + (n + 1) > n
  BY <1>0
<1> QED BY <1>3, <1>4

(***************************************************************************)
(* The calls of insert_node                                                *)
(***************************************************************************)
IsCalls(calls) == calls \in Seq([id : Nat, parent_id : Nat])

LEMMA CalledIs ==
    ASSUME NEW calls, IsCalls(calls), NEW k \in 1 .. Len(calls), NEW children \in Seq(Nat), NEW row \in Nat
    PROVE  LET after == Called(calls, k, children, row)
               n == Len(children)
           IN /\ IsCalls(after) /\ Len(after) = Len(calls) + n
              /\ \A j \in 1 .. k : after[j] = calls[j]
              /\ \A i \in 1 .. n : after[k + i] = [id |-> children[i], parent_id |-> row]
              /\ \A j \in k + 1 .. Len(calls) : after[j + n] = calls[j]
<1> DEFINE after == Called(calls, k, children, row)
           n == Len(children)
           m == Len(calls)
           S == [id : Nat, parent_id : Nat]
           a == SubSeq(calls, 1, k)
           b == [i \in 1 .. Len(children) |-> [id |-> children[i], parent_id |-> row]]
           c == SubSeq(calls, k + 1, m)
<1>1. m \in Nat /\ n \in Nat /\ calls \in Seq(S) /\ k \in Int /\ k + 1 \in Int /\ m \in Int
  BY DEF IsCalls
<1>2. \A i \in 1 .. m : calls[i] \in S
  <2> HIDE DEF S
  <2> QED BY <1>1
<1>3. a \in Seq(S) /\ Len(a) = k /\ \A i \in 1 .. k : a[i] = calls[i]
  <2>1. \A i \in 1 .. k : calls[i] \in S
    BY <1>1, <1>2
  <2> HIDE DEF S
  <2>2. a \in Seq(S) /\ Len(a) = (IF 1 <= k THEN k - 1 + 1 ELSE 0) /\ \A i \in 1 .. k - 1 + 1 : a[i] = calls[1 + i - 1]
    BY <1>1, <2>1, SubSeqProperties
  <2> HIDE DEF a
  <2> QED BY <2>2
<1>4. c \in Seq(S) /\ Len(c) = m - k /\ \A i \in 1 .. m - k : c[i] = calls[k + i]
  <2>1. \A i \in k + 1 .. m : calls[i] \in S
    BY <1>1, <1>2
  <2> HIDE DEF S, m
  <2>2. c \in Seq(S) /\ Len(c) = (IF k + 1 <= m THEN m - (k + 1) + 1 ELSE 0)
        /\ \A i \in 1 .. m - (k + 1) + 1 : c[i] = calls[(k + 1) + i - 1]
    BY <1>1, <2>1, SubSeqProperties
  <2> HIDE DEF c
  <2>3. k <= m
    BY DEF m
  <2>4. /\ (IF k + 1 <= m THEN m - (k + 1) + 1 ELSE 0) = m - k
        /\ m - (k + 1) + 1 = m - k /\ \A i \in 1 .. m - k : (k + 1) + i - 1 = k + i
    BY ONLY <1>1, <2>3
  <2> QED BY <2>2, <2>4
<1>5. b \in Seq(S) /\ Len(b) = n /\ \A i \in 1 .. n : b[i] = [id |-> children[i], parent_id |-> row]
  <2>1. b \in [1 .. n -> S] /\ \A i \in 1 .. n : b[i] = [id |-> children[i], parent_id |-> row]
    OBVIOUS
  <2> HIDE DEF b, S, n
  <2>2. b \in Seq(S) /\ Len(b) = n
    BY <1>1, <2>1, IsASeq
  <2> QED BY <2>1, <2>2
<1>6. after = (a \o b) \o c
  BY DEF Called
<1> HIDE DEF after, a, b, c, n, S
<1>7. PICK d : d = a \o b
  OBVIOUS
<1>8. d \in Seq(S) /\ Len(d) = k + n /\ \A i \in 1 .. k + n : d[i] = IF i <= k THEN a[i] ELSE b[i - k]
  BY <1>3, <1>5, <1>7, ConcatProperties
<1>9. after \in Seq(S) /\ Len(after) = k + n + (m - k)
      /\ \A i \in 1 .. k + n + (m - k) : after[i] = IF i <= k + n THEN d[i] ELSE c[i - (k + n)]
  <2>1. after = d \o c
    BY <1>6, <1>7
  <2>2. PICK p \in Nat, q \in Nat : p = k + n /\ q = m - k
    <3>1. k <= m /\ 1 <= k
      BY DEF m
    <3>2. k + n \in Nat /\ m - k \in Nat
      <4> HIDE DEF m
      <4> QED BY <1>1, <3>1
    <3> QED BY <3>2
  <2>3. d \in Seq(S) /\ Len(d) = p /\ c \in Seq(S) /\ Len(c) = q
    BY <1>4, <1>8, <2>2
  <2>4. d \o c \in Seq(S) /\ Len(d \o c) = p + q
        /\ \A i \in 1 .. p + q : (d \o c)[i] = IF i <= p THEN d[i] ELSE c[i - p]
    BY ONLY <2>3, ConcatProperties
  <2> QED BY <2>1, <2>2, <2>4
<1>10. IsCalls(after) /\ Len(after) = m + n
  <2>1. IsCalls(after)
    BY <1>9 DEF IsCalls, S
  <2> HIDE DEF m
  <2> QED BY <1>1, <1>9, <2>1
<1>11. \A j \in 1 .. k : after[j] = calls[j]
  <2> HIDE DEF m
  <2> SUFFICES ASSUME NEW j \in 1 .. k PROVE after[j] = calls[j]
    OBVIOUS
  <2>1. k <= m
    BY DEF m
  <2>2. j \in 1 .. k + n + (m - k) /\ j <= k + n /\ j \in 1 .. k + n /\ j <= k
    BY <1>1, <2>1
  <2> QED BY <1>3, <1>8, <1>9, <2>2
<1>12. \A i \in 1 .. n : after[k + i] = [id |-> children[i], parent_id |-> row]
  <2> SUFFICES ASSUME NEW i \in 1 .. n PROVE after[k + i] = [id |-> children[i], parent_id |-> row]
    OBVIOUS
  <2>1. k <= m
    OBVIOUS
  <2> HIDE DEF m
  <2>2. k + i \in 1 .. k + n + (m - k) /\ k + i <= k + n /\ k + i \in 1 .. k + n /\ ~ (k + i <= k)
        /\ (k + i) - k = i
    BY <1>1, <2>1
  <2>3. after[k + i] = d[k + i] /\ d[k + i] = b[(k + i) - k]
    BY <1>8, <1>9, <2>2
  <2> QED BY <1>5, <2>2, <2>3
<1>13. \A j \in k + 1 .. m : after[j + n] = calls[j]
  <2> SUFFICES ASSUME NEW j \in k + 1 .. m PROVE after[j + n] = calls[j]
    OBVIOUS
  <2> HIDE DEF m
  <2>1. j + n \in 1 .. k + n + (m - k) /\ ~ (j + n <= k + n) /\ (j + n) - (k + n) = j - k
        /\ j - k \in 1 .. m - k /\ k + (j - k) = j
    BY <1>1
  <2>2. after[j + n] = c[j - k]
    BY <1>9, <2>1
  <2> QED BY <1>4, <2>1, <2>2
<1> QED BY <1>10, <1>11, <1>12, <1>13 DEF after, n
(* After k rounds: every node that has a call has one, in the place of its *)
(* parent's row, after that of its parent, and in the order of the         *)
(* children; the first k nodes have calls for all of their children.       *)
Parented(calls, k, t, first) ==
    \A j \in 2 .. Len(calls) : \E q \in 1 .. k :
        q < j /\ calls[j].parent_id = first + q - 1 /\ t.nodes[calls[j].id].parent = calls[q].id
InChildOrder(calls, t) ==
    \A x \in NodeIds(t) : \A i, j \in 1 .. Len(Children(t, x)) : \A p, q \in 1 .. Len(calls) :
        i < j /\ calls[p].id = Children(t, x)[i] /\ calls[q].id = Children(t, x)[j] => p < q
AllCalled(calls, k, t) ==
    \A q \in 1 .. Len(calls) : q <= k =>
        \A i \in 1 .. Len(Children(t, calls[q].id)) : \E p \in 1 .. Len(calls) :
            calls[p].id = Children(t, calls[q].id)[i]
CallsOK(calls, k, t, first) ==
    /\ IsCalls(calls) /\ 1 <= Len(calls) /\ calls[1] = [id |-> 0, parent_id |-> NoRow]
    /\ \A j \in 1 .. Len(calls) : calls[j].id \in NodeIds(t)
    /\ \A i, j \in 1 .. Len(calls) : calls[i].id = calls[j].id => i = j
    /\ Parented(calls, k, t, first) /\ InChildOrder(calls, t) /\ AllCalled(calls, k, t)

LEMMA FirstCall ==
    ASSUME NEW t, IsProgram(t), HasRoot(t), NEW first
    PROVE  CallsOK(<<[id |-> 0, parent_id |-> NoRow]>>, 0, t, first)
<1> DEFINE call == [id |-> 0, parent_id |-> NoRow]
           calls == <<call>>
<1>1. call \in [id : Nat, parent_id : Nat]
  BY DEF NoRow
<1>2. call.id = 0
  OBVIOUS
<1> HIDE DEF call
<1>3. IsCalls(calls) /\ Len(calls) = 1 /\ calls[1] = call
  BY <1>1 DEF IsCalls
<1> HIDE DEF calls
<1>4. Parented(calls, 0, t, first) /\ AllCalled(calls, 0, t)
  BY <1>3 DEF Parented, AllCalled
<1>5. InChildOrder(calls, t)
  <2> SUFFICES ASSUME NEW x \in NodeIds(t), NEW i \in 1 .. Len(Children(t, x)), calls[1].id = Children(t, x)[i]
               PROVE  FALSE
    BY <1>3 DEF InChildOrder
  <2>1. WellFormed(t) /\ NodeIds(t) \subseteq Nat /\ Children(t, x) \in Seq(Nat)
    <3>1. Size(t) \in Nat
      BY FS_CardinalityType DEF IsProgram, Size
    <3> QED BY <3>1 DEF IsProgram, IdsContiguous
  <2>2. Children(t, x)[i] \in NodeIds(t) /\ x < Children(t, x)[i]
    BY <2>1, ChildrenOf DEF ListsChildren
  <2> QED BY <1>2, <1>3, <2>1, <2>2
<1> QED BY <1>2, <1>3, <1>4, <1>5 DEF CallsOK, HasRoot, call, calls

LEMMA NextCall ==
    ASSUME NEW t, IsProgram(t), NEW first \in Nat \ {0}, NEW k \in Nat, NEW calls, CallsOK(calls, k, t, first),
           k + 1 <= Len(calls)
    PROVE  CallsOK(Called(calls, k + 1, Children(t, calls[k + 1].id), first + k), k + 1, t, first)
<1> DEFINE c == k + 1
           x == calls[c].id
           kids == Children(t, x)
           n == Len(kids)
           m == Len(calls)
           row == first + k
           after == Called(calls, c, kids, row)
           up(j) == IF j <= c THEN j ELSE j + n
<1>1. /\ IsCalls(calls) /\ m \in Nat /\ c \in 1 .. m /\ calls[1] = [id |-> 0, parent_id |-> NoRow]
      /\ \A j \in 1 .. m : calls[j].id \in NodeIds(t)
      /\ \A i, j \in 1 .. m : calls[i].id = calls[j].id => i = j
      /\ Parented(calls, k, t, first) /\ InChildOrder(calls, t) /\ AllCalled(calls, k, t)
  BY DEF CallsOK, IsCalls
<1>2. WellFormed(t) /\ NodeIds(t) \subseteq Nat /\ \A y \in NodeIds(t) : Children(t, y) \in Seq(Nat)
  <2>1. Size(t) \in Nat
    BY FS_CardinalityType DEF IsProgram, Size
  <2> QED BY <2>1 DEF IsProgram, IdsContiguous
<1>3. x \in NodeIds(t) /\ kids \in Seq(Nat) /\ n \in Nat /\ row \in Nat
  BY <1>1, <1>2
<1>4. ASSUME NEW y \in NodeIds(t)
      PROVE  /\ \A i \in 1 .. Len(Children(t, y)) :
                  /\ Children(t, y)[i] \in NodeIds(t) /\ y < Children(t, y)[i]
                  /\ t.nodes[Children(t, y)[i]].parent = y
             /\ \A i, j \in 1 .. Len(Children(t, y)) : Children(t, y)[i] = Children(t, y)[j] => i = j
             /\ \A id \in NodeIds(t) : t.nodes[id].parent = y =>
                  \E i \in 1 .. Len(Children(t, y)) : Children(t, y)[i] = id
  <2>1. Children(t, y) \in Seq(Nat)
    BY <1>2
  <2>2. WellFormed(t) /\ NodeIds(t) \subseteq Nat /\ y \in NodeIds(t)
    BY <1>2
  <2>3. ListsChildren(t, y)
    BY <2>1, <2>2, ChildrenOf
  <2> QED BY ONLY <2>3 DEF ListsChildren
<1> HIDE DEF c, x, kids, n, m, row
<1>5. /\ IsCalls(after) /\ Len(after) = m + n
      /\ \A j \in 1 .. c : after[j] = calls[j]
      /\ \A i \in 1 .. n : after[c + i] = [id |-> kids[i], parent_id |-> row]
      /\ \A j \in c + 1 .. m : after[j + n] = calls[j]
  <2>1. c \in 1 .. Len(calls) /\ IsCalls(calls) /\ kids \in Seq(Nat) /\ row \in Nat
    BY <1>1, <1>3 DEF m
  <2> QED BY <2>1, CalledIs DEF m, n
<1> HIDE DEF after
<1>6. /\ \A j \in 1 .. m : up(j) \in 1 .. m + n /\ after[up(j)] = calls[j]
      /\ \A i, j \in 1 .. m : i < j => up(i) < up(j)
      /\ \A i, j \in 1 .. m : up(i) = up(j) => i = j
      /\ \A j \in 1 .. m : j <= up(j) /\ (j <= c => up(j) = j)
  <2>1. \A j \in 1 .. m : j \in 1 .. c \/ j \in c + 1 .. m
    BY <1>1
  <2>2. \A j \in 1 .. m : after[up(j)] = calls[j]
    BY <1>1, <1>5, <2>1
  <2>3. c \in Nat
    BY <1>1
  <2> QED BY ONLY <1>1, <1>3, <2>2, <2>3
<1>7. \A i \in 1 .. n : c + i \in 1 .. m + n /\ after[c + i].id = kids[i] /\ after[c + i].parent_id = row
  <2> SUFFICES ASSUME NEW i \in 1 .. n
               PROVE  c + i \in 1 .. m + n /\ after[c + i].id = kids[i] /\ after[c + i].parent_id = row
    OBVIOUS
  <2>1. c + i \in 1 .. m + n
    BY <1>1, <1>3
  <2>2. after[c + i] = [id |-> kids[i], parent_id |-> row]
    BY <1>5
  <2> QED BY <2>1, <2>2
<1>8. \A j \in 1 .. m + n : (\E i \in 1 .. m : j = up(i)) \/ (\E i \in 1 .. n : j = c + i)
  <2> SUFFICES ASSUME NEW j \in 1 .. m + n
               PROVE  (\E i \in 1 .. m : j = up(i)) \/ (\E i \in 1 .. n : j = c + i)
    OBVIOUS
  <2>0. c \in Nat /\ 1 <= c /\ c <= m
    BY <1>1
  <2>1. CASE j <= c
    <3>1. j \in 1 .. m /\ j = up(j)
      BY <1>1, <2>0, <2>1
    <3> QED BY <3>1
  <2>2. CASE c < j /\ j <= c + n
    <3>1. j - c \in 1 .. n /\ j = c + (j - c)
      BY <1>3, <2>0, <2>2
    <3> QED BY <3>1
  <2>3. CASE c + n < j
    <3>1. j - n \in 1 .. m /\ ~ (j - n <= c) /\ j = (j - n) + n
      BY <1>1, <1>3, <2>0, <2>3
    <3>2. j = up(j - n)
      BY <3>1
    <3> QED BY <3>1, <3>2
  <2> QED BY <1>1, <1>3, <2>0, <2>1, <2>2, <2>3
<1> HIDE DEF up
(* No child of this one has a call yet.                                    *)
<1>9. \A j \in 1 .. m : \A i \in 1 .. n : calls[j].id # kids[i]
  <2> SUFFICES ASSUME NEW j \in 1 .. m, NEW i \in 1 .. n, calls[j].id = kids[i] PROVE FALSE
    OBVIOUS
  <2>1. t.nodes[calls[j].id].parent = x /\ x < calls[j].id
    BY <1>3, <1>4 DEF kids, n
  <2>2. calls[j].id \in Nat /\ x \in Nat
    BY <1>1, <1>2, <1>3
  <2>3. j # 1
    BY <1>1, <2>1, <2>2
  <2>4. j \in 2 .. m
    BY <1>1, <2>3
  <2>5. PICK q \in 1 .. k : q < j /\ t.nodes[calls[j].id].parent = calls[q].id
    BY <1>1, <2>4 DEF Parented, m
  <2>6. q \in 1 .. m /\ q # c
    BY <1>1 DEF c
  <2> QED BY <1>1, <2>1, <2>5, <2>6 DEF x
<1>10. \A i, j \in 1 .. n : kids[i] = kids[j] => i = j
  BY <1>3, <1>4 DEF kids, n
<1>11. \A i, j \in 1 .. m + n : after[i].id = after[j].id => i = j
  <2> SUFFICES ASSUME NEW i \in 1 .. m + n, NEW j \in 1 .. m + n, after[i].id = after[j].id PROVE i = j
    OBVIOUS
  <2>1. ASSUME NEW r \in 1 .. m, i = up(r), NEW s \in 1 .. m, j = up(s) PROVE i = j
    <3>1. calls[r].id = calls[s].id
      BY <1>6, <2>1
    <3> QED BY <1>1, <2>1, <3>1
  <2>2. ASSUME NEW a \in 1 .. n, i = c + a, NEW b \in 1 .. n, j = c + b PROVE i = j
    <3>1. kids[a] = kids[b]
      BY <1>7, <2>2
    <3> QED BY <1>10, <2>2, <3>1
  <2>3. ASSUME NEW r \in 1 .. m, NEW a \in 1 .. n PROVE after[up(r)].id # after[c + a].id
    BY <1>6, <1>7, <1>9
  <2> QED BY <1>8, <2>1, <2>2, <2>3
<1>12. \A j \in 1 .. m + n : after[j].id \in NodeIds(t)
  <2>1. \A i \in 1 .. n : kids[i] \in NodeIds(t)
    BY <1>3, <1>4 DEF kids, n
  <2> SUFFICES ASSUME NEW j \in 1 .. m + n PROVE after[j].id \in NodeIds(t)
    OBVIOUS
  <2>2. ASSUME NEW i \in 1 .. m, j = up(i) PROVE after[j].id \in NodeIds(t)
    BY <1>1, <1>6, <2>2
  <2>3. ASSUME NEW i \in 1 .. n, j = c + i PROVE after[j].id \in NodeIds(t)
    BY <1>7, <2>1, <2>3
  <2> QED BY <1>8, <2>2, <2>3
<1>13. 1 <= m + n /\ after[1] = [id |-> 0, parent_id |-> NoRow]
  <2>1. 1 \in 1 .. c /\ 1 <= m
    BY <1>1
  <2> QED BY <1>1, <1>3, <1>5, <2>1
<1>14. Parented(after, c, t, first)
  <2> SUFFICES ASSUME NEW j \in 2 .. m + n
               PROVE  \E q \in 1 .. c : /\ q < j /\ after[j].parent_id = first + q - 1
                                        /\ t.nodes[after[j].id].parent = after[q].id
    BY <1>5 DEF Parented
  <2>0. c \in 1 .. c /\ c \in 1 .. m
    BY <1>1
  <2>1. ASSUME NEW i \in 1 .. n, j = c + i
        PROVE  c < j /\ after[j].parent_id = first + c - 1 /\ t.nodes[after[j].id].parent = after[c].id
    <3>1. c < j
      BY <1>1, <2>1
    <3>2. t.nodes[kids[i]].parent = x
      BY <1>3, <1>4 DEF kids, n
    <3>3. row = first + c - 1
      BY DEF row, c
    <3> QED BY <1>5, <1>7, <2>0, <2>1, <3>1, <3>2, <3>3 DEF x
  <2>2. ASSUME NEW i \in 1 .. m, j = up(i)
        PROVE  \E q \in 1 .. c : /\ q < j /\ after[j].parent_id = first + q - 1
                                 /\ t.nodes[after[j].id].parent = after[q].id
    <3>1. i \in 2 .. m
      BY <1>1, <1>6, <2>2
    <3>2. PICK q \in 1 .. k : /\ q < i /\ calls[i].parent_id = first + q - 1
                              /\ t.nodes[calls[i].id].parent = calls[q].id
      BY <1>1, <3>1 DEF Parented, m
    <3>3. q \in 1 .. c /\ q \in 1 .. m /\ q <= c
      BY <1>1 DEF c
    <3>4. q < j
      BY <1>1, <1>6, <2>2, <3>2, <3>3
    <3> QED BY <1>5, <1>6, <2>2, <3>2, <3>3, <3>4
  <2> QED BY <1>8, <2>0, <2>1, <2>2
<1>15. AllCalled(after, c, t)
  <2> SUFFICES ASSUME NEW q \in 1 .. m + n, q <= c, NEW i \in 1 .. Len(Children(t, after[q].id))
               PROVE  \E p \in 1 .. m + n : after[p].id = Children(t, after[q].id)[i]
    BY <1>5 DEF AllCalled
  <2>1. q \in 1 .. c /\ q \in 1 .. m /\ after[q] = calls[q]
    <3>1. c \in Nat /\ n \in Nat /\ q \in 1 .. c
      BY <1>1, <1>3
    <3>2. q \in 1 .. m
      BY <1>1, <3>1
    <3> QED BY <1>5, <3>1, <3>2
  <2>2. CASE q = c
    <3>1. after[q].id = x /\ i \in 1 .. n /\ Children(t, after[q].id)[i] = kids[i]
      BY <2>1, <2>2 DEF x, kids, n
    <3> QED BY <1>7, <3>1
  <2>3. CASE q # c
    <3>1. q <= k
      BY <1>1, <2>1, <2>3 DEF c
    <3>2. PICK p \in 1 .. m : calls[p].id = Children(t, calls[q].id)[i]
      BY <1>1, <2>1, <3>1 DEF AllCalled, m
    <3> QED BY <1>6, <2>1, <3>2
  <2> QED BY <2>2, <2>3
<1>16. InChildOrder(after, t)
  <2> SUFFICES ASSUME NEW y \in NodeIds(t), NEW i \in 1 .. Len(Children(t, y)), NEW j \in 1 .. Len(Children(t, y)),
                      NEW p \in 1 .. m + n, NEW q \in 1 .. m + n, i < j,
                      after[p].id = Children(t, y)[i], after[q].id = Children(t, y)[j]
               PROVE  p < q
    BY <1>5 DEF InChildOrder
  <2>1. t.nodes[after[p].id].parent = y /\ t.nodes[after[q].id].parent = y
    BY <1>4
  <2>2. ASSUME NEW a \in 1 .. n, NEW r \in 1 .. m PROVE t.nodes[kids[a]].parent # t.nodes[calls[r].id].parent
    <3> SUFFICES ASSUME t.nodes[calls[r].id].parent = x PROVE FALSE
      BY <1>3, <1>4 DEF kids, n
    <3>1. PICK b \in 1 .. n : kids[b] = calls[r].id
      <4>1. calls[r].id \in NodeIds(t)
        BY <1>1
      <4>2. \E b \in 1 .. Len(Children(t, x)) : Children(t, x)[b] = calls[r].id
        <5>1. PICK id \in NodeIds(t) : id = calls[r].id /\ t.nodes[id].parent = x
          BY <4>1
        <5>2. \E b \in 1 .. Len(Children(t, x)) : Children(t, x)[b] = id
          <6>1. ListsChildren(t, x)
            BY <1>2, <1>3, ChildrenOf
          <6> QED BY <5>1, <6>1 DEF ListsChildren
        <5> QED BY <5>1, <5>2
      <4> QED BY <4>2 DEF kids, n
    <3> QED BY <1>9, <3>1
  <2> DEFINE parent(id) == t.nodes[id].parent
  <2> HIDE DEF parent
  <2>3. \A a \in 1 .. n : \A r \in 1 .. m : parent(after[c + a].id) # parent(after[up(r)].id)
    <3> SUFFICES ASSUME NEW a \in 1 .. n, NEW r \in 1 .. m
                 PROVE  parent(after[c + a].id) # parent(after[up(r)].id)
      OBVIOUS
    <3>1. after[c + a].id = kids[a] /\ after[up(r)] = calls[r]
      BY <1>6, <1>7
    <3> QED BY <2>2, <3>1 DEF parent
  <2>4. parent(after[p].id) = parent(after[q].id)
    BY <2>1 DEF parent
  <2>5. CASE \E a \in 1 .. n : p = c + a
    <3>1. PICK a \in 1 .. n : p = c + a
      BY <2>5
    <3>2. PICK b \in 1 .. n : q = c + b
      BY <1>8, <2>3, <2>4, <3>1
    <3>3. y = x
      <4>1. t.nodes[kids[a]].parent = x /\ after[c + a].id = kids[a]
        BY <1>3, <1>4, <1>7 DEF kids, n
      <4> QED BY <2>1, <3>1, <4>1
    <3>4. kids[a] = kids[i] /\ kids[b] = kids[j] /\ i \in 1 .. n /\ j \in 1 .. n
      BY <1>7, <3>1, <3>2, <3>3 DEF kids, n
    <3>5. a = i /\ b = j
      BY <1>10, <3>4
    <3> QED BY <1>1, <1>3, <3>1, <3>2, <3>5
  <2>6. ASSUME NEW r \in 1 .. m, p = up(r) PROVE p < q
    <3>1. PICK s \in 1 .. m : q = up(s)
      BY <1>8, <2>3, <2>4, <2>6
    <3>2. calls[r].id = Children(t, y)[i] /\ calls[s].id = Children(t, y)[j]
      BY <1>6, <2>6, <3>1
    <3>3. r < s
      BY <1>1, <3>2 DEF InChildOrder, m
    <3> QED BY <1>6, <2>6, <3>1, <3>3
  <2> QED BY <1>8, <2>5, <2>6
<1>17. CallsOK(after, c, t, first)
  BY <1>5, <1>11, <1>12, <1>13, <1>14, <1>15, <1>16 DEF CallsOK
<1> QED BY <1>17 DEF after, c, x, kids, row
(* Rounds for which there is no call left change nothing.                  *)
LEMMA CallsStay ==
    ASSUME NEW calls, NEW k \in Nat, NEW t, NEW first, CallsOK(calls, k, t, first), Len(calls) < k + 1
    PROVE  CallsOK(calls, k + 1, t, first)
<1>1. Len(calls) \in Nat
  BY DEF CallsOK, IsCalls
<1>2. Parented(calls, k + 1, t, first)
  <2> SUFFICES ASSUME NEW j \in 2 .. Len(calls)
               PROVE  \E q \in 1 .. k + 1 : /\ q < j /\ calls[j].parent_id = first + q - 1
                                            /\ t.nodes[calls[j].id].parent = calls[q].id
    BY DEF Parented
  <2>1. PICK q \in 1 .. k : q < j /\ calls[j].parent_id = first + q - 1 /\ t.nodes[calls[j].id].parent = calls[q].id
    BY DEF CallsOK, Parented
  <2>2. q \in 1 .. k + 1
    OBVIOUS
  <2> QED BY <2>1, <2>2
<1>3. AllCalled(calls, k + 1, t)
  <2>1. \A q \in 1 .. Len(calls) : q <= k
    BY <1>1
  <2> QED BY <2>1 DEF CallsOK, AllCalled
<1> QED BY <1>2, <1>3 DEF CallsOK

LEMMA ProgramIds ==
    ASSUME NEW t, IsProgram(t)
    PROVE  /\ Size(t) \in Nat /\ NodeIds(t) = 0 .. Size(t) - 1 /\ IsFiniteSet(NodeIds(t))
           /\ WellFormed(t) /\ \A id \in NodeIds(t) : Children(t, id) \in Seq(Nat)
           /\ (HasRoot(t) <=> Size(t) # 0)
<1>1. Size(t) \in Nat
  BY FS_CardinalityType DEF IsProgram, Size
<1> QED BY <1>1 DEF IsProgram, IdsContiguous, HasRoot

(* Every node that has a call has one for each of its children.            *)
LEMMA NodeCallsAre ==
    ASSUME NEW t, IsProgram(t), HasRoot(t), NEW first \in Nat \ {0}
    PROVE  \E k \in Nat : /\ CallsOK(NodeCalls(t, first), k, t, first)
                          /\ Len(NodeCalls(t, first)) <= k
<1> DEFINE n == Size(t)
           start == <<[id |-> 0, parent_id |-> NoRow]>>
           round(before, k) ==
             IF k > Len(before) THEN before
             ELSE Called(before, k, Children(t, before[k].id), first + k - 1)
           next(f, k) == IF k = 0 THEN start ELSE round(f[k - 1], k)
           T == {m \in Nat : \E f : f = [k \in 0 .. m |-> next(f, k)]}
<1>1. n \in Nat
  BY ProgramIds
<1> HIDE DEF start, round
<1>2. 0 \in T
  <2> DEFINE f == [k \in 0 .. 0 |-> start]
  <2>1. f = [k \in 0 .. 0 |-> next(f, k)]
    OBVIOUS
  <2> QED BY <2>1
<1>3. ASSUME NEW m \in Nat, m \in T PROVE m + 1 \in T
  <2>1. PICK f : f = [k \in 0 .. m |-> next(f, k)]
    BY <1>3
  <2> DEFINE g == [k \in 0 .. m + 1 |-> IF k = m + 1 THEN next(f, m + 1) ELSE f[k]]
  <2>2. ASSUME NEW k \in 0 .. m + 1 PROVE g[k] = next(g, k)
    <3>1. CASE k = 0
      BY <2>1, <3>1
    <3>2. CASE k # 0
      <4>1. k - 1 \in 0 .. m /\ k - 1 # m + 1
        BY <3>2
      <4>2. g[k - 1] = f[k - 1]
        BY <4>1
      <4>3. next(g, k) = next(f, k)
        BY <4>2
      <4>4. g[k] = next(f, k)
        <5>1. CASE k = m + 1
          BY <5>1
        <5>2. CASE k # m + 1
          BY <2>1, <5>2
        <5> QED BY <5>1, <5>2
      <4> QED BY <4>3, <4>4
    <3> QED BY <3>1, <3>2
  <2>3. g = [k \in 0 .. m + 1 |-> next(g, k)]
    BY <2>2
  <2> HIDE DEF g, next
  <2> QED BY <2>3
<1>4. \E f : f = [k \in 0 .. n |-> next(f, k)]
  <2> HIDE DEF T, n
  <2>1. n \in T
    BY <1>1, <1>2, <1>3, NatSetInduction
  <2> QED BY <2>1 DEF T
<1> DEFINE calls == CHOOSE f : f = [k \in 0 .. n |-> next(f, k)]
<1>5. calls = [k \in 0 .. n |-> next(calls, k)]
  BY <1>4
<1>6. NodeCalls(t, first) = calls[n]
  BY DEF NodeCalls, start, round
<1> HIDE DEF calls, n
<1>7. calls[0] = start
  BY <1>1, <1>5
<1>8. ASSUME NEW k \in 1 .. n PROVE calls[k] = round(calls[k - 1], k)
  BY <1>1, <1>5
<1>9. ASSUME NEW k \in 1 .. n, CallsOK(calls[k - 1], k - 1, t, first) PROVE CallsOK(calls[k], k, t, first)
  <2>1. PICK j \in Nat : j = k - 1
    BY <1>1
  <2>0. PICK before : before = calls[k - 1]
    OBVIOUS
  <2>2. CallsOK(before, j, t, first) /\ k = j + 1 /\ first + k - 1 = first + j
    BY <1>9, <2>0, <2>1
  <2>3. calls[k] = round(before, k)
    BY <1>8, <2>0
  <2>4. Len(before) \in Nat
    BY <2>2 DEF CallsOK, IsCalls
  <2>5. CASE k > Len(before)
    <3>1. calls[k] = before /\ Len(before) < j + 1
      BY <2>2, <2>3, <2>4, <2>5 DEF round
    <3> QED BY <2>2, <3>1, CallsStay
  <2>6. CASE ~ (k > Len(before))
    <3>1. calls[k] = Called(before, j + 1, Children(t, before[j + 1].id), first + j) /\ j + 1 <= Len(before)
      BY <2>2, <2>3, <2>4, <2>6 DEF round
    <3> QED BY <2>2, <3>1, NextCall
  <2> QED BY <2>5, <2>6
<1> DEFINE R == {k \in Nat : CallsOK(calls[k], k, t, first)}
<1>10. n \in R
  <2>1. 0 \in R
    BY <1>7, FirstCall DEF start
  <2>2. \A k \in 1 .. n : k - 1 \in R => k \in R
    BY <1>1, <1>9
  <2> HIDE DEF R
  <2>3. 0 .. n \subseteq R
    BY <1>1, <2>1, <2>2, RoundsInduction
  <2> QED BY <1>1, <2>3
<1>11. PICK c : c = calls[n] /\ CallsOK(c, n, t, first)
  BY <1>10
<1>12. Len(c) <= n
  <2> DEFINE m == Len(c)
             f == [j \in 1 .. m |-> c[j].id]
  <2>1. m \in Nat /\ 1 \in Int /\ m \in Int
    BY <1>11 DEF CallsOK, IsCalls
  <2>2. f \in Injection(1 .. m, NodeIds(t))
    <3>1. f \in [1 .. m -> NodeIds(t)]
      BY <1>11 DEF CallsOK
    <3>2. \A i, j \in 1 .. m : f[i] = f[j] => i = j
      BY <1>11 DEF CallsOK
    <3> HIDE DEF f, m
    <3> QED BY <3>1, <3>2 DEF Injection, IsInjective
  <2> HIDE DEF f, m
  <2>3. Cardinality(1 .. m) <= Cardinality(NodeIds(t))
    BY <2>2, ProgramIds, FS_Injection
  <2>4. Cardinality(1 .. m) = IF 1 > m THEN 0 ELSE m - 1 + 1
    BY <2>1, FS_Interval
  <2>5. Cardinality(NodeIds(t)) = n
    BY DEF n, Size
  <2>6. m <= n
    BY <1>1, <2>1, <2>3, <2>4, <2>5
  <2> QED BY <2>6 DEF m
<1> QED BY <1>1, <1>6, <1>11, <1>12

(***************************************************************************)
(* Tables, and rows that are appended to them                              *)
(***************************************************************************)
IsTable(table) == \E S : table \in Seq(S)
HasRows(rows, m) == rows = [k \in 1 .. m |-> rows[k]]

Lengthened(table, m, rows, longer) ==
    /\ IsTable(longer) /\ Kept(table, longer)
    /\ \A k \in 1 .. m : Len(table) + k \in DOMAIN longer /\ longer[Len(table) + k] = rows[k]
    /\ \A k \in DOMAIN longer : k \in DOMAIN table \/ \E i \in 1 .. m : k = Len(table) + i

LEMMA TableGrown ==
    ASSUME NEW table, IsTable(table), NEW m \in Nat, NEW rows, HasRows(rows, m),
           NEW longer, longer = table \o rows
    PROVE  Lengthened(table, m, rows, longer)
<1>1. PICK S : table \in Seq(S)
  BY DEF IsTable
<1> DEFINE U == S \cup {rows[k] : k \in 1 .. m}
<1>2. rows \in [1 .. m -> U]
  BY DEF HasRows
<1>3. table \in Seq(U)
  <2>1. Len(table) \in Nat /\ table \in [1 .. Len(table) -> S]
    BY <1>1
  <2>2. table \in [1 .. Len(table) -> U]
    BY <2>1
  <2> HIDE DEF U
  <2> QED BY <2>1, <2>2, IsASeq
<1> HIDE DEF U
<1>4. /\ longer \in Seq(U) /\ Len(table) \in Nat
      /\ DOMAIN longer = 1 .. Len(table) + m /\ DOMAIN table = 1 .. Len(table)
      /\ \A i \in 1 .. Len(table) : longer[i] = table[i]
      /\ \A i \in 1 .. m : longer[Len(table) + i] = rows[i]
  BY <1>2, <1>3, RowsAppended
<1>5. PICK n \in Nat : n = Len(table)
  BY <1>4
<1>6. \A k \in 1 .. n + m : k \in 1 .. n \/ \E i \in 1 .. m : k = n + i
  <2> SUFFICES ASSUME NEW k \in 1 .. n + m, k \notin 1 .. n PROVE \E i \in 1 .. m : k = n + i
    OBVIOUS
  <2>1. k - n \in 1 .. m /\ k = n + (k - n)
    OBVIOUS
  <2> QED BY <2>1
<1>7. (\A k \in 1 .. m : n + k \in 1 .. n + m) /\ 1 .. n \subseteq 1 .. n + m
  OBVIOUS
<1>8. IsTable(longer)
  BY <1>4 DEF IsTable
<1>9. Kept(table, longer)
  BY <1>4, <1>5, <1>7 DEF Kept
<1>10. /\ \A k \in 1 .. m : Len(table) + k \in DOMAIN longer /\ longer[Len(table) + k] = rows[k]
       /\ \A k \in DOMAIN longer : k \in DOMAIN table \/ \E i \in 1 .. m : k = Len(table) + i
  BY <1>4, <1>5, <1>6, <1>7
<1> QED BY <1>8, <1>9, <1>10 DEF Lengthened


(* The calls for the children of a node refer to its row, and no others.   *)
Follow(calls, q, kids, row, pos) ==
    /\ pos \in [1 .. Len(kids) -> 1 .. Len(calls)]
    /\ \A i \in 1 .. Len(kids) : /\ calls[pos[i]].id = kids[i] /\ q < pos[i]
                                 /\ calls[pos[i]].parent_id = row
    /\ \A i, j \in 1 .. Len(kids) : i < j => pos[i] < pos[j]
    /\ \A p \in 1 .. Len(calls) : calls[p].parent_id = row => \E i \in 1 .. Len(kids) : pos[i] = p

LEMMA CallsBelow ==
    ASSUME NEW t, IsProgram(t), NEW first \in Nat \ {0}, NEW k \in Nat, NEW calls, CallsOK(calls, k, t, first),
           Len(calls) <= k, NEW q \in 1 .. Len(calls),
           NEW x, x = calls[q].id, NEW kids, kids = Children(t, x)
    PROVE  \E pos : Follow(calls, q, kids, first + q - 1, pos)
<1> DEFINE m == Len(calls)
           n == Len(kids)
<1>1. /\ m \in Nat /\ calls[1] = [id |-> 0, parent_id |-> NoRow]
      /\ \A j \in 1 .. m : calls[j].id \in NodeIds(t)
      /\ \A i, j \in 1 .. m : calls[i].id = calls[j].id => i = j
      /\ Parented(calls, k, t, first) /\ InChildOrder(calls, t) /\ AllCalled(calls, k, t)
  BY DEF CallsOK, IsCalls
<1>2. /\ WellFormed(t) /\ NodeIds(t) \subseteq Nat /\ x \in NodeIds(t) /\ kids \in Seq(Nat) /\ n \in Nat
      /\ Children(t, x) \in Seq(Nat) /\ kids = Children(t, x)
  BY <1>1, ProgramIds
<1>3. /\ \A i \in 1 .. n : kids[i] \in NodeIds(t) /\ x < kids[i] /\ t.nodes[kids[i]].parent = x
      /\ \A id \in NodeIds(t) : t.nodes[id].parent = x => \E i \in 1 .. n : kids[i] = id
  <2>1. ListsChildren(t, x)
    BY <1>2, ChildrenOf
  <2> QED BY <1>2, <2>1 DEF ListsChildren
<1>4. \A i \in 1 .. n : \E p \in 1 .. m : calls[p].id = kids[i]
  <2>1. q \in 1 .. m /\ q <= k
    BY <1>1
  <2>2. \A i \in 1 .. Len(Children(t, x)) : \E p \in 1 .. m : calls[p].id = Children(t, x)[i]
    BY <1>1, <2>1 DEF AllCalled
  <2> QED BY <1>2, <2>2
<1> DEFINE pos == [i \in 1 .. n |-> CHOOSE p \in 1 .. m : calls[p].id = kids[i]]
<1>5. pos \in [1 .. n -> 1 .. m] /\ \A i \in 1 .. n : pos[i] \in 1 .. m /\ calls[pos[i]].id = kids[i]
  BY <1>4
<1> HIDE DEF pos
<1>6. ASSUME NEW p \in 2 .. m
      PROVE  \E r \in 1 .. m : /\ r < p /\ calls[p].parent_id = first + r - 1
                               /\ t.nodes[calls[p].id].parent = calls[r].id
  <2>1. PICK r \in 1 .. k : r < p /\ calls[p].parent_id = first + r - 1 /\ t.nodes[calls[p].id].parent = calls[r].id
    BY <1>1 DEF Parented
  <2>2. r \in 1 .. m
    BY <1>1, <2>1
  <2> QED BY <2>1, <2>2
<1>7. ASSUME NEW i \in 1 .. n PROVE q < pos[i] /\ calls[pos[i]].parent_id = first + q - 1
  <2>1. pos[i] # 1
    <3>1. kids[i] \in Nat /\ x \in Nat /\ x < kids[i]
      BY <1>2, <1>3
    <3>2. calls[1].id = 0
      BY <1>1
    <3> QED BY <1>5, <3>1, <3>2
  <2>2. pos[i] \in 2 .. m
    BY <1>1, <1>5, <2>1
  <2>3. PICK r \in 1 .. m : /\ r < pos[i] /\ calls[pos[i]].parent_id = first + r - 1
                            /\ t.nodes[calls[pos[i]].id].parent = calls[r].id
    BY <1>6, <2>2
  <2>4. t.nodes[kids[i]].parent = x /\ calls[pos[i]].id = kids[i]
    BY <1>3, <1>5
  <2>5. r = q
    BY <1>1, <2>3, <2>4
  <2> QED BY <2>3, <2>5
<1>8. ASSUME NEW i \in 1 .. n, NEW j \in 1 .. n, i < j PROVE pos[i] < pos[j]
  <2>1. calls[pos[i]].id = Children(t, x)[i] /\ calls[pos[j]].id = Children(t, x)[j]
    BY <1>2, <1>5
  <2>2. /\ pos[i] \in 1 .. Len(calls) /\ pos[j] \in 1 .. Len(calls) /\ x \in NodeIds(t)
        /\ i \in 1 .. Len(Children(t, x)) /\ j \in 1 .. Len(Children(t, x))
    BY <1>2, <1>5
  <2> QED BY <1>1, <1>8, <2>1, <2>2 DEF InChildOrder
<1>9. ASSUME NEW p \in 1 .. m, calls[p].parent_id = first + q - 1 PROVE \E i \in 1 .. n : pos[i] = p
  <2>1. p # 1
    <3>1. calls[1].parent_id = 0
      BY <1>1 DEF NoRow
    <3> QED BY <1>9, <3>1
  <2>2. p \in 2 .. m
    BY <1>1, <2>1
  <2>3. PICK r \in 1 .. m : calls[p].parent_id = first + r - 1 /\ t.nodes[calls[p].id].parent = calls[r].id
    BY <1>6, <2>2
  <2>4. r = q
    BY <1>9, <2>3
  <2>5. PICK id \in NodeIds(t) : id = calls[p].id /\ t.nodes[id].parent = x
    BY <1>1, <2>3, <2>4
  <2>6. PICK i \in 1 .. n : kids[i] = id
    BY <1>3, <2>5
  <2>7. pos[i] = p
    BY <1>1, <1>5, <2>5, <2>6
  <2> QED BY <2>7
<1>10. Follow(calls, q, kids, first + q - 1, pos)
  BY <1>5, <1>7, <1>8, <1>9 DEF Follow
<1> QED BY <1>10

LEMMA FirstIsRoot ==
    ASSUME NEW t, NEW first \in Nat \ {0}, NEW k \in Nat, NEW calls, CallsOK(calls, k, t, first)
    PROVE  /\ Len(calls) \in Nat /\ 1 \in 1 .. Len(calls) /\ calls[1].id = 0 /\ calls[1].parent_id = NoRow
           /\ \A p \in 1 .. Len(calls) : calls[p].parent_id = NoRow => p = 1
<1>1. /\ Len(calls) \in Nat /\ 1 <= Len(calls) /\ calls[1] = [id |-> 0, parent_id |-> NoRow]
      /\ Parented(calls, k, t, first)
  BY DEF CallsOK, IsCalls
<1>2. ASSUME NEW p \in 1 .. Len(calls), p # 1 PROVE calls[p].parent_id # NoRow
  <2>1. p \in 2 .. Len(calls)
    BY <1>1, <1>2
  <2>2. PICK r \in 1 .. k : calls[p].parent_id = first + r - 1
    BY <1>1, <2>1 DEF Parented
  <2> QED BY <2>2 DEF NoRow
<1> QED BY <1>1, <1>2

(***************************************************************************)
(* The rows of a tree                                                      *)
(***************************************************************************)
RowsOf(rows, j) == {k \in DOMAIN rows : rows[k].tree_id = j}
RowsBelow(rows, j, k) == {l \in DOMAIN rows : rows[l].tree_id = j /\ rows[l].parent_id = k}

(* The rows of S in their order.                                           *)
Lists(at, m, S) ==
    /\ at \in [1 .. m -> S] /\ \A row \in S : \E i \in 1 .. m : at[i] = row
    /\ \A i, j \in 1 .. m : i < j => at[i] < at[j]

(* Every row stands for a node, the rows below it for the node's children  *)
(* in their order, and one without a parent for the root.                  *)
StandsFor(rows, j, k, node, t) ==
    /\ rows[k].descr = t.nodes[node[k]].instr /\ (rows[k].parent_id = NoRow => node[k] = 0)
    /\ \E at : /\ Lists(at, Len(Children(t, node[k])), RowsBelow(rows, j, k))
               /\ \A i \in 1 .. Len(Children(t, node[k])) : k < at[i] /\ node[at[i]] = Children(t, node[k])[i]
Encodes(rows, j, t) ==
    /\ \E k \in RowsOf(rows, j) : rows[k].parent_id = NoRow
    /\ \E node \in [RowsOf(rows, j) -> NodeIds(t)] :
         \A k \in RowsOf(rows, j) : StandsFor(rows, j, k, node, t)

MoreNodes(table, j, t, longer) ==
    /\ IsTable(longer) /\ Kept(table, longer) /\ Encodes(longer, j, t)
    /\ \A k \in DOMAIN longer : k \in DOMAIN table \/ longer[k].tree_id = j

LEMMA NodesEncode ==
    ASSUME NEW table, IsTable(table), NEW t, IsProgram(t), HasRoot(t), NEW j, RowsOf(table, j) = {}
    PROVE  MoreNodes(table, j, t, table \o NodeRows(t, j, Len(table) + 1))
<1> DEFINE old == Len(table)
           first == old + 1
           calls == NodeCalls(t, first)
           m == Len(calls)
           rows == NodeRows(t, j, first)
           longer == table \o NodeRows(t, j, Len(table) + 1)
<1>1. old \in Nat /\ first \in Nat \ {0}
  BY DEF IsTable
<1>2. PICK k \in Nat : CallsOK(calls, k, t, first) /\ m <= k
  <2> HIDE DEF first
  <2> QED BY <1>1, NodeCallsAre
<1>3. HasRows(rows, m) /\ \A p \in 1 .. m : /\ rows[p].tree_id = j /\ rows[p].parent_id = calls[p].parent_id
                                            /\ rows[p].descr = t.nodes[calls[p].id].instr
  <2> HIDE DEF calls
  <2> QED BY DEF NodeRows, HasRows, calls
<1>4. m \in Nat /\ \A p \in 1 .. m : calls[p].id \in NodeIds(t)
  BY <1>2 DEF CallsOK, IsCalls
<1>5. longer = table \o rows
  OBVIOUS
<1> HIDE DEF rows, calls, longer
<1>6. Lengthened(table, m, rows, longer)
  <2> HIDE DEF m
  <2> QED BY <1>3, <1>4, <1>5, TableGrown
<1> HIDE DEF m
<1>7. /\ IsTable(longer) /\ Kept(table, longer)
      /\ \A p \in 1 .. m : old + p \in DOMAIN longer /\ longer[old + p] = rows[p]
      /\ \A l \in DOMAIN longer : l \in DOMAIN table \/ \E p \in 1 .. m : l = old + p
  BY <1>6 DEF Lengthened
<1>8. \A l \in DOMAIN table : longer[l].tree_id # j
  BY <1>7 DEF Kept, RowsOf
<1> HIDE DEF old
<1>9. RowsOf(longer, j) = {old + p : p \in 1 .. m}
  BY <1>3, <1>7, <1>8 DEF RowsOf
<1> DEFINE node == [l \in RowsOf(longer, j) |-> calls[l - old].id]
<1>10. ASSUME NEW p \in 1 .. m
       PROVE  /\ old + p \in RowsOf(longer, j) /\ node[old + p] = calls[p].id
              /\ longer[old + p].tree_id = j /\ longer[old + p].parent_id = calls[p].parent_id
              /\ longer[old + p].descr = t.nodes[calls[p].id].instr
  <2>1. (old + p) - old = p
    BY <1>1
  <2> QED BY <1>3, <1>7, <1>9, <2>1
<1>11. node \in [RowsOf(longer, j) -> NodeIds(t)]
  <2>1. \A l \in RowsOf(longer, j) : node[l] \in NodeIds(t)
    <3> HIDE DEF node
    <3> QED BY <1>4, <1>9, <1>10
  <2> QED BY <2>1
<1> HIDE DEF node
<1>12. /\ 1 \in 1 .. m /\ calls[1].id = 0 /\ calls[1].parent_id = NoRow
       /\ \A p \in 1 .. m : calls[p].parent_id = NoRow => p = 1
  <2> HIDE DEF first
  <2>1. CallsOK(calls, k, t, first) /\ first \in Nat \ {0} /\ k \in Nat
    BY <1>1, <1>2
  <2> QED BY <2>1, FirstIsRoot DEF m
<1>13. ASSUME NEW q \in 1 .. m PROVE StandsFor(longer, j, old + q, node, t)
  <2> DEFINE x == calls[q].id
             kids == Children(t, x)
             n == Len(kids)
  <2>0. PICK y, below, pos : y = x /\ below = kids /\ Follow(calls, q, below, first + q - 1, pos)
    <3>1. PICK y, below : y = x /\ below = kids
      OBVIOUS
    <3>2. /\ q \in 1 .. Len(calls) /\ Len(calls) <= k /\ CallsOK(calls, k, t, first)
          /\ first \in Nat \ {0} /\ k \in Nat /\ IsProgram(t) /\ y = calls[q].id /\ below = Children(t, y)
      BY <1>1, <1>2, <3>1 DEF m
    <3> HIDE DEF kids, first, x, n
    <3>3. \E pos : Follow(calls, q, below, first + q - 1, pos)
      BY ONLY <3>2, CallsBelow
    <3> QED BY <3>1, <3>3
  <2>1. /\ pos \in [1 .. n -> 1 .. m]
        /\ \A i \in 1 .. n : calls[pos[i]].id = kids[i] /\ q < pos[i] /\ calls[pos[i]].parent_id = first + q - 1
        /\ \A i, l \in 1 .. n : i < l => pos[i] < pos[l]
        /\ \A p \in 1 .. m : calls[p].parent_id = first + q - 1 => \E i \in 1 .. n : pos[i] = p
    BY <2>0 DEF Follow, m
  <2> HIDE DEF n
  <2> DEFINE at == [i \in 1 .. n |-> old + pos[i]]
  <2>2. first + q - 1 = old + q
    BY <1>1
  <2>3. ASSUME NEW i \in 1 .. n
        PROVE  /\ at[i] \in RowsBelow(longer, j, old + q) /\ old + q < at[i] /\ node[at[i]] = kids[i]
    <3>1. pos[i] \in 1 .. m /\ at[i] = old + pos[i]
      BY <2>1
    <3>2. old + q < old + pos[i]
      BY <1>1, <2>1, <3>1
    <3> QED BY <1>7, <1>10, <2>1, <2>2, <3>1, <3>2 DEF RowsBelow
  <2>4. ASSUME NEW i \in 1 .. n, NEW l \in 1 .. n, i < l PROVE at[i] < at[l]
    <3>1. pos[i] \in 1 .. m /\ pos[l] \in 1 .. m /\ pos[i] < pos[l]
      BY <2>1, <2>4
    <3> QED BY <1>1, <3>1
  <2>5. ASSUME NEW row \in RowsBelow(longer, j, old + q) PROVE \E i \in 1 .. n : at[i] = row
    <3>1. PICK p \in 1 .. m : row = old + p
      BY <1>7, <1>8 DEF RowsBelow
    <3>2. calls[p].parent_id = old + q
      BY <1>10, <3>1 DEF RowsBelow
    <3>3. PICK i \in 1 .. n : pos[i] = p
      BY <2>1, <2>2, <3>2
    <3> QED BY <3>1, <3>3
  <2>6. at \in [1 .. n -> RowsBelow(longer, j, old + q)]
    BY <2>3
  <2> HIDE DEF at
  <2>7. Lists(at, n, RowsBelow(longer, j, old + q))
    BY <2>4, <2>5, <2>6 DEF Lists
  <2>8. longer[old + q].parent_id = NoRow => node[old + q] = 0
    <3>1. calls[1].id = 0 /\ (calls[q].parent_id = NoRow => q = 1)
      BY <1>12
    <3> QED BY <1>10, <3>1
  <2>9. node[old + q] = calls[q].id /\ longer[old + q].descr = t.nodes[node[old + q]].instr
    BY <1>10
  <2>10. n = Len(Children(t, node[old + q])) /\ kids = Children(t, node[old + q])
    BY <2>9 DEF n
  <2> QED BY <2>3, <2>7, <2>8, <2>9, <2>10 DEF StandsFor
<1>14. \E l \in RowsOf(longer, j) : longer[l].parent_id = NoRow
  BY <1>10, <1>12
<1>15. Encodes(longer, j, t)
  BY <1>9, <1>11, <1>13, <1>14 DEF Encodes
<1>16. \A l \in DOMAIN longer : l \in DOMAIN table \/ longer[l].tree_id = j
  BY <1>7, <1>10
<1>17. MoreNodes(table, j, t, longer)
  BY <1>7, <1>15, <1>16 DEF MoreNodes
<1> QED BY <1>17 DEF longer

(* Rows of other trees leave a tree as it is.                              *)
LEMMA EncodesStays ==
    ASSUME NEW rows, NEW longer, Kept(rows, longer), NEW j, NEW t, Encodes(rows, j, t),
           \A k \in DOMAIN longer : k \in DOMAIN rows \/ longer[k].tree_id # j
    PROVE  Encodes(longer, j, t)
<1>1. RowsOf(longer, j) = RowsOf(rows, j)
  BY DEF RowsOf, Kept
<1>2. \A k : RowsBelow(longer, j, k) = RowsBelow(rows, j, k)
  BY DEF RowsBelow, Kept
<1>3. \A k \in RowsOf(rows, j) : longer[k] = rows[k]
  BY DEF RowsOf, Kept
<1>4. \A k \in RowsOf(rows, j) : \A node : StandsFor(rows, j, k, node, t) => StandsFor(longer, j, k, node, t)
  BY <1>2, <1>3 DEF StandsFor
<1>5. \E k \in RowsOf(rows, j) : longer[k].parent_id = NoRow
  BY <1>3 DEF Encodes
<1>6. \E node \in [RowsOf(rows, j) -> NodeIds(t)] :
        \A k \in RowsOf(rows, j) : StandsFor(longer, j, k, node, t)
  BY <1>4 DEF Encodes
<1> QED BY <1>1, <1>5, <1>6 DEF Encodes

(* The rows that TreeGen selects below a row are those of its children.    *)
BelowRow(rows, k) == Ordered(RowsBelow(rows, rows[k].tree_id, k))

LEMMA BelowRowIs ==
    ASSUME NEW rows, DOMAIN rows \subseteq Nat, NEW t, IsProgram(t), NEW k \in DOMAIN rows,
           NEW node, node[k] \in NodeIds(t), NEW j, j = rows[k].tree_id, StandsFor(rows, j, k, node, t)
    PROVE  /\ DOMAIN BelowRow(rows, k) = DOMAIN Children(t, node[k])
           /\ \A i \in DOMAIN BelowRow(rows, k) :
                /\ BelowRow(rows, k)[i] \in RowsOf(rows, j) /\ k < BelowRow(rows, k)[i]
                /\ node[BelowRow(rows, k)[i]] = Children(t, node[k])[i]
<1> DEFINE m == Len(Children(t, node[k]))
           S == RowsBelow(rows, j, k)
<1>1. Children(t, node[k]) \in Seq(Nat) /\ m \in Nat /\ DOMAIN Children(t, node[k]) = 1 .. m
  <2>1. Children(t, node[k]) \in Seq(Nat)
    BY ProgramIds
  <2> QED BY <2>1
<1>2. S \in SUBSET Nat
  BY DEF RowsBelow
<1>3. PICK at : /\ Lists(at, m, S)
                /\ \A i \in 1 .. m : k < at[i] /\ node[at[i]] = Children(t, node[k])[i]
  BY DEF StandsFor
<1> HIDE DEF m, S
<1>4. at \in [1 .. m -> S] /\ Ordered(S) = at
  BY <1>1, <1>2, <1>3, OrderedIsSorted DEF Lists
<1>5. BelowRow(rows, k) = at /\ DOMAIN at = 1 .. m /\ \A i \in 1 .. m : at[i] \in S
  BY <1>4 DEF BelowRow, S
<1>6. \A row \in S : row \in RowsOf(rows, j)
  BY DEF S, RowsBelow, RowsOf
<1> QED BY <1>1, <1>3, <1>5, <1>6

(* Every row is of some tree that the table has.                           *)
AllEncoded(rows) ==
    \A k \in DOMAIN rows : \E t : IsProgram(t) /\ Encodes(rows, rows[k].tree_id, t)

LEMMA ShownNodeIs ==
    ASSUME NEW d, IsTable(d.node), AllEncoded(d.node),
           NEW D, D = [k \in DOMAIN d.node |-> d.node[k].descr],
           NEW K, K = [k \in DOMAIN d.node |-> BelowRow(d.node, k)]
    PROVE  /\ \E n \in Nat : DOMAIN d.node \in SUBSET (0 .. n)
           /\ Upward(DOMAIN d.node, K)
           /\ Viewed(ShownNode(d), DOMAIN d.node, D, K)
<1> DEFINE S == DOMAIN d.node
<1>1. PICK n \in Nat : S = 1 .. n
  <2>1. PICK V : d.node \in Seq(V)
    BY DEF IsTable
  <2>2. Len(d.node) \in Nat /\ S = 1 .. Len(d.node)
    BY <2>1
  <2> QED BY <2>2
<1>2. S \in SUBSET (0 .. n) /\ S \subseteq Nat
  BY <1>1
<1> HIDE DEF S
<1>3. ASSUME NEW k \in S, NEW i \in DOMAIN K[k] PROVE K[k][i] \in S /\ k < K[k][i]
  <2>1. PICK rows, j : rows = d.node /\ j = rows[k].tree_id
    OBVIOUS
  <2>2. PICK t : IsProgram(t) /\ Encodes(rows, j, t)
    BY <2>1 DEF AllEncoded, S
  <2>3. PICK node \in [RowsOf(rows, j) -> NodeIds(t)] : \A l \in RowsOf(rows, j) : StandsFor(rows, j, l, node, t)
    BY <2>2 DEF Encodes
  <2>4. k \in RowsOf(rows, j) /\ k \in DOMAIN rows /\ DOMAIN rows \subseteq Nat /\ K[k] = BelowRow(rows, k)
    BY <1>2, <2>1 DEF RowsOf, S
  <2>5. node[k] \in NodeIds(t) /\ StandsFor(rows, j, k, node, t)
    BY <2>3, <2>4
  <2>6. \A l \in DOMAIN BelowRow(rows, k) : BelowRow(rows, k)[l] \in RowsOf(rows, j) /\ k < BelowRow(rows, k)[l]
    BY <2>1, <2>2, <2>4, <2>5, BelowRowIs
  <2>7. RowsOf(rows, j) \subseteq S
    BY <2>1 DEF RowsOf, S
  <2> QED BY <2>4, <2>6, <2>7
<1>4. Upward(S, K)
  BY <1>3 DEF Upward
<1> DEFINE f == ShownNode(d)
<1>5. f = CHOOSE g : g = [k \in S |-> View(g, D, K, k)]
  BY DEF ShownNode, View, BelowRow, RowsBelow, S
<1>6. \E g : Views(g, S, D, K)
  BY <1>2, <1>4, ViewExists
<1> HIDE DEF f
<1>7. f = [k \in S |-> View(f, D, K, k)]
  BY <1>5, <1>6 DEF Views
<1>8. Viewed(f, S, D, K)
  BY <1>7 DEF Viewed
<1> QED BY <1>2, <1>4, <1>8 DEF S, f

LEMMA NodeViewsAre ==
    ASSUME NEW t, IsProgram(t),
           NEW E, E = [id \in NodeIds(t) |-> t.nodes[id].instr],
           NEW L, L = [id \in NodeIds(t) |-> Children(t, id)]
    PROVE  Viewed(NodeViews(t), NodeIds(t), E, L)
<1> DEFINE S == NodeIds(t)
<1>1. /\ Size(t) \in Nat /\ S = 0 .. Size(t) - 1 /\ WellFormed(t) /\ \A id \in S : Children(t, id) \in Seq(Nat)
  BY ProgramIds
<1>2. S \in SUBSET (0 .. Size(t)) /\ S \subseteq Nat
  BY <1>1
<1> HIDE DEF S
<1>3. ASSUME NEW id \in S, NEW i \in DOMAIN L[id] PROVE L[id][i] \in S /\ id < L[id][i]
  <2>1. L[id] = Children(t, id) /\ Children(t, id) \in Seq(Nat)
    BY <1>1 DEF S
  <2>2. i \in 1 .. Len(Children(t, id))
    BY <2>1
  <2>3. WellFormed(t) /\ NodeIds(t) \subseteq Nat /\ id \in NodeIds(t)
    BY <1>1, <1>2 DEF S
  <2>4. Children(t, id)[i] \in NodeIds(t) /\ id < Children(t, id)[i]
    BY <2>1, <2>2, <2>3, ChildrenOf DEF ListsChildren
  <2> QED BY <2>1, <2>4 DEF S
<1>4. Upward(S, L)
  BY <1>3 DEF Upward
<1> DEFINE f == NodeViews(t)
<1>5. f = CHOOSE g : g = [id \in S |-> View(g, E, L, id)]
  BY DEF NodeViews, View, S
<1>6. \E g : Views(g, S, E, L)
  BY <1>1, <1>2, <1>4, ViewExists
<1> HIDE DEF f
<1>7. f = [id \in S |-> View(f, E, L, id)]
  BY <1>5, <1>6 DEF Views
<1>8. Viewed(f, S, E, L)
  BY <1>7 DEF Viewed
<1> QED BY <1>8 DEF S, f

(* What the viewer builds from the row of a root is the whole program.     *)
LEMMA ShownIsProgram ==
    ASSUME NEW d, IsTable(d.node), AllEncoded(d.node), NEW j, NEW t, IsProgram(t), Encodes(d.node, j, t)
    PROVE  /\ \E k \in RowsOf(d.node, j) : d.node[k].parent_id = NoRow
           /\ \A k \in RowsOf(d.node, j) : d.node[k].parent_id = NoRow => ShownNode(d)[k] = NodeViews(t)[0]
<1> DEFINE rows == d.node
           R == RowsOf(rows, j)
           f == ShownNode(d)
           g == NodeViews(t)
<1>1. PICK D, K : /\ D = [k \in DOMAIN d.node |-> d.node[k].descr]
                  /\ K = [k \in DOMAIN d.node |-> BelowRow(d.node, k)]
  OBVIOUS
<1>2. PICK E, L : /\ E = [id \in NodeIds(t) |-> t.nodes[id].instr]
                  /\ L = [id \in NodeIds(t) |-> Children(t, id)]
  OBVIOUS
<1>3. PICK n \in Nat : DOMAIN rows \in SUBSET (0 .. n)
  BY <1>1, ShownNodeIs
<1>4. Viewed(f, DOMAIN rows, D, K)
  BY <1>1, ShownNodeIs
<1>5. Viewed(g, NodeIds(t), E, L)
  BY <1>2, NodeViewsAre
<1>6. PICK node \in [R -> NodeIds(t)] : \A l \in R : StandsFor(rows, j, l, node, t)
  BY DEF Encodes
<1>7. R \subseteq DOMAIN rows /\ DOMAIN rows \subseteq Nat
  BY <1>3 DEF RowsOf
<1> HIDE DEF f, g
<1>8. ASSUME NEW k \in R
      PROVE  /\ D[k] = E[node[k]] /\ DOMAIN K[k] = DOMAIN L[node[k]]
             /\ \A i \in DOMAIN K[k] : /\ K[k][i] \in R /\ k < K[k][i]
                                       /\ node[K[k][i]] = L[node[k]][i]
  <2>1. /\ k \in DOMAIN rows /\ node[k] \in NodeIds(t) /\ j = rows[k].tree_id
        /\ StandsFor(rows, j, k, node, t)
    BY <1>6, <1>7 DEF RowsOf
  <2>2. D[k] = rows[k].descr /\ K[k] = BelowRow(rows, k)
    BY <1>1, <2>1
  <2>3. E[node[k]] = t.nodes[node[k]].instr /\ L[node[k]] = Children(t, node[k])
    BY <1>2, <2>1
  <2>4. rows[k].descr = t.nodes[node[k]].instr
    BY <2>1 DEF StandsFor
  <2>5. /\ DOMAIN BelowRow(rows, k) = DOMAIN Children(t, node[k])
        /\ \A i \in DOMAIN BelowRow(rows, k) :
             /\ BelowRow(rows, k)[i] \in RowsOf(rows, j) /\ k < BelowRow(rows, k)[i]
             /\ node[BelowRow(rows, k)[i]] = Children(t, node[k])[i]
    BY <1>7, <2>1, BelowRowIs
  <2> QED BY <2>2, <2>3, <2>4, <2>5
<1>9. \A k \in R : f[k] = g[node[k]]
  <2>1. Upward(R, K)
    BY <1>8 DEF Upward
  <2>2. R \in SUBSET (0 .. n)
    BY <1>3, <1>7
  <2>3. Viewed(f, R, D, K)
    BY <1>4, <1>7 DEF Viewed
  <2>4. Alike(node, R, D, K, E, L)
    BY <1>8 DEF Alike
  <2> HIDE DEF R
  <2>5. PICK N : N = NodeIds(t)
    OBVIOUS
  <2>6. node \in [R -> N] /\ Viewed(g, N, E, L)
    BY <1>5, <2>5
  <2> QED BY ONLY <2>1, <2>2, <2>3, <2>4, <2>6, n \in Nat, ViewsAgree
<1>10. \A k \in R : rows[k].parent_id = NoRow => node[k] = 0
  BY <1>6 DEF StandsFor
<1>11. \E k \in R : rows[k].parent_id = NoRow
  BY DEF Encodes
<1> QED BY <1>9, <1>10, <1>11 DEF f, g

(***************************************************************************)
(* What the rows of regulatory steps say.  O has the observations by name  *)
(* and step.                                                               *)
(***************************************************************************)
NameOf(d, grn_id) == <<d.grn[grn_id].ga_step, d.grn[grn_id].pop_index>>

NamesUnique(d) == \A i, j \in DOMAIN d.grn : NameOf(d, i) = NameOf(d, j) => i = j
GenesUnique(d) ==
    /\ \A i \in DOMAIN d.gene : d.gene[i].grn_id \in DOMAIN d.grn
    /\ \A i, j \in DOMAIN d.gene :
         d.gene[i].grn_id = d.gene[j].grn_id /\ d.gene[i].pos = d.gene[j].pos => i = j
KeysUnique(d) == NamesUnique(d) /\ GenesUnique(d) /\ ProteinsUnique(d)

AreTables(d) == IsTable(d.protein_state) /\ IsTable(d.gene_state) /\ IsTable(d.ptype_state)

(* A tree of nodes is of a step whose program was observed to have some,   *)
(* and its rows encode that program; every such step has one.              *)
TreeOf(d, O, p) ==
    LET state == d.ptype_state[p] IN O[NameOf(d, state.grn_id)][state.reg_step].tree
TreeTrue(d, O, j) ==
    LET p == d.tree[j].ptype_state_id
    IN /\ p \in DOMAIN d.ptype_state /\ IsProgram(TreeOf(d, O, p)) /\ HasRoot(TreeOf(d, O, p))
       /\ Encodes(d.node, j, TreeOf(d, O, p))
HasTree(d, p) == \E j \in DOMAIN d.tree : d.tree[j].ptype_state_id = p
TreesTrue(d, O) ==
    /\ IsTable(d.tree) /\ IsTable(d.node)
    /\ \A j \in DOMAIN d.tree : TreeTrue(d, O, j)
    /\ \A k \in DOMAIN d.node : d.node[k].tree_id \in DOMAIN d.tree
    /\ \A p \in DOMAIN d.ptype_state : HasRoot(TreeOf(d, O, p)) => HasTree(d, p)

(* Row by row: it is of an individual that was simulated, and has what was *)
(* observed at its step.                                                   *)
StateRow(d, O, r) ==
    /\ r.grn_id \in DOMAIN d.grn /\ NameOf(d, r.grn_id) \in DOMAIN O
    /\ r.protein_id \in DOMAIN d.protein /\ d.protein[r.protein_id].grn_id = r.grn_id
    /\ d.protein[r.protein_id].pid \in DOMAIN O[NameOf(d, r.grn_id)][r.reg_step].concs
    /\ r.conc = O[NameOf(d, r.grn_id)][r.reg_step].concs[d.protein[r.protein_id].pid]
Refers(d, row, pid) ==
    IF pid = NoProtein THEN row = NoRow ELSE row \in DOMAIN d.protein /\ d.protein[row].pid = pid
GeneStateRow(d, O, r) ==
    LET gene == d.gene[r.gene_id]
        name == NameOf(d, gene.grn_id)
    IN /\ r.gene_id \in DOMAIN d.gene /\ name \in DOMAIN O
       /\ Refers(d, r.bound_protein, O[name][r.reg_step].bound[gene.pos])
       /\ Refers(d, r.active_output, O[name][r.reg_step].active[gene.pos])
PhenotypeRow(d, O, r) == r.grn_id \in DOMAIN d.grn /\ NameOf(d, r.grn_id) \in DOMAIN O

StatesTrue(d, O) == \A k \in DOMAIN d.protein_state : StateRow(d, O, d.protein_state[k])
GeneStatesTrue(d, O) == \A k \in DOMAIN d.gene_state : GeneStateRow(d, O, d.gene_state[k])
PhenotypesTrue(d, O) == \A k \in DOMAIN d.ptype_state : PhenotypeRow(d, O, d.ptype_state[k])

(* No protein and no gene has two rows of one step.                        *)
SameState(q, r) == q.grn_id = r.grn_id /\ q.reg_step = r.reg_step /\ q.protein_id = r.protein_id
SameGeneState(q, r) == q.gene_id = r.gene_id /\ q.reg_step = r.reg_step
StatesOnce(d) ==
    \A k, l \in DOMAIN d.protein_state : SameState(d.protein_state[k], d.protein_state[l]) => k = l
GeneStatesOnce(d) ==
    \A k, l \in DOMAIN d.gene_state : SameGeneState(d.gene_state[k], d.gene_state[l]) => k = l

Faithful(d, O) ==
    /\ KeysUnique(d) /\ AreTables(d)
    /\ StatesTrue(d, O) /\ GeneStatesTrue(d, O) /\ PhenotypesTrue(d, O)
    /\ StatesOnce(d) /\ GeneStatesOnce(d) /\ TreesTrue(d, O)

(* The rows of one step of one individual: none, or one for every protein, *)
(* one for every gene and one for the phenotype.                           *)
StateOf(d, k, name, s) ==
    NameOf(d, d.protein_state[k].grn_id) = name /\ d.protein_state[k].reg_step = s
GeneOf(d, k) == d.gene[d.gene_state[k].gene_id]
GeneStateOf(d, k, name, s) ==
    NameOf(d, GeneOf(d, k).grn_id) = name /\ d.gene_state[k].reg_step = s

StatesBlank(d, name, s) == \A k \in DOMAIN d.protein_state : ~ StateOf(d, k, name, s)
GeneStatesBlank(d, name, s) == \A k \in DOMAIN d.gene_state : ~ GeneStateOf(d, k, name, s)
Blank(d, name, s) == StatesBlank(d, name, s) /\ GeneStatesBlank(d, name, s)

StatesWhole(d, concs, name, s) ==
    \A pid \in DOMAIN concs : \E k \in DOMAIN d.protein_state :
        StateOf(d, k, name, s) /\ d.protein[d.protein_state[k].protein_id].pid = pid
GeneStatesWhole(d, name, s) ==
    \A g \in Positions : \E k \in DOMAIN d.gene_state :
        GeneStateOf(d, k, name, s) /\ GeneOf(d, k).pos = g
Phenotyped(d, name, s) == \E k \in DOMAIN d.ptype_state :
    NameOf(d, d.ptype_state[k].grn_id) = name /\ d.ptype_state[k].reg_step = s
Whole(d, O, name, s) ==
    StatesWhole(d, O[name][s].concs, name, s) /\ GeneStatesWhole(d, name, s) /\ Phenotyped(d, name, s)

(* An individual whose steps have been logged, all of them.                *)
Stated(d, name) == \E k \in DOMAIN d.ptype_state : NameOf(d, d.ptype_state[k].grn_id) = name
Closed(d, O) ==
    /\ Faithful(d, O)
    /\ \A name \in DOMAIN O : Stated(d, name) => \A s \in -1 .. RegSteps - 1 : Whole(d, O, name, s)

(* The tables that rows refer to grow.                                     *)
KeysGrow(d, e) ==
    /\ Kept(d.gene, e.gene) /\ Kept(d.protein, e.protein) /\ DOMAIN d.grn \subseteq DOMAIN e.grn
    /\ \A i \in DOMAIN d.grn : NameOf(e, i) = NameOf(d, i)
Grows(d, e) ==
    /\ KeysGrow(d, e) /\ Kept(d.protein_state, e.protein_state)
    /\ Kept(d.gene_state, e.gene_state) /\ Kept(d.ptype_state, e.ptype_state)

(* What is there stays true while tables grow.                             *)
LEMMA StateRowStays ==
    ASSUME NEW d, NEW e, KeysGrow(d, e), NEW O, NEW r, StateRow(d, O, r)
    PROVE  /\ StateRow(e, O, r) /\ NameOf(e, r.grn_id) = NameOf(d, r.grn_id)
           /\ e.protein[r.protein_id] = d.protein[r.protein_id]
<1>1. /\ r.grn_id \in DOMAIN e.grn /\ NameOf(e, r.grn_id) = NameOf(d, r.grn_id)
      /\ r.protein_id \in DOMAIN e.protein /\ e.protein[r.protein_id] = d.protein[r.protein_id]
  BY DEF StateRow, KeysGrow, Kept
<1> QED BY <1>1 DEF StateRow

LEMMA RefersStays ==
    ASSUME NEW d, NEW e, KeysGrow(d, e), NEW row, NEW pid, Refers(d, row, pid)
    PROVE  Refers(e, row, pid)
BY DEF Refers, KeysGrow, Kept

LEMMA GeneStateRowStays ==
    ASSUME NEW d, NEW e, KeysGrow(d, e), GenesUnique(d), NEW O, NEW r, GeneStateRow(d, O, r)
    PROVE  /\ GeneStateRow(e, O, r) /\ e.gene[r.gene_id] = d.gene[r.gene_id]
           /\ NameOf(e, d.gene[r.gene_id].grn_id) = NameOf(d, d.gene[r.gene_id].grn_id)
<1>1. r.gene_id \in DOMAIN d.gene
  BY DEF GeneStateRow
<1>2. /\ r.gene_id \in DOMAIN e.gene /\ e.gene[r.gene_id] = d.gene[r.gene_id]
      /\ NameOf(e, d.gene[r.gene_id].grn_id) = NameOf(d, d.gene[r.gene_id].grn_id)
  BY <1>1 DEF KeysGrow, Kept, GenesUnique
<1>3. GeneStateRow(e, O, r)
  <2> DEFINE gene == d.gene[r.gene_id]
             name == NameOf(d, gene.grn_id)
  <2>1. /\ name \in DOMAIN O
        /\ Refers(d, r.bound_protein, O[name][r.reg_step].bound[gene.pos])
        /\ Refers(d, r.active_output, O[name][r.reg_step].active[gene.pos])
    BY DEF GeneStateRow
  <2>2. /\ Refers(e, r.bound_protein, O[name][r.reg_step].bound[gene.pos])
        /\ Refers(e, r.active_output, O[name][r.reg_step].active[gene.pos])
    BY <2>1, RefersStays
  <2> QED BY <1>2, <2>1, <2>2 DEF GeneStateRow
<1> QED BY <1>2, <1>3

LEMMA PhenotypeRowStays ==
    ASSUME NEW d, NEW e, KeysGrow(d, e), NEW O, NEW r, PhenotypeRow(d, O, r)
    PROVE  PhenotypeRow(e, O, r) /\ NameOf(e, r.grn_id) = NameOf(d, r.grn_id)
<1>1. r.grn_id \in DOMAIN e.grn /\ NameOf(e, r.grn_id) = NameOf(d, r.grn_id)
  BY DEF PhenotypeRow, KeysGrow
<1> QED BY <1>1 DEF PhenotypeRow

LEMMA GrownKeepsStates ==
    ASSUME NEW d, NEW O, Faithful(d, O), NEW e, Grows(d, e)
    PROVE  /\ \A k \in DOMAIN d.protein_state :
                /\ k \in DOMAIN e.protein_state /\ e.protein_state[k] = d.protein_state[k]
                /\ StateRow(e, O, e.protein_state[k])
                /\ \A name, s : StateOf(e, k, name, s) <=> StateOf(d, k, name, s)
           /\ \A concs, name, s : StatesWhole(d, concs, name, s) => StatesWhole(e, concs, name, s)
<1>1. KeysGrow(d, e) /\ Kept(d.protein_state, e.protein_state) /\ StatesTrue(d, O)
  BY DEF Grows, Faithful
<1>2. ASSUME NEW k \in DOMAIN d.protein_state
      PROVE  /\ k \in DOMAIN e.protein_state /\ e.protein_state[k] = d.protein_state[k]
             /\ StateRow(e, O, e.protein_state[k])
             /\ NameOf(e, e.protein_state[k].grn_id) = NameOf(d, d.protein_state[k].grn_id)
             /\ e.protein[e.protein_state[k].protein_id] = d.protein[d.protein_state[k].protein_id]
  <2>1. k \in DOMAIN e.protein_state /\ e.protein_state[k] = d.protein_state[k]
    BY <1>1 DEF Kept
  <2>2. StateRow(d, O, d.protein_state[k])
    BY <1>1 DEF StatesTrue
  <2> QED BY <1>1, <2>1, <2>2, StateRowStays
<1>3. \A k \in DOMAIN d.protein_state : \A name, s : StateOf(e, k, name, s) <=> StateOf(d, k, name, s)
  BY <1>2 DEF StateOf
<1>4. ASSUME NEW concs, NEW name, NEW s, StatesWhole(d, concs, name, s), NEW pid \in DOMAIN concs
      PROVE  \E k \in DOMAIN e.protein_state :
               StateOf(e, k, name, s) /\ e.protein[e.protein_state[k].protein_id].pid = pid
  <2>1. PICK k \in DOMAIN d.protein_state :
          StateOf(d, k, name, s) /\ d.protein[d.protein_state[k].protein_id].pid = pid
    BY <1>4 DEF StatesWhole
  <2> QED BY <1>2, <1>3, <2>1
<1>5. \A concs, name, s : StatesWhole(d, concs, name, s) => StatesWhole(e, concs, name, s)
  BY <1>4 DEF StatesWhole
<1> QED BY <1>2, <1>3, <1>5

LEMMA GrownKeepsGeneStates ==
    ASSUME NEW d, NEW O, Faithful(d, O), NEW e, Grows(d, e)
    PROVE  /\ \A k \in DOMAIN d.gene_state :
                /\ k \in DOMAIN e.gene_state /\ e.gene_state[k] = d.gene_state[k]
                /\ GeneStateRow(e, O, e.gene_state[k])
                /\ \A name, s : GeneStateOf(e, k, name, s) <=> GeneStateOf(d, k, name, s)
           /\ \A name, s : GeneStatesWhole(d, name, s) => GeneStatesWhole(e, name, s)
<1>1. /\ KeysGrow(d, e) /\ Kept(d.gene_state, e.gene_state)
      /\ GeneStatesTrue(d, O) /\ GenesUnique(d)
  BY DEF Grows, Faithful, KeysUnique
<1>2. ASSUME NEW k \in DOMAIN d.gene_state
      PROVE  /\ k \in DOMAIN e.gene_state /\ e.gene_state[k] = d.gene_state[k]
             /\ GeneStateRow(e, O, e.gene_state[k])
             /\ GeneOf(e, k) = GeneOf(d, k) /\ NameOf(e, GeneOf(d, k).grn_id) = NameOf(d, GeneOf(d, k).grn_id)
  <2>1. k \in DOMAIN e.gene_state /\ e.gene_state[k] = d.gene_state[k]
    BY <1>1 DEF Kept
  <2>2. GeneStateRow(d, O, d.gene_state[k])
    BY <1>1 DEF GeneStatesTrue
  <2> QED BY <1>1, <2>1, <2>2, GeneStateRowStays DEF GeneOf
<1>3. \A k \in DOMAIN d.gene_state : \A name, s : GeneStateOf(e, k, name, s) <=> GeneStateOf(d, k, name, s)
  BY <1>2 DEF GeneStateOf
<1>4. ASSUME NEW name, NEW s, GeneStatesWhole(d, name, s), NEW g \in Positions
      PROVE  \E k \in DOMAIN e.gene_state : GeneStateOf(e, k, name, s) /\ GeneOf(e, k).pos = g
  <2>1. PICK k \in DOMAIN d.gene_state : GeneStateOf(d, k, name, s) /\ GeneOf(d, k).pos = g
    BY <1>4 DEF GeneStatesWhole
  <2> QED BY <1>2, <1>3, <2>1
<1>5. \A name, s : GeneStatesWhole(d, name, s) => GeneStatesWhole(e, name, s)
  BY <1>4 DEF GeneStatesWhole
<1> QED BY <1>2, <1>3, <1>5

LEMMA GrownKeepsPhenotypes ==
    ASSUME NEW d, NEW O, Faithful(d, O), NEW e, Grows(d, e)
    PROVE  \A k \in DOMAIN d.ptype_state :
             /\ k \in DOMAIN e.ptype_state /\ e.ptype_state[k] = d.ptype_state[k]
             /\ PhenotypeRow(e, O, e.ptype_state[k])
             /\ NameOf(e, e.ptype_state[k].grn_id) = NameOf(d, d.ptype_state[k].grn_id)
<1> SUFFICES ASSUME NEW k \in DOMAIN d.ptype_state
             PROVE  /\ k \in DOMAIN e.ptype_state /\ e.ptype_state[k] = d.ptype_state[k]
                    /\ PhenotypeRow(e, O, e.ptype_state[k])
                    /\ NameOf(e, e.ptype_state[k].grn_id) = NameOf(d, d.ptype_state[k].grn_id)
  OBVIOUS
<1>1. KeysGrow(d, e) /\ PhenotypeRow(d, O, d.ptype_state[k])
  BY DEF Grows, Faithful, PhenotypesTrue
<1>2. k \in DOMAIN e.ptype_state /\ e.ptype_state[k] = d.ptype_state[k]
  BY DEF Grows, Kept
<1> QED BY <1>1, <1>2, PhenotypeRowStays

LEMMA GrownKeepsPhenotyped ==
    ASSUME NEW d, NEW O, Faithful(d, O), NEW e, Grows(d, e)
    PROVE  \A name, s : Phenotyped(d, name, s) => Phenotyped(e, name, s)
<1>1. \A k \in DOMAIN d.ptype_state :
        /\ k \in DOMAIN e.ptype_state /\ e.ptype_state[k] = d.ptype_state[k]
        /\ NameOf(e, e.ptype_state[k].grn_id) = NameOf(d, d.ptype_state[k].grn_id)
  BY GrownKeepsPhenotypes
<1> QED BY <1>1 DEF Phenotyped

(* Trees stay true while their steps have the same programs.               *)
LEMMA TreesStay ==
    ASSUME NEW d, NEW O, TreesTrue(d, O), NEW e, SameTrees(d, e), e.ptype_state = d.ptype_state,
           NEW P, \A p \in DOMAIN d.ptype_state : TreeOf(e, P, p) = TreeOf(d, O, p)
    PROVE  TreesTrue(e, P)
<1>1. ASSUME NEW j \in DOMAIN e.tree PROVE TreeTrue(e, P, j)
  <2>1. TreeTrue(d, O, j)
    BY DEF TreesTrue, SameTrees
  <2> QED BY <2>1 DEF TreeTrue, SameTrees
<1>2. \A p \in DOMAIN e.ptype_state : HasRoot(TreeOf(e, P, p)) => HasTree(e, p)
  BY DEF TreesTrue, HasTree, SameTrees
<1> QED BY <1>1, <1>2 DEF TreesTrue, SameTrees

LEMMA GrownKeepsTrees ==
    ASSUME NEW d, NEW O, Faithful(d, O), NEW e, Grows(d, e), e.ptype_state = d.ptype_state,
           SameTrees(d, e)
    PROVE  TreesTrue(e, O)
<1>1. \A p \in DOMAIN d.ptype_state :
        /\ e.ptype_state[p] = d.ptype_state[p]
        /\ NameOf(e, e.ptype_state[p].grn_id) = NameOf(d, d.ptype_state[p].grn_id)
  BY GrownKeepsPhenotypes
<1>2. \A p \in DOMAIN d.ptype_state : TreeOf(e, O, p) = TreeOf(d, O, p)
  BY <1>1 DEF TreeOf
<1> QED BY <1>2, TreesStay DEF Faithful

OneMore(table, row, longer) ==
    /\ IsTable(longer) /\ Len(table) \in Nat /\ DOMAIN table = 1 .. Len(table)
    /\ DOMAIN longer = 1 .. Len(table) + 1 /\ Len(longer) = Len(table) + 1
    /\ \A k \in 1 .. Len(table) : longer[k] = table[k]
    /\ longer[Len(table) + 1] = row

LEMMA RowAdded ==
    ASSUME NEW table, IsTable(table), NEW row
    PROVE  OneMore(table, row, Append(table, row))
<1> DEFINE longer == Append(table, row)
<1>1. PICK S : table \in Seq(S)
  BY DEF IsTable
<1> DEFINE V == S \cup {row}
<1>2. table \in Seq(V) /\ row \in V
  BY <1>1
<1> HIDE DEF V
<1>3. /\ longer \in Seq(V) /\ Len(table) \in Nat /\ DOMAIN longer = 1 .. Len(table) + 1
      /\ DOMAIN table = 1 .. Len(table)
      /\ \A k \in 1 .. Len(table) : longer[k] = table[k]
      /\ longer[Len(table) + 1] = row
  BY <1>2, Appended
<1>4. Len(longer) = Len(table) + 1
  BY <1>2, AppendProperties
<1> HIDE DEF longer
<1>5. OneMore(table, row, longer)
  BY <1>3, <1>4 DEF IsTable, OneMore
<1> QED BY <1>5 DEF longer

(* The program of a step is logged with the size that it has.              *)
LEMMA TreeLogged ==
    ASSUME NEW d, NEW O, TreesTrue(d, O), PhenotypesTrue(d, O), IsTable(d.ptype_state),
           NEW grn_id, NEW name, name = NameOf(d, grn_id), NEW s,
           NEW t, IsProgram(t), O[name][s].tree = t,
           NEW row, row.grn_id = grn_id, row.reg_step = s,
           NEW e, e.grn = d.grn, e.ptype_state = Append(d.ptype_state, row), TreeAdded(d, e, t)
    PROVE  TreesTrue(e, O) /\ Phenotyped(e, name, s)
<1> DEFINE n == Len(d.ptype_state)
           m == Len(d.tree)
<1>1. /\ n \in Nat /\ DOMAIN d.ptype_state = 1 .. n /\ DOMAIN e.ptype_state = 1 .. n + 1
      /\ Len(e.ptype_state) = n + 1
      /\ \A p \in 1 .. n : e.ptype_state[p] = d.ptype_state[p]
      /\ e.ptype_state[n + 1] = row
  BY RowAdded DEF OneMore
<1>2. \A i : NameOf(e, i) = NameOf(d, i)
  BY DEF NameOf
<1>3. \A p \in 1 .. n : TreeOf(e, O, p) = TreeOf(d, O, p)
  BY <1>1, <1>2 DEF TreeOf
<1>4. TreeOf(e, O, n + 1) = t
  BY <1>1, <1>2 DEF TreeOf
<1>5. Phenotyped(e, name, s)
  BY <1>1, <1>2 DEF Phenotyped
<1>6. \A p \in DOMAIN d.ptype_state : HasRoot(TreeOf(d, O, p)) => HasTree(d, p)
  BY DEF TreesTrue
<1>7. HasRoot(t) <=> Size(t) # 0
  BY ProgramIds
<1> HIDE DEF n
<1>8. CASE ~ HasRoot(t)
  <2>1. SameTrees(d, e)
    BY <1>7, <1>8 DEF TreeAdded
  <2>2. ASSUME NEW j \in DOMAIN e.tree PROVE TreeTrue(e, O, j)
    <3>1. TreeTrue(d, O, j)
      BY <2>1 DEF TreesTrue, SameTrees
    <3> QED BY <1>1, <1>3, <2>1, <3>1 DEF TreeTrue, SameTrees
  <2>3. ASSUME NEW p \in DOMAIN e.ptype_state, HasRoot(TreeOf(e, O, p)) PROVE HasTree(e, p)
    <3>1. p \in 1 .. n
      BY <1>1, <1>4, <1>8, <2>3
    <3>2. HasTree(d, p)
      BY <1>1, <1>3, <1>6, <2>3, <3>1
    <3> QED BY <2>1, <3>2 DEF HasTree, SameTrees
  <2>4. TreesTrue(e, O)
    BY <2>1, <2>2, <2>3 DEF TreesTrue, SameTrees
  <2> QED BY <1>5, <2>4
<1>9. CASE HasRoot(t)
  <2>1. /\ e.tree = Append(d.tree, [ptype_state_id |-> n + 1])
        /\ e.node = d.node \o NodeRows(t, m + 1, Len(d.node) + 1)
    BY <1>1, <1>7, <1>9 DEF TreeAdded
  <2>2. /\ IsTable(e.tree) /\ m \in Nat /\ DOMAIN d.tree = 1 .. m /\ DOMAIN e.tree = 1 .. m + 1
        /\ \A j \in 1 .. m : e.tree[j] = d.tree[j]
        /\ e.tree[m + 1] = [ptype_state_id |-> n + 1]
    <3>1. OneMore(d.tree, [ptype_state_id |-> n + 1], e.tree)
      BY <2>1, RowAdded DEF TreesTrue
    <3> QED BY <3>1 DEF OneMore
  <2> HIDE DEF m
  <2>3. RowsOf(d.node, m + 1) = {}
    BY <2>2 DEF RowsOf, TreesTrue
  <2>4. /\ IsTable(e.node) /\ Kept(d.node, e.node) /\ Encodes(e.node, m + 1, t)
        /\ \A k \in DOMAIN e.node : k \in DOMAIN d.node \/ e.node[k].tree_id = m + 1
    <3>1. /\ IsTable(d.node) /\ RowsOf(d.node, m + 1) = {}
          /\ e.node = d.node \o NodeRows(t, m + 1, Len(d.node) + 1)
      BY <2>1, <2>3 DEF TreesTrue
    <3>2. MoreNodes(d.node, m + 1, t, e.node)
      BY <1>9, <3>1, NodesEncode
    <3> QED BY <3>2 DEF MoreNodes
  <2>5. ASSUME NEW j \in 1 .. m PROVE TreeTrue(e, O, j)
    <3>1. TreeTrue(d, O, j) /\ e.tree[j] = d.tree[j]
      BY <2>2 DEF TreesTrue
    <3>2. PICK p, u : p = d.tree[j].ptype_state_id /\ u = TreeOf(d, O, p)
      OBVIOUS
    <3>3. p \in 1 .. n /\ IsProgram(u) /\ HasRoot(u) /\ Encodes(d.node, j, u)
      BY <1>1, <3>1, <3>2 DEF TreeTrue
    <3>4. \A k \in DOMAIN e.node : k \in DOMAIN d.node \/ e.node[k].tree_id # j
      BY <2>2, <2>4
    <3>5. Encodes(e.node, j, u)
      BY <2>4, <3>3, <3>4, EncodesStays
    <3>6. TreeOf(e, O, p) = u /\ p \in DOMAIN e.ptype_state
      BY <1>1, <1>3, <3>2, <3>3
    <3> QED BY <3>1, <3>2, <3>3, <3>5, <3>6 DEF TreeTrue
  <2>6. TreeTrue(e, O, m + 1)
    <3>1. e.tree[m + 1].ptype_state_id = n + 1 /\ n + 1 \in DOMAIN e.ptype_state
      BY <1>1, <2>2
    <3> QED BY <1>4, <1>9, <2>4, <3>1 DEF TreeTrue
  <2>7. \A j \in DOMAIN e.tree : TreeTrue(e, O, j)
    BY <2>2, <2>5, <2>6
  <2>8. \A k \in DOMAIN e.node : e.node[k].tree_id \in DOMAIN e.tree
    <3>1. \A k \in DOMAIN d.node : d.node[k].tree_id \in 1 .. m /\ e.node[k] = d.node[k]
      BY <2>2, <2>4 DEF TreesTrue, Kept
    <3> QED BY <2>2, <2>4, <3>1
  <2>9. ASSUME NEW p \in DOMAIN e.ptype_state, HasRoot(TreeOf(e, O, p)) PROVE HasTree(e, p)
    <3>1. CASE p = n + 1
      BY <2>2, <3>1 DEF HasTree
    <3>2. CASE p \in 1 .. n
      <4>1. HasTree(d, p)
        BY <1>1, <1>3, <1>6, <2>9, <3>2
      <4> QED BY <2>2, <4>1 DEF HasTree
    <3> QED BY <1>1, <3>1, <3>2
  <2>10. TreesTrue(e, O)
    BY <2>2, <2>4, <2>7, <2>8, <2>9 DEF TreesTrue
  <2> QED BY <1>5, <2>10
<1> QED BY <1>8, <1>9

(* Nothing but networks, genes and proteins is added.                      *)
OnlyKeys(d, e) ==
    /\ KeysGrow(d, e) /\ (KeysUnique(d) => KeysUnique(e))
    /\ e.protein_state = d.protein_state /\ e.gene_state = d.gene_state
    /\ e.ptype_state = d.ptype_state /\ SameTrees(d, e)

LEMMA OnlyKeysTwice ==
    ASSUME NEW d, NEW c, NEW e, OnlyKeys(d, c), OnlyKeys(c, e)
    PROVE  OnlyKeys(d, e)
<1>1. KeysGrow(d, e)
  BY DEF OnlyKeys, KeysGrow, Kept
<1> QED BY <1>1 DEF OnlyKeys, SameTrees

LEMMA OnlyKeysGrow ==
    ASSUME NEW d, NEW O, Faithful(d, O), NEW e, OnlyKeys(d, e)
    PROVE  /\ Faithful(e, O) /\ Grows(d, e)
           /\ \A name, s : Blank(d, name, s) => Blank(e, name, s)
           /\ \A name : Stated(e, name) => Stated(d, name)
           /\ Closed(d, O) => Closed(e, O)
<1>0. /\ e.protein_state = d.protein_state /\ e.gene_state = d.gene_state
      /\ e.ptype_state = d.ptype_state /\ SameTrees(d, e)
  BY DEF OnlyKeys
<1>1. Grows(d, e)
  BY DEF OnlyKeys, Grows, Kept
<1>2. /\ \A k \in DOMAIN e.protein_state : StateRow(e, O, e.protein_state[k])
      /\ \A k \in DOMAIN e.protein_state : \A name, s : StateOf(e, k, name, s) <=> StateOf(d, k, name, s)
      /\ \A concs, name, s : StatesWhole(d, concs, name, s) => StatesWhole(e, concs, name, s)
  BY <1>0, <1>1, GrownKeepsStates
<1>3. /\ \A k \in DOMAIN e.gene_state : GeneStateRow(e, O, e.gene_state[k])
      /\ \A k \in DOMAIN e.gene_state : \A name, s : GeneStateOf(e, k, name, s) <=> GeneStateOf(d, k, name, s)
      /\ \A name, s : GeneStatesWhole(d, name, s) => GeneStatesWhole(e, name, s)
  BY <1>0, <1>1, GrownKeepsGeneStates
<1>4. \A k \in DOMAIN e.ptype_state :
        /\ PhenotypeRow(e, O, e.ptype_state[k])
        /\ NameOf(e, e.ptype_state[k].grn_id) = NameOf(d, d.ptype_state[k].grn_id)
  BY <1>0, <1>1, GrownKeepsPhenotypes
<1>5. AreTables(e) /\ StatesOnce(e) /\ GeneStatesOnce(e)
  BY DEF OnlyKeys, Faithful, AreTables, StatesOnce, GeneStatesOnce
<1>6. TreesTrue(e, O)
  BY <1>0, <1>1, GrownKeepsTrees
<1>7. \A name, s : Phenotyped(d, name, s) => Phenotyped(e, name, s)
  BY <1>1, GrownKeepsPhenotyped
<1>8. Faithful(e, O)
  BY <1>2, <1>3, <1>4, <1>5, <1>6 DEF OnlyKeys, Faithful, StatesTrue, GeneStatesTrue, PhenotypesTrue
<1>9. \A name, s : Blank(d, name, s) => Blank(e, name, s)
  BY <1>2, <1>3 DEF OnlyKeys, Blank, StatesBlank, GeneStatesBlank
<1>10. \A name : Stated(e, name) => Stated(d, name)
  BY <1>4 DEF OnlyKeys, Stated
<1>11. ASSUME Closed(d, O) PROVE Closed(e, O)
  <2> SUFFICES ASSUME NEW name \in DOMAIN O, Stated(e, name), NEW s \in -1 .. RegSteps - 1
               PROVE  Whole(e, O, name, s)
    BY <1>8 DEF Closed
  <2>1. Whole(d, O, name, s)
    BY <1>10, <1>11 DEF Closed
  <2> QED BY <1>2, <1>3, <1>7, <2>1 DEF Whole
<1> QED BY <1>1, <1>8, <1>9, <1>10, <1>11

(* The rows that are added for a step.                                     *)
AreStateRows(d, grn_id, s, obs, m, rows) ==
    /\ HasRows(rows, m)
    /\ \A k \in 1 .. m :
         /\ rows[k].grn_id = grn_id /\ rows[k].reg_step = s
         /\ rows[k].protein_id \in DOMAIN d.protein
         /\ d.protein[rows[k].protein_id].grn_id = grn_id
         /\ d.protein[rows[k].protein_id].pid \in DOMAIN obs.concs
         /\ rows[k].conc = obs.concs[d.protein[rows[k].protein_id].pid]
    /\ \A k, l \in 1 .. m : rows[k].protein_id = rows[l].protein_id => k = l
    /\ \A pid \in DOMAIN obs.concs : \E k \in 1 .. m : d.protein[rows[k].protein_id].pid = pid

LEMMA StateRowsAre ==
    ASSUME NEW d, IsDb(d), NEW grn_id, NEW s, NEW obs, Observation(obs),
           \A pid \in DOMAIN obs.concs : ProteinIds(d, grn_id, pid) # {}
    PROVE  \E m \in Nat : AreStateRows(d, grn_id, s, obs, m, StateRows(d, grn_id, s, obs))
<1> DEFINE pids == Ordered(DOMAIN obs.concs)
           id(k) == First(ProteinIds(d, grn_id, pids[k]))
           row(k) == [reg_step |-> s, conc |-> obs.concs[pids[k]], grn_id |-> grn_id, protein_id |-> id(k)]
<1>1. DOMAIN obs.concs \in SUBSET Nat /\ IsFiniteSet(DOMAIN obs.concs)
  BY DEF Observation
<1>2. PICK m \in Nat : /\ pids \in [1 .. m -> DOMAIN obs.concs]
                       /\ \A pid \in DOMAIN obs.concs : \E k \in 1 .. m : pids[k] = pid
                       /\ \A k, l \in 1 .. m : pids[k] = pids[l] => k = l
  BY <1>1, OrderedIs
<1>3. DOMAIN pids = 1 .. m /\ \A k \in 1 .. m : pids[k] \in DOMAIN obs.concs
  <2> HIDE DEF pids
  <2> QED BY <1>2
<1> HIDE DEF pids
<1>4. DOMAIN d.protein \in SUBSET Nat
  BY DEF IsDb
<1>5. ASSUME NEW k \in 1 .. m
      PROVE  /\ id(k) \in DOMAIN d.protein
             /\ d.protein[id(k)].grn_id = grn_id /\ d.protein[id(k)].pid = pids[k]
  <2> DEFINE ids == ProteinIds(d, grn_id, pids[k])
  <2>1. ids \in SUBSET Nat /\ ids # {}
    BY <1>3, <1>4 DEF ProteinIds
  <2>2. First(ids) \in ids
    <3> HIDE DEF ids
    <3> QED BY <2>1, FirstIs
  <2> QED BY <2>2 DEF ProteinIds
<1>6. PICK rows : rows = [k \in 1 .. m |-> row(k)]
  OBVIOUS
<1>7. rows = StateRows(d, grn_id, s, obs)
  BY <1>3, <1>6 DEF StateRows, pids
<1>8. ASSUME NEW k \in 1 .. m
      PROVE  /\ rows[k].grn_id = grn_id /\ rows[k].reg_step = s
             /\ rows[k].protein_id = id(k) /\ rows[k].conc = obs.concs[pids[k]]
  BY <1>6
<1> HIDE DEF id
<1>9. HasRows(rows, m)
  BY <1>6 DEF HasRows
<1>10. \A k \in 1 .. m :
         /\ rows[k].grn_id = grn_id /\ rows[k].reg_step = s
         /\ rows[k].protein_id \in DOMAIN d.protein
         /\ d.protein[rows[k].protein_id].grn_id = grn_id
         /\ d.protein[rows[k].protein_id].pid \in DOMAIN obs.concs
         /\ rows[k].conc = obs.concs[d.protein[rows[k].protein_id].pid]
  BY <1>3, <1>5, <1>8
<1>11. ASSUME NEW k \in 1 .. m, NEW l \in 1 .. m, rows[k].protein_id = rows[l].protein_id PROVE k = l
  <2>1. pids[k] = pids[l]
    BY <1>5, <1>8, <1>11
  <2> QED BY <1>2, <2>1
<1>12. ASSUME NEW pid \in DOMAIN obs.concs PROVE \E k \in 1 .. m : d.protein[rows[k].protein_id].pid = pid
  BY <1>2, <1>5, <1>8
<1> HIDE DEF row
<1>13. AreStateRows(d, grn_id, s, obs, m, rows)
  BY <1>9, <1>10, <1>11, <1>12 DEF AreStateRows
<1> QED BY <1>7, <1>13

AreGeneStateRows(d, grn_id, s, obs, rows) ==
    /\ HasRows(rows, NumGenes)
    /\ \A k \in 1 .. NumGenes :
         /\ rows[k].reg_step = s /\ rows[k].gene_id \in DOMAIN d.gene
         /\ d.gene[rows[k].gene_id].grn_id = grn_id /\ d.gene[rows[k].gene_id].pos = k - 1
         /\ Refers(d, rows[k].bound_protein, obs.bound[k - 1])
         /\ Refers(d, rows[k].active_output, obs.active[k - 1])

LEMMA GeneStateRowsAre ==
    ASSUME NEW d, Sound(d), NEW grn_id \in DOMAIN d.grn, NEW s, NEW obs, Observation(obs),
           \A pid \in DOMAIN obs.concs : ProteinIds(d, grn_id, pid) # {}
    PROVE  AreGeneStateRows(d, grn_id, s, obs, GeneStateRows(d, grn_id, s, obs))
<1> DEFINE rows == GeneStateRows(d, grn_id, s, obs)
           ids(k) == GeneIds(d, grn_id, k - 1)
<1>1. NumGenes \in Nat
  BY DatabaseAssumption
<1>2. DOMAIN d.protein \in SUBSET Nat /\ DOMAIN d.gene \in SUBSET Nat
  BY DEF Sound, IsDb
<1>3. ASSUME NEW pid \in DOMAIN obs.concs \cup {NoProtein}
      PROVE  Refers(d, ProteinRow(d, grn_id, pid), pid)
  <2> DEFINE pids == ProteinIds(d, grn_id, pid)
  <2>1. CASE pid # NoProtein
    <3>1. pids \in SUBSET Nat /\ pids # {}
      BY <1>2, <2>1 DEF ProteinIds
    <3>2. First(pids) \in pids
      <4> HIDE DEF pids
      <4> QED BY <3>1, FirstIs
    <3> QED BY <2>1, <3>2 DEF ProteinIds, ProteinRow, Refers
  <2>2. CASE pid = NoProtein
    BY <2>2 DEF ProteinRow, Refers
  <2> QED BY <2>1, <2>2
<1>4. ASSUME NEW k \in 1 .. NumGenes
      PROVE  /\ rows[k].reg_step = s /\ rows[k].gene_id \in DOMAIN d.gene
             /\ d.gene[rows[k].gene_id].grn_id = grn_id /\ d.gene[rows[k].gene_id].pos = k - 1
             /\ Refers(d, rows[k].bound_protein, obs.bound[k - 1])
             /\ Refers(d, rows[k].active_output, obs.active[k - 1])
  <2>1. k - 1 \in Positions
    BY <1>1 DEF Positions
  <2>2. rows[k] = [reg_step |-> s, active_output |-> ProteinRow(d, grn_id, obs.active[k - 1]),
                   bound_protein |-> ProteinRow(d, grn_id, obs.bound[k - 1]),
                   gene_id |-> First(ids(k))]
    BY DEF GeneStateRows
  <2>3. ids(k) \in SUBSET Nat /\ ids(k) # {}
    BY <1>2, <2>1 DEF GeneIds, Sound, HasGenes
  <2>4. First(ids(k)) \in ids(k)
    <3> HIDE DEF ids
    <3> QED BY <2>3, FirstIs
  <2>5. /\ First(ids(k)) \in DOMAIN d.gene
        /\ d.gene[First(ids(k))].grn_id = grn_id /\ d.gene[First(ids(k))].pos = k - 1
    BY <2>4 DEF GeneIds
  <2>6. {obs.bound[k - 1], obs.active[k - 1]} \subseteq DOMAIN obs.concs \cup {NoProtein}
    BY <2>1 DEF Observation
  <2>7. /\ Refers(d, ProteinRow(d, grn_id, obs.bound[k - 1]), obs.bound[k - 1])
        /\ Refers(d, ProteinRow(d, grn_id, obs.active[k - 1]), obs.active[k - 1])
    BY <1>3, <2>6
  <2> HIDE DEF rows, ids
  <2> QED BY <2>2, <2>5, <2>7
<1>5. HasRows(rows, NumGenes)
  BY DEF GeneStateRows, HasRows
<1> HIDE DEF rows
<1> QED BY <1>4, <1>5 DEF AreGeneStateRows, rows

(* Rows of a step that has none yet.                                       *)
SameTables(d, e) == e.grn = d.grn /\ e.gene = d.gene /\ e.protein = d.protein

LEMMA StateRowsAdded ==
    ASSUME NEW d, NEW O, Faithful(d, O), NEW grn_id \in DOMAIN d.grn, NEW s, NEW obs,
           NEW name, name = NameOf(d, grn_id), name \in DOMAIN O, O[name][s] = obs,
           StatesBlank(d, name, s),
           NEW m \in Nat, NEW rows, AreStateRows(d, grn_id, s, obs, m, rows),
           NEW e, SameTables(d, e), SameTrees(d, e), e.protein_state = d.protein_state \o rows,
           e.gene_state = d.gene_state, e.ptype_state = d.ptype_state
    PROVE  /\ Faithful(e, O) /\ Grows(d, e) /\ StatesWhole(e, obs.concs, name, s)
           /\ \A n, r : (n # name \/ r # s) /\ StatesBlank(d, n, r) => StatesBlank(e, n, r)
           /\ \A n, r : GeneStatesBlank(d, n, r) => GeneStatesBlank(e, n, r)
<1> DEFINE old == Len(d.protein_state)
<1>1. /\ HasRows(rows, m)
      /\ \A k, l \in 1 .. m : rows[k].protein_id = rows[l].protein_id => k = l
      /\ \A pid \in DOMAIN obs.concs : \E k \in 1 .. m : d.protein[rows[k].protein_id].pid = pid
  BY DEF AreStateRows
<1>2. IsTable(d.protein_state)
  BY DEF Faithful, AreTables
<1>3. PICK longer : longer = d.protein_state \o rows /\ e.protein_state = longer
  OBVIOUS
<1>4. /\ IsTable(longer) /\ Kept(d.protein_state, longer)
      /\ \A k \in 1 .. m : old + k \in DOMAIN longer /\ longer[old + k] = rows[k]
      /\ \A k \in DOMAIN longer : k \in DOMAIN d.protein_state \/ \E i \in 1 .. m : k = old + i
  <2>1. PICK table : table = d.protein_state
    OBVIOUS
  <2>2. IsTable(table) /\ longer = table \o rows /\ HasRows(rows, m)
    BY <1>1, <1>2, <1>3, <2>1
  <2>3. Lengthened(table, m, rows, longer)
    BY ONLY <2>2, m \in Nat, TableGrown
  <2> QED BY <2>1, <2>3 DEF Lengthened
<1> HIDE DEF old
<1>5. Grows(d, e)
  BY <1>3, <1>4 DEF Grows, KeysGrow, Kept, SameTables, NameOf
<1>6. /\ \A k \in DOMAIN d.protein_state :
           /\ e.protein_state[k] = d.protein_state[k] /\ StateRow(e, O, e.protein_state[k])
           /\ \A n, r : StateOf(e, k, n, r) <=> StateOf(d, k, n, r)
  BY <1>5, GrownKeepsStates
<1>7. /\ \A k \in DOMAIN e.gene_state : GeneStateRow(e, O, e.gene_state[k])
      /\ \A k \in DOMAIN e.gene_state : \A n, r : GeneStateOf(e, k, n, r) <=> GeneStateOf(d, k, n, r)
  BY <1>5, GrownKeepsGeneStates
<1>8. \A k \in DOMAIN e.ptype_state : PhenotypeRow(e, O, e.ptype_state[k])
  BY <1>5, GrownKeepsPhenotypes
<1>9. ASSUME NEW i \in 1 .. m
      PROVE  /\ old + i \in DOMAIN e.protein_state /\ e.protein_state[old + i] = rows[i]
             /\ StateRow(e, O, e.protein_state[old + i]) /\ StateOf(e, old + i, name, s)
  <2>1. /\ old + i \in DOMAIN e.protein_state /\ e.protein_state[old + i] = rows[i]
    BY <1>3, <1>4
  <2>2. /\ rows[i].grn_id = grn_id /\ rows[i].reg_step = s
        /\ rows[i].protein_id \in DOMAIN d.protein
        /\ d.protein[rows[i].protein_id].grn_id = grn_id
        /\ d.protein[rows[i].protein_id].pid \in DOMAIN obs.concs
        /\ rows[i].conc = obs.concs[d.protein[rows[i].protein_id].pid]
    BY DEF AreStateRows
  <2>3. NameOf(e, grn_id) = name /\ grn_id \in DOMAIN e.grn /\ e.protein = d.protein
    BY DEF SameTables, NameOf
  <2> QED BY <2>1, <2>2, <2>3 DEF StateRow, StateOf
<1>10. \A k \in DOMAIN e.protein_state : k \in DOMAIN d.protein_state \/ \E i \in 1 .. m : k = old + i
  BY <1>3, <1>4
<1>11. StatesTrue(e, O)
  BY <1>6, <1>9, <1>10 DEF StatesTrue
<1>12. \A k \in DOMAIN d.protein_state : ~ StateOf(e, k, name, s)
  BY <1>6 DEF StatesBlank
<1>13. ASSUME NEW k \in DOMAIN e.protein_state, NEW l \in DOMAIN e.protein_state,
              SameState(e.protein_state[k], e.protein_state[l])
       PROVE  k = l
  <2>1. StateOf(e, k, name, s) <=> StateOf(e, l, name, s)
    BY <1>13 DEF SameState, StateOf
  <2>2. CASE k \in DOMAIN d.protein_state /\ l \in DOMAIN d.protein_state
    <3>1. StatesOnce(d)
      BY DEF Faithful
    <3> QED BY <1>6, <1>13, <2>2, <3>1 DEF StatesOnce
  <2>3. CASE k \in DOMAIN d.protein_state /\ l \notin DOMAIN d.protein_state
    BY <1>9, <1>10, <1>12, <2>1, <2>3
  <2>4. CASE l \in DOMAIN d.protein_state /\ k \notin DOMAIN d.protein_state
    BY <1>9, <1>10, <1>12, <2>1, <2>4
  <2>5. CASE k \notin DOMAIN d.protein_state /\ l \notin DOMAIN d.protein_state
    <3>1. PICK i \in 1 .. m : k = old + i
      BY <1>10, <2>5
    <3>2. PICK j \in 1 .. m : l = old + j
      BY <1>10, <2>5
    <3>3. rows[i].protein_id = rows[j].protein_id
      BY <1>9, <1>13, <3>1, <3>2 DEF SameState
    <3> QED BY <1>1, <3>1, <3>2, <3>3
  <2> QED BY <2>2, <2>3, <2>4, <2>5
<1>14. StatesOnce(e)
  BY <1>13 DEF StatesOnce
<1>15. AreTables(e) /\ GeneStatesOnce(e) /\ KeysUnique(e) /\ TreesTrue(e, O)
  <2>1. AreTables(e) /\ GeneStatesOnce(e)
    BY <1>3, <1>4 DEF Faithful, AreTables, GeneStatesOnce
  <2>2. KeysUnique(e)
    BY DEF Faithful, SameTables, KeysUnique, NamesUnique, GenesUnique, ProteinsUnique, NameOf
  <2>3. TreesTrue(e, O)
    BY <1>5, GrownKeepsTrees
  <2> QED BY <2>1, <2>2, <2>3
<1>16. Faithful(e, O)
  BY <1>7, <1>8, <1>11, <1>14, <1>15 DEF Faithful, GeneStatesTrue, PhenotypesTrue
<1>17. StatesWhole(e, obs.concs, name, s)
  <2> SUFFICES ASSUME NEW pid \in DOMAIN obs.concs
               PROVE  \E k \in DOMAIN e.protein_state :
                        StateOf(e, k, name, s) /\ e.protein[e.protein_state[k].protein_id].pid = pid
    BY DEF StatesWhole
  <2>1. PICK i \in 1 .. m : d.protein[rows[i].protein_id].pid = pid
    BY <1>1
  <2> QED BY <1>9, <2>1 DEF SameTables
<1>18. ASSUME NEW n, NEW r, n # name \/ r # s, StatesBlank(d, n, r) PROVE StatesBlank(e, n, r)
  <2> SUFFICES ASSUME NEW k \in DOMAIN e.protein_state PROVE ~ StateOf(e, k, n, r)
    BY DEF StatesBlank
  <2>1. CASE k \in DOMAIN d.protein_state
    BY <1>6, <1>18, <2>1 DEF StatesBlank
  <2>2. CASE k \notin DOMAIN d.protein_state
    <3>1. StateOf(e, k, name, s)
      BY <1>9, <1>10, <2>2
    <3> QED BY <1>18, <3>1 DEF StateOf
  <2> QED BY <2>1, <2>2
<1>19. \A n, r : GeneStatesBlank(d, n, r) => GeneStatesBlank(e, n, r)
  BY <1>7 DEF GeneStatesBlank
<1> QED BY <1>5, <1>16, <1>17, <1>18, <1>19

LEMMA GeneStateRowsAdded ==
    ASSUME NEW d, NEW O, Faithful(d, O), NEW grn_id \in DOMAIN d.grn, NEW s, NEW obs,
           NEW name, name = NameOf(d, grn_id), name \in DOMAIN O, O[name][s] = obs,
           GeneStatesBlank(d, name, s),
           NEW rows, AreGeneStateRows(d, grn_id, s, obs, rows),
           NEW e, SameTables(d, e), SameTrees(d, e), e.gene_state = d.gene_state \o rows,
           e.protein_state = d.protein_state, e.ptype_state = d.ptype_state
    PROVE  /\ Faithful(e, O) /\ Grows(d, e) /\ GeneStatesWhole(e, name, s)
           /\ \A n, r : (n # name \/ r # s) /\ GeneStatesBlank(d, n, r) => GeneStatesBlank(e, n, r)
           /\ \A n, r : StatesBlank(d, n, r) => StatesBlank(e, n, r)
<1> DEFINE old == Len(d.gene_state)
<1>1. HasRows(rows, NumGenes) /\ NumGenes \in Nat
  BY DatabaseAssumption DEF AreGeneStateRows
<1>2. IsTable(d.gene_state)
  BY DEF Faithful, AreTables
<1>3. PICK longer : longer = d.gene_state \o rows /\ e.gene_state = longer
  OBVIOUS
<1>4. /\ IsTable(longer) /\ Kept(d.gene_state, longer)
      /\ \A k \in 1 .. NumGenes : old + k \in DOMAIN longer /\ longer[old + k] = rows[k]
      /\ \A k \in DOMAIN longer : k \in DOMAIN d.gene_state \/ \E i \in 1 .. NumGenes : k = old + i
  <2>1. PICK table : table = d.gene_state
    OBVIOUS
  <2>2. IsTable(table) /\ longer = table \o rows /\ HasRows(rows, NumGenes)
    BY <1>1, <1>2, <1>3, <2>1
  <2>3. Lengthened(table, NumGenes, rows, longer)
    BY ONLY <1>1, <2>2, TableGrown
  <2> QED BY <2>1, <2>3 DEF Lengthened
<1> HIDE DEF old
<1>5. Grows(d, e)
  BY <1>3, <1>4 DEF Grows, KeysGrow, Kept, SameTables, NameOf
<1>6. /\ \A k \in DOMAIN d.gene_state :
           /\ e.gene_state[k] = d.gene_state[k] /\ GeneStateRow(e, O, e.gene_state[k])
           /\ \A n, r : GeneStateOf(e, k, n, r) <=> GeneStateOf(d, k, n, r)
  BY <1>5, GrownKeepsGeneStates
<1>7. /\ \A k \in DOMAIN e.protein_state : StateRow(e, O, e.protein_state[k])
      /\ \A k \in DOMAIN e.protein_state : \A n, r : StateOf(e, k, n, r) <=> StateOf(d, k, n, r)
  BY <1>5, GrownKeepsStates
<1>8. \A k \in DOMAIN e.ptype_state : PhenotypeRow(e, O, e.ptype_state[k])
  BY <1>5, GrownKeepsPhenotypes
<1>9. ASSUME NEW i \in 1 .. NumGenes
      PROVE  /\ old + i \in DOMAIN e.gene_state /\ e.gene_state[old + i] = rows[i]
             /\ GeneStateRow(e, O, e.gene_state[old + i]) /\ GeneStateOf(e, old + i, name, s)
             /\ GeneOf(e, old + i).pos = i - 1
  <2>1. /\ old + i \in DOMAIN e.gene_state /\ e.gene_state[old + i] = rows[i]
    BY <1>3, <1>4
  <2>2. /\ rows[i].reg_step = s /\ rows[i].gene_id \in DOMAIN d.gene
        /\ d.gene[rows[i].gene_id].grn_id = grn_id /\ d.gene[rows[i].gene_id].pos = i - 1
        /\ Refers(d, rows[i].bound_protein, obs.bound[i - 1])
        /\ Refers(d, rows[i].active_output, obs.active[i - 1])
    BY DEF AreGeneStateRows
  <2>3. /\ Refers(e, rows[i].bound_protein, obs.bound[i - 1])
        /\ Refers(e, rows[i].active_output, obs.active[i - 1])
    BY <1>5, <2>2, RefersStays DEF Grows
  <2>4. NameOf(e, grn_id) = name /\ e.gene = d.gene
    BY DEF SameTables, NameOf
  <2>5. GeneStateRow(e, O, rows[i])
    BY <2>2, <2>3, <2>4 DEF GeneStateRow
  <2>6. GeneStateOf(e, old + i, name, s) /\ GeneOf(e, old + i).pos = i - 1
    BY <2>1, <2>2, <2>4 DEF GeneStateOf, GeneOf
  <2> QED BY <2>1, <2>5, <2>6
<1>10. \A k \in DOMAIN e.gene_state : k \in DOMAIN d.gene_state \/ \E i \in 1 .. NumGenes : k = old + i
  BY <1>3, <1>4
<1>11. GeneStatesTrue(e, O)
  BY <1>6, <1>9, <1>10 DEF GeneStatesTrue
<1>12. \A k \in DOMAIN d.gene_state : ~ GeneStateOf(e, k, name, s)
  BY <1>6 DEF GeneStatesBlank
<1>13. ASSUME NEW k \in DOMAIN e.gene_state, NEW l \in DOMAIN e.gene_state,
              SameGeneState(e.gene_state[k], e.gene_state[l])
       PROVE  k = l
  <2>1. /\ GeneStateOf(e, k, name, s) <=> GeneStateOf(e, l, name, s)
        /\ GeneOf(e, k) = GeneOf(e, l)
    BY <1>13 DEF SameGeneState, GeneStateOf, GeneOf
  <2>2. CASE k \in DOMAIN d.gene_state /\ l \in DOMAIN d.gene_state
    <3>1. GeneStatesOnce(d)
      BY DEF Faithful
    <3> QED BY <1>6, <1>13, <2>2, <3>1 DEF GeneStatesOnce
  <2>3. CASE k \in DOMAIN d.gene_state /\ l \notin DOMAIN d.gene_state
    BY <1>9, <1>10, <1>12, <2>1, <2>3
  <2>4. CASE l \in DOMAIN d.gene_state /\ k \notin DOMAIN d.gene_state
    BY <1>9, <1>10, <1>12, <2>1, <2>4
  <2>5. CASE k \notin DOMAIN d.gene_state /\ l \notin DOMAIN d.gene_state
    <3>1. PICK i \in 1 .. NumGenes : k = old + i
      BY <1>10, <2>5
    <3>2. PICK j \in 1 .. NumGenes : l = old + j
      BY <1>10, <2>5
    <3>3. i - 1 = j - 1
      BY <1>9, <2>1, <3>1, <3>2
    <3>4. i = j
      BY ONLY <3>3, i \in 1 .. NumGenes, j \in 1 .. NumGenes
    <3> QED BY <3>1, <3>2, <3>4
  <2> QED BY <2>2, <2>3, <2>4, <2>5
<1>14. GeneStatesOnce(e)
  BY <1>13 DEF GeneStatesOnce
<1>15. AreTables(e) /\ StatesOnce(e) /\ KeysUnique(e) /\ TreesTrue(e, O)
  <2>1. AreTables(e) /\ StatesOnce(e)
    BY <1>3, <1>4 DEF Faithful, AreTables, StatesOnce
  <2>2. KeysUnique(e)
    BY DEF Faithful, SameTables, KeysUnique, NamesUnique, GenesUnique, ProteinsUnique, NameOf
  <2>3. TreesTrue(e, O)
    BY <1>5, GrownKeepsTrees
  <2> QED BY <2>1, <2>2, <2>3
<1>16. Faithful(e, O)
  BY <1>7, <1>8, <1>11, <1>14, <1>15 DEF Faithful, StatesTrue, PhenotypesTrue
<1>17. GeneStatesWhole(e, name, s)
  <2> SUFFICES ASSUME NEW g \in Positions
               PROVE  \E k \in DOMAIN e.gene_state : GeneStateOf(e, k, name, s) /\ GeneOf(e, k).pos = g
    BY DEF GeneStatesWhole
  <2>1. g + 1 \in 1 .. NumGenes /\ (g + 1) - 1 = g
    BY <1>1 DEF Positions
  <2> QED BY <1>9, <2>1
<1>18. ASSUME NEW n, NEW r, n # name \/ r # s, GeneStatesBlank(d, n, r) PROVE GeneStatesBlank(e, n, r)
  <2> SUFFICES ASSUME NEW k \in DOMAIN e.gene_state PROVE ~ GeneStateOf(e, k, n, r)
    BY DEF GeneStatesBlank
  <2>1. CASE k \in DOMAIN d.gene_state
    BY <1>6, <1>18, <2>1 DEF GeneStatesBlank
  <2>2. CASE k \notin DOMAIN d.gene_state
    <3>1. GeneStateOf(e, k, name, s)
      BY <1>9, <1>10, <2>2
    <3> QED BY <1>18, <3>1 DEF GeneStateOf
  <2> QED BY <2>1, <2>2
<1>19. \A n, r : StatesBlank(d, n, r) => StatesBlank(e, n, r)
  BY <1>7 DEF StatesBlank
<1> QED BY <1>5, <1>16, <1>17, <1>18, <1>19

LEMMA PhenotypeAdded ==
    ASSUME NEW d, NEW O, Faithful(d, O), NEW grn_id \in DOMAIN d.grn, NameOf(d, grn_id) \in DOMAIN O,
           NEW row, row.grn_id = grn_id,
           NEW e, SameTables(d, e), e.ptype_state = Append(d.ptype_state, row),
           e.protein_state = d.protein_state, e.gene_state = d.gene_state, TreesTrue(e, O)
    PROVE  /\ Faithful(e, O) /\ Grows(d, e)
           /\ \A n, r : Blank(d, n, r) => Blank(e, n, r)
           /\ \A n : Stated(e, n) => Stated(d, n) \/ n = NameOf(d, grn_id)
<1>1. PICK S : d.ptype_state \in Seq(S)
  BY DEF Faithful, AreTables, IsTable
<1>2. PICK table, longer, U : /\ table = d.ptype_state /\ longer = e.ptype_state
                              /\ U = S \cup {row}
  OBVIOUS
<1>3. table \in Seq(U) /\ row \in U /\ longer = Append(table, row)
  <2>1. table \in Seq(S) /\ S \subseteq U
    BY <1>1, <1>2
  <2>2. table \in Seq(U)
    BY ONLY <2>1
  <2> QED BY <1>2, <2>2
<1>4. /\ longer \in Seq(U) /\ Len(table) \in Nat
      /\ DOMAIN longer = 1 .. Len(table) + 1 /\ DOMAIN table = 1 .. Len(table)
      /\ \A i \in 1 .. Len(table) : longer[i] = table[i]
      /\ longer[Len(table) + 1] = row
  BY ONLY <1>3, Appended
<1>5. /\ Kept(table, longer) /\ IsTable(longer)
      /\ \A k \in DOMAIN longer : k \in DOMAIN table \/ longer[k] = row
  BY <1>4 DEF Kept, IsTable
<1>6. Grows(d, e)
  BY <1>2, <1>5 DEF Grows, KeysGrow, Kept, SameTables, NameOf
<1>7. /\ \A k \in DOMAIN e.gene_state : GeneStateRow(e, O, e.gene_state[k])
      /\ \A k \in DOMAIN e.gene_state : \A n, r : GeneStateOf(e, k, n, r) <=> GeneStateOf(d, k, n, r)
  BY <1>6, GrownKeepsGeneStates
<1>8. /\ \A k \in DOMAIN e.protein_state : StateRow(e, O, e.protein_state[k])
      /\ \A k \in DOMAIN e.protein_state : \A n, r : StateOf(e, k, n, r) <=> StateOf(d, k, n, r)
  BY <1>6, GrownKeepsStates
<1>9. \A k \in DOMAIN d.ptype_state :
        /\ PhenotypeRow(e, O, e.ptype_state[k])
        /\ NameOf(e, e.ptype_state[k].grn_id) = NameOf(d, d.ptype_state[k].grn_id)
  BY <1>6, GrownKeepsPhenotypes
<1>10. PhenotypeRow(e, O, row) /\ NameOf(e, row.grn_id) = NameOf(d, grn_id)
  BY DEF PhenotypeRow, SameTables, NameOf
<1>11. PhenotypesTrue(e, O)
  BY <1>2, <1>5, <1>9, <1>10 DEF PhenotypesTrue
<1>12. AreTables(e) /\ StatesOnce(e) /\ GeneStatesOnce(e) /\ KeysUnique(e)
  <2>1. AreTables(e) /\ StatesOnce(e) /\ GeneStatesOnce(e)
    BY <1>2, <1>5 DEF Faithful, AreTables, StatesOnce, GeneStatesOnce
  <2>2. KeysUnique(e)
    BY DEF Faithful, SameTables, KeysUnique, NamesUnique, GenesUnique, ProteinsUnique, NameOf
  <2> QED BY <2>1, <2>2
<1>13. Faithful(e, O)
  BY <1>7, <1>8, <1>11, <1>12 DEF Faithful, StatesTrue, GeneStatesTrue
<1>14. \A n, r : Blank(d, n, r) => Blank(e, n, r)
  BY <1>7, <1>8 DEF Blank, StatesBlank, GeneStatesBlank
<1>15. \A n : Stated(e, n) => Stated(d, n) \/ n = NameOf(d, grn_id)
  <2> SUFFICES ASSUME NEW n, Stated(e, n), n # NameOf(d, grn_id) PROVE Stated(d, n)
    OBVIOUS
  <2>1. PICK k \in DOMAIN e.ptype_state : NameOf(e, e.ptype_state[k].grn_id) = n
    BY DEF Stated
  <2>2. k \in DOMAIN d.ptype_state
    BY <1>2, <1>5, <1>10, <2>1
  <2> QED BY <1>9, <2>1, <2>2 DEF Stated
<1> QED BY <1>6, <1>13, <1>14, <1>15

(* A network is added, with its genes.                                     *)
LEMMA LogGrnIs ==
    ASSUME NEW d, Sound(d), NEW step \in Int, NEW index \in Int, ~ HasGrn(d, step, index)
    PROVE  LET e == LogGrn(d, step, index)
           IN /\ Sound(e) /\ e.fitness = d.fitness /\ OnlyKeys(d, e)
              /\ e.grn = Append(d.grn, NewGrn(step, index))
              /\ \A s, i \in Int : HasGrn(e, s, i) <=> HasGrn(d, s, i) \/ (s = step /\ i = index)
<1> DEFINE genes == [p \in 1 .. NumGenes |-> [grn_id |-> Len(d.grn) + 1, pos |-> p - 1]]
           e == LogGrn(d, step, index)
<1>1. e = [d EXCEPT !.grn = Append(d.grn, NewGrn(step, index)), !.gene = d.gene \o genes]
  BY DEF LogGrn, HasGrn, NewGrn
<1>2. /\ Tables(e) /\ e.grn = Append(d.grn, NewGrn(step, index)) /\ e.gene = d.gene \o genes
      /\ e.protein = d.protein /\ e.fitness = d.fitness /\ e.failed = d.failed
      /\ e.protein_state = d.protein_state /\ e.gene_state = d.gene_state
      /\ e.ptype_state = d.ptype_state /\ SameTrees(d, e)
  <2> HIDE DEF genes, e
  <2>1. PICK x, y : x = Append(d.grn, NewGrn(step, index)) /\ y = d.gene \o genes
    OBVIOUS
  <2> DEFINE c == [d EXCEPT !.grn = x]
  <2>2. /\ Tables(c) /\ c.grn = x
        /\ c.protein = d.protein /\ c.fitness = d.fitness /\ c.failed = d.failed
        /\ c.protein_state = d.protein_state /\ c.gene_state = d.gene_state
        /\ c.ptype_state = d.ptype_state /\ SameTrees(d, c)
    <3>1. Tables(d)
      BY DEF Sound, IsDb
    <3> QED BY ONLY <3>1, NetworksChanged
  <2>3. e = [c EXCEPT !.gene = y]
    BY <1>1, <2>1 DEF Sound, IsDb, Tables
  <2> HIDE DEF c
  <2>4. /\ Tables(e) /\ e.grn = c.grn /\ e.gene = y
        /\ e.protein = c.protein /\ e.fitness = c.fitness /\ e.failed = c.failed
        /\ e.protein_state = c.protein_state /\ e.gene_state = c.gene_state
        /\ e.ptype_state = c.ptype_state /\ SameTrees(c, e)
    BY ONLY <2>2, <2>3 DEF Tables, SameTrees
  <2> QED BY <2>1, <2>2, <2>4 DEF SameTrees
<1>3. NewGrn(step, index) \in GrnRows
  BY DEF NewGrn, GrnRows, NoRow
<1>4. d.grn \in Seq(GrnRows) /\ d.gene \in Seq(GeneRows)
  BY DEF Sound, IsDb
<1>5. NumGenes \in Nat
  BY DatabaseAssumption
<1>6. /\ e.grn \in Seq(GrnRows) /\ Len(d.grn) \in Nat
      /\ DOMAIN e.grn = 1 .. Len(d.grn) + 1 /\ DOMAIN d.grn = 1 .. Len(d.grn)
      /\ \A i \in 1 .. Len(d.grn) : e.grn[i] = d.grn[i]
      /\ e.grn[Len(d.grn) + 1] = NewGrn(step, index)
  BY <1>2, <1>3, <1>4, Appended
<1>7. genes \in [1 .. NumGenes -> GeneRows]
  BY <1>5, <1>6 DEF GeneRows
<1>8. /\ e.gene \in Seq(GeneRows) /\ Len(d.gene) \in Nat
      /\ DOMAIN e.gene = 1 .. Len(d.gene) + NumGenes /\ DOMAIN d.gene = 1 .. Len(d.gene)
      /\ \A i \in 1 .. Len(d.gene) : e.gene[i] = d.gene[i]
      /\ \A i \in 1 .. NumGenes : e.gene[Len(d.gene) + i] = genes[i]
  <2> HIDE DEF genes, e
  <2> QED BY <1>2, <1>4, <1>5, <1>7, RowsAppended
<1> HIDE DEF e
<1>9. HasGenes(e)
  <2> SUFFICES ASSUME NEW i \in DOMAIN e.grn, NEW g \in Positions PROVE GeneIds(e, i, g) # {}
    BY DEF HasGenes
  <2>1. CASE i \in DOMAIN d.grn
    <3>1. PICK k \in DOMAIN d.gene : d.gene[k].grn_id = i /\ d.gene[k].pos = g
      BY <2>1 DEF Sound, HasGenes, GeneIds
    <3>2. k \in DOMAIN e.gene /\ e.gene[k] = d.gene[k]
      BY <1>5, <1>8
    <3> QED BY <3>1, <3>2 DEF GeneIds
  <2>2. CASE i = Len(d.grn) + 1
    <3>1. g + 1 \in 1 .. NumGenes /\ (g + 1) - 1 = g
      BY <1>5 DEF Positions
    <3>2. Len(d.gene) + (g + 1) \in DOMAIN e.gene
      BY <1>5, <1>8, <3>1
    <3>3. e.gene[Len(d.gene) + (g + 1)] = [grn_id |-> Len(d.grn) + 1, pos |-> g]
      BY <1>8, <3>1
    <3> QED BY <2>2, <3>2, <3>3 DEF GeneIds
  <2> QED BY <1>6, <2>1, <2>2
<1>10. ASSUME NEW s \in Int, NEW i \in Int
       PROVE  HasGrn(e, s, i) <=> HasGrn(d, s, i) \/ (s = step /\ i = index)
  <2>1. NewGrn(step, index).ga_step = step /\ NewGrn(step, index).pop_index = index
    BY DEF NewGrn
  <2>2. ASSUME HasGrn(e, s, i) PROVE HasGrn(d, s, i) \/ (s = step /\ i = index)
    <3>1. PICK k \in DOMAIN e.grn : e.grn[k].ga_step = s /\ e.grn[k].pop_index = i
      BY <2>2 DEF HasGrn, GrnIds
    <3>2. k \in DOMAIN d.grn \/ k = Len(d.grn) + 1
      BY <1>6
    <3> QED BY <1>6, <2>1, <3>1, <3>2 DEF HasGrn, GrnIds
  <2>3. ASSUME HasGrn(d, s, i) PROVE HasGrn(e, s, i)
    <3>1. PICK k \in DOMAIN d.grn : d.grn[k].ga_step = s /\ d.grn[k].pop_index = i
      BY <2>3 DEF HasGrn, GrnIds
    <3>2. k \in DOMAIN e.grn /\ e.grn[k] = d.grn[k]
      BY <1>6
    <3> QED BY <3>1, <3>2 DEF HasGrn, GrnIds
  <2>4. ASSUME s = step, i = index PROVE HasGrn(e, s, i)
    <3>1. Len(d.grn) + 1 \in DOMAIN e.grn
      BY <1>6
    <3> QED BY <1>6, <2>1, <2>4, <3>1 DEF HasGrn, GrnIds
  <2> QED BY <2>2, <2>3, <2>4
<1>11. IsDb(e) /\ ~ e.failed
  BY <1>2, <1>6, <1>8 DEF IsDb, Sound
<1>12. \A k \in DOMAIN e.gene :
         k \in DOMAIN d.gene \/ \E i \in 1 .. NumGenes : k = Len(d.gene) + i
  <2>1. PICK n \in Nat : n = Len(d.gene)
    BY <1>8
  <2> SUFFICES ASSUME NEW k \in 1 .. n + NumGenes, k \notin 1 .. n PROVE \E i \in 1 .. NumGenes : k = n + i
    BY <1>8, <2>1
  <2>2. k - n \in 1 .. NumGenes /\ k = n + (k - n)
    BY <1>5
  <2> QED BY <2>2
<1>13. KeysGrow(d, e)
  <2>1. Kept(d.gene, e.gene)
    BY <1>5, <1>8 DEF Kept
  <2>2. DOMAIN d.grn \subseteq DOMAIN e.grn
    BY <1>6
  <2>3. \A i \in DOMAIN d.grn : NameOf(e, i) = NameOf(d, i)
    BY <1>6 DEF NameOf
  <2> QED BY <1>2, <2>1, <2>2, <2>3 DEF KeysGrow, Kept
<1>14. Len(d.grn) + 1 \notin DOMAIN d.grn /\ DOMAIN e.grn = DOMAIN d.grn \cup {Len(d.grn) + 1}
  BY <1>6
<1>15. ASSUME NamesUnique(d) PROVE NamesUnique(e)
  <2>1. NameOf(e, Len(d.grn) + 1) = <<step, index>>
    BY <1>6 DEF NameOf, NewGrn
  <2>2. ASSUME NEW i \in DOMAIN d.grn PROVE NameOf(e, i) = NameOf(d, i) /\ NameOf(d, i) # <<step, index>>
    <3>1. ~ (d.grn[i].ga_step = step /\ d.grn[i].pop_index = index)
      BY DEF HasGrn, GrnIds
    <3> QED BY <1>13, <3>1 DEF NameOf, KeysGrow
  <2> QED BY <1>14, <1>15, <2>1, <2>2 DEF NamesUnique
<1>16. ASSUME GenesUnique(d) PROVE GenesUnique(e)
  <2>1. ASSUME NEW i \in 1 .. NumGenes
        PROVE  e.gene[Len(d.gene) + i].grn_id = Len(d.grn) + 1 /\ e.gene[Len(d.gene) + i].pos = i - 1
    <3>1. genes[i] = [grn_id |-> Len(d.grn) + 1, pos |-> i - 1]
      OBVIOUS
    <3> HIDE DEF genes
    <3> QED BY <1>8, <3>1
  <2>2. ASSUME NEW k \in DOMAIN d.gene
        PROVE  e.gene[k] = d.gene[k] /\ d.gene[k].grn_id \in DOMAIN d.grn
    BY <1>13, <1>16 DEF KeysGrow, Kept, GenesUnique
  <2> HIDE DEF genes
  <2>3. \A k \in DOMAIN e.gene : e.gene[k].grn_id \in DOMAIN e.grn
    BY <1>12, <1>14, <2>1, <2>2
  <2>4. ASSUME NEW k \in DOMAIN e.gene, NEW l \in DOMAIN e.gene,
               e.gene[k].grn_id = e.gene[l].grn_id, e.gene[k].pos = e.gene[l].pos
        PROVE  k = l
    <3>1. CASE k \in DOMAIN d.gene /\ l \in DOMAIN d.gene
      BY <1>16, <2>2, <2>4, <3>1 DEF GenesUnique
    <3>2. CASE k \in DOMAIN d.gene /\ l \notin DOMAIN d.gene
      BY <1>12, <1>14, <2>1, <2>2, <2>4, <3>2
    <3>3. CASE l \in DOMAIN d.gene /\ k \notin DOMAIN d.gene
      BY <1>12, <1>14, <2>1, <2>2, <2>4, <3>3
    <3>4. CASE k \notin DOMAIN d.gene /\ l \notin DOMAIN d.gene
      <4>1. PICK i \in 1 .. NumGenes : k = Len(d.gene) + i
        BY <1>12, <3>4
      <4>2. PICK j \in 1 .. NumGenes : l = Len(d.gene) + j
        BY <1>12, <3>4
      <4>3. i - 1 = j - 1
        BY <2>1, <2>4, <4>1, <4>2
      <4>4. i = j
        BY ONLY <4>3, i \in 1 .. NumGenes, j \in 1 .. NumGenes
      <4> QED BY <4>1, <4>2, <4>4
    <3> QED BY <3>1, <3>2, <3>3, <3>4
  <2> QED BY <2>3, <2>4 DEF GenesUnique
<1>17. OnlyKeys(d, e)
  <2>1. ProteinsUnique(d) => ProteinsUnique(e)
    BY <1>2 DEF ProteinsUnique
  <2> QED BY <1>2, <1>13, <1>15, <1>16, <2>1 DEF OnlyKeys, KeysUnique
<1> QED BY <1>2, <1>9, <1>10, <1>11, <1>17 DEF e, Sound

(***************************************************************************)
(* A regulatory step has all of its rows, and the rest stays as it was.    *)
(***************************************************************************)
Others(d, e, name, s) ==
    /\ \A n, r : (n # name \/ r # s) /\ Blank(d, n, r) => Blank(e, n, r)
    /\ \A n : Stated(e, n) => Stated(d, n) \/ n = name

LEMMA OthersTwice ==
    ASSUME NEW d, NEW c, NEW e, NEW name, NEW s, Others(d, c, name, s), Others(c, e, name, s)
    PROVE  Others(d, e, name, s)
BY DEF Others

LEMMA GrowsTwice ==
    ASSUME NEW d, NEW c, NEW e, Grows(d, c), Grows(c, e)
    PROVE  Grows(d, e)
<1>1. KeysGrow(d, e)
  BY DEF Grows, KeysGrow, Kept
<1> QED BY <1>1 DEF Grows, Kept

LEMMA StatedBefore ==
    ASSUME NEW d, NEW O, Faithful(d, O), NEW e, Grows(d, e), e.ptype_state = d.ptype_state, NEW n,
           Stated(e, n)
    PROVE  Stated(d, n)
<1>1. \A k \in DOMAIN d.ptype_state : NameOf(e, e.ptype_state[k].grn_id) = NameOf(d, d.ptype_state[k].grn_id)
  BY GrownKeepsPhenotypes
<1> QED BY <1>1 DEF Stated

(* A step of an individual that has a network, whose rows say "obs".       *)
StepOf(d, O, grn_id, name, s, obs) ==
    /\ Sound(d) /\ Faithful(d, O) /\ Observation(obs)
    /\ grn_id \in Nat /\ grn_id \in DOMAIN d.grn /\ name = NameOf(d, grn_id)
    /\ name \in DOMAIN O /\ O[name][s] = obs

LEMMA StatesLogged ==
    ASSUME NEW d, NEW O, NEW grn_id, NEW name, NEW s, NEW obs, StepOf(d, O, grn_id, name, s, obs),
           Blank(d, name, s)
    PROVE  LET e == WithProteins(d, grn_id, s, obs)
           IN /\ Faithful(e, O) /\ Grows(d, e) /\ Others(d, e, name, s)
              /\ StatesWhole(e, obs.concs, name, s) /\ GeneStatesBlank(e, name, s)
<1> USE DEF StepOf
<1> DEFINE c == Inserted(d, grn_id, obs)
           rows == StateRows(c, grn_id, s, obs)
           x == d.protein_state \o rows
           e == WithProteins(d, grn_id, s, obs)
<1>1. /\ IsDb(c) /\ SameKeys(d, c) /\ SameTrees(d, c) /\ Kept(d.protein, c.protein)
      /\ c.protein_state = d.protein_state /\ c.gene_state = d.gene_state
      /\ c.ptype_state = d.ptype_state
      /\ \A pid \in DOMAIN obs.concs : ProteinIds(c, grn_id, pid) # {}
      /\ ProteinsUnique(d) => ProteinsUnique(c)
  BY InsertedIs
<1>2. e = [c EXCEPT !.protein_state = x]
  BY WithProteinsIs
<1> HIDE DEF c, e
<1>3. OnlyKeys(d, c)
  <2>1. KeysGrow(d, c)
    BY <1>1 DEF SameKeys, KeysGrow, Kept, NameOf
  <2>2. KeysUnique(d) => KeysUnique(c)
    BY <1>1 DEF SameKeys, KeysUnique, NamesUnique, GenesUnique, NameOf
  <2> QED BY <1>1, <2>1, <2>2 DEF OnlyKeys
<1>4. /\ Faithful(c, O) /\ Grows(d, c)
      /\ \A n, r : Blank(d, n, r) => Blank(c, n, r)
      /\ \A n : Stated(c, n) => Stated(d, n)
  BY <1>3, OnlyKeysGrow
<1>5. PICK m \in Nat : AreStateRows(c, grn_id, s, obs, m, rows)
  BY <1>1, StateRowsAre
<1>6. /\ SameTables(c, e) /\ SameTrees(c, e) /\ e.protein_state = x
      /\ e.gene_state = c.gene_state /\ e.ptype_state = c.ptype_state
  <2> HIDE DEF x
  <2>1. /\ SameKeys(c, e) /\ SameTrees(c, e) /\ e.protein = c.protein
        /\ e.protein_state = x /\ e.gene_state = c.gene_state /\ e.ptype_state = c.ptype_state
    BY <1>1, <1>2, ProteinStatesAdded
  <2> QED BY <2>1 DEF SameKeys, SameTables
<1> HIDE DEF rows
<1>7. e.protein_state = c.protein_state \o rows
  BY <1>1, <1>6
<1> HIDE DEF x
<1>8. /\ grn_id \in DOMAIN c.grn /\ name = NameOf(c, grn_id)
      /\ StatesBlank(c, name, s) /\ GeneStatesBlank(c, name, s)
  BY <1>1, <1>4 DEF SameKeys, NameOf, Blank
<1>9. /\ Faithful(e, O) /\ Grows(c, e) /\ StatesWhole(e, obs.concs, name, s)
      /\ \A n, r : (n # name \/ r # s) /\ StatesBlank(c, n, r) => StatesBlank(e, n, r)
      /\ \A n, r : GeneStatesBlank(c, n, r) => GeneStatesBlank(e, n, r)
  BY <1>4, <1>5, <1>6, <1>7, <1>8, StateRowsAdded
<1>10. Grows(d, e)
  BY <1>4, <1>9, GrowsTwice
<1>11. \A n : Stated(e, n) => Stated(c, n)
  BY <1>4, <1>6, <1>9, StatedBefore
<1>12. Others(d, e, name, s)
  BY <1>4, <1>9, <1>11 DEF Others, Blank
<1> QED BY <1>8, <1>9, <1>10, <1>12 DEF e

LEMMA GeneStatesLogged ==
    ASSUME NEW d, NEW O, NEW grn_id, NEW name, NEW s, NEW obs, StepOf(d, O, grn_id, name, s, obs),
           \A pid \in DOMAIN obs.concs : ProteinIds(d, grn_id, pid) # {},
           GeneStatesBlank(d, name, s), StatesWhole(d, obs.concs, name, s)
    PROVE  LET e == WithGeneStates(d, grn_id, s, obs)
           IN /\ Faithful(e, O) /\ Grows(d, e) /\ Others(d, e, name, s)
              /\ StatesWhole(e, obs.concs, name, s) /\ GeneStatesWhole(e, name, s)
<1> USE DEF StepOf
<1> DEFINE rows == GeneStateRows(d, grn_id, s, obs)
           e == WithGeneStates(d, grn_id, s, obs)
<1>1. /\ SameKeys(d, e) /\ SameTrees(d, e) /\ e.protein = d.protein
      /\ e.protein_state = d.protein_state /\ e.ptype_state = d.ptype_state
      /\ e.gene_state = d.gene_state \o rows
  <2>1. /\ Sound(d) /\ grn_id \in DOMAIN d.grn /\ Observation(obs)
        /\ \A pid \in DOMAIN obs.concs : ProteinIds(d, grn_id, pid) # {}
    OBVIOUS
  <2>2. HaveGeneStates(d, grn_id, s, obs, e)
    BY ONLY <2>1, WithGeneStatesIs
  <2> QED BY <2>2 DEF HaveGeneStates
<1>2. AreGeneStateRows(d, grn_id, s, obs, rows)
  BY GeneStateRowsAre
<1>3. SameTables(d, e)
  BY <1>1 DEF SameKeys, SameTables
<1> HIDE DEF e, rows
<1>4. /\ Faithful(e, O) /\ Grows(d, e) /\ GeneStatesWhole(e, name, s)
      /\ \A n, r : (n # name \/ r # s) /\ GeneStatesBlank(d, n, r) => GeneStatesBlank(e, n, r)
      /\ \A n, r : StatesBlank(d, n, r) => StatesBlank(e, n, r)
  BY <1>1, <1>2, <1>3, GeneStateRowsAdded
<1>5. StatesWhole(e, obs.concs, name, s)
  BY <1>4, GrownKeepsStates
<1>6. \A n : Stated(e, n) => Stated(d, n)
  BY <1>1, <1>4, StatedBefore
<1>7. Others(d, e, name, s)
  BY <1>4, <1>6 DEF Others, Blank
<1> QED BY <1>4, <1>5, <1>7 DEF e

LEMMA PhenotypeLogged ==
    ASSUME NEW d, NEW O, NEW grn_id, NEW name, NEW s, NEW obs, StepOf(d, O, grn_id, name, s, obs),
           StatesWhole(d, obs.concs, name, s), GeneStatesWhole(d, name, s)
    PROVE  LET e == WithPhenotype(d, grn_id, s, obs.tree)
           IN Faithful(e, O) /\ Grows(d, e) /\ Others(d, e, name, s) /\ Whole(e, O, name, s)
<1> USE DEF StepOf
<1> DEFINE row == [grn_id |-> grn_id, reg_step |-> s, size |-> Size(obs.tree)]
           e == WithPhenotype(d, grn_id, s, obs.tree)
<1>1. IsDb(d)
  BY DEF Sound
<1>2. /\ SameKeys(d, e) /\ e.protein = d.protein
      /\ e.protein_state = d.protein_state /\ e.gene_state = d.gene_state
      /\ e.ptype_state = Append(d.ptype_state, row) /\ TreeAdded(d, e, obs.tree)
  BY <1>1, WithPhenotypeIs
<1>3. SameTables(d, e) /\ row.grn_id = grn_id /\ row.reg_step = s
  BY <1>2 DEF SameKeys, SameTables
<1> HIDE DEF e, row
<1>4. TreesTrue(e, O) /\ Phenotyped(e, name, s)
  <2>1. TreesTrue(d, O) /\ PhenotypesTrue(d, O) /\ IsTable(d.ptype_state)
    BY DEF Faithful, AreTables
  <2>2. PICK t : t = obs.tree /\ IsProgram(t) /\ O[name][s].tree = t /\ TreeAdded(d, e, t)
    BY <1>2 DEF Observation
  <2>3. e.grn = d.grn
    BY <1>3 DEF SameTables
  <2> QED BY ONLY <1>2, <1>3, <2>1, <2>2, <2>3, name = NameOf(d, grn_id), TreeLogged
<1>5. /\ Faithful(e, O) /\ Grows(d, e)
      /\ \A n, r : Blank(d, n, r) => Blank(e, n, r)
      /\ \A n : Stated(e, n) => Stated(d, n) \/ n = name
  BY <1>2, <1>3, <1>4, PhenotypeAdded
<1>6. Others(d, e, name, s)
  BY <1>5 DEF Others
<1>7. Whole(e, O, name, s)
  BY <1>4, <1>5, GrownKeepsStates, GrownKeepsGeneStates DEF Whole
<1> QED BY <1>5, <1>6, <1>7 DEF e

(* What has been logged of an individual: its network, once, if at all.    *)
Extended(d, e, name) ==
    /\ Sound(e) /\ e.fitness = d.fitness
    /\ \/ e.grn = d.grn
       \/ ~ HasGrn(d, name[1], name[2]) /\ e.grn = Append(d.grn, NewGrn(name[1], name[2]))

RegLogged(name) == LogGrns /\ LogRegSteps /\ ShouldSample(name[1])

(* The network is there, or is logged now.                                 *)
LEMMA WithGrnIs ==
    ASSUME NEW d, Sound(d), NEW name \in Names
    PROVE  LET c == WithGrn(d, name[1], name[2])
               grn_id == First(GrnIds(c, name[1], name[2]))
           IN /\ Extended(d, c, name) /\ HasGrn(c, name[1], name[2]) /\ OnlyKeys(d, c)
              /\ grn_id \in Nat /\ grn_id \in DOMAIN c.grn /\ NameOf(c, grn_id) = name
<1> DEFINE c == WithGrn(d, name[1], name[2])
           ids == GrnIds(c, name[1], name[2])
<1>1. name[1] \in Int /\ name[2] \in Int /\ name = <<name[1], name[2]>>
  BY DEF Names
<1>2. Extended(d, c, name) /\ HasGrn(c, name[1], name[2]) /\ OnlyKeys(d, c)
  <2> HIDE DEF c
  <2>1. CASE HasGrn(d, name[1], name[2])
    <3>1. c = d
      BY <2>1 DEF c, WithGrn, HasGrn
    <3> QED BY <2>1, <3>1 DEF Extended, OnlyKeys, KeysGrow, Kept, SameTrees
  <2>2. CASE ~ HasGrn(d, name[1], name[2])
    <3>1. c = LogGrn(d, name[1], name[2])
      BY <2>2 DEF c, WithGrn, HasGrn
    <3> QED BY <1>1, <2>2, <3>1, LogGrnIs DEF Extended
  <2> QED BY <2>1, <2>2
<1> HIDE DEF c
<1>3. DOMAIN c.grn \in SUBSET Nat
  BY <1>2 DEF Extended, Sound, IsDb
<1>4. ids \in SUBSET Nat /\ ids # {}
  BY <1>2, <1>3 DEF HasGrn, GrnIds
<1>5. First(ids) \in ids
  <2> HIDE DEF ids
  <2> QED BY <1>4, FirstIs
<1>6. /\ First(ids) \in DOMAIN c.grn
      /\ c.grn[First(ids)].ga_step = name[1] /\ c.grn[First(ids)].pop_index = name[2]
  BY <1>5 DEF GrnIds
<1> HIDE DEF ids
<1>7. NameOf(c, First(ids)) = name
  BY <1>1, <1>6 DEF NameOf
<1> QED BY <1>2, <1>3, <1>6, <1>7 DEF c, ids

LEMMA LogRegStepIs ==
    ASSUME NEW d, Sound(d), NEW name \in Names, NEW reg_step, NEW obs, Observation(obs)
    PROVE  LET e == LogRegStep(d, name, reg_step, obs)
           IN /\ Extended(d, e, name)
              /\ RegLogged(name) => HasGrn(e, name[1], name[2])
<1> DEFINE logged == WithGrn(d, name[1], name[2])
           grn_id == First(GrnIds(logged, name[1], name[2]))
           a == WithProteins(logged, grn_id, reg_step, obs)
           b == WithGeneStates(a, grn_id, reg_step, obs)
           c == WithPhenotype(b, grn_id, reg_step, obs.tree)
           e == LogRegStep(d, name, reg_step, obs)
<1>1. e = IF RegLogged(name) THEN c ELSE d
  BY DEF LogRegStep, RegLogged
<1>2. CASE ~ RegLogged(name)
  BY <1>1, <1>2 DEF Extended
<1>3. CASE RegLogged(name)
  <2>1. /\ Extended(d, logged, name) /\ HasGrn(logged, name[1], name[2])
        /\ grn_id \in Nat /\ grn_id \in DOMAIN logged.grn
    BY WithGrnIs
  <2>2. Sound(logged)
    BY <2>1 DEF Extended
  <2> HIDE DEF grn_id, logged
  <2>3. /\ IsDb(a) /\ SameKeys(logged, a)
        /\ \A pid \in DOMAIN obs.concs : ProteinIds(a, grn_id, pid) # {}
    BY <2>1, <2>2, WithProteinsIs
  <2> HIDE DEF a
  <2>4. Sound(a) /\ grn_id \in DOMAIN a.grn
    <3>1. grn_id \in DOMAIN a.grn
      BY <2>1, <2>3 DEF SameKeys
    <3> QED BY <2>2, <2>3, <3>1, SoundKept
  <2>5. IsDb(b) /\ SameKeys(a, b)
    BY <2>3, <2>4, WithGeneStatesIs DEF HaveGeneStates
  <2> HIDE DEF b
  <2>6. IsDb(c) /\ SameKeys(b, c)
    BY <2>5, WithPhenotypeIs
  <2> HIDE DEF c
  <2>7. SameKeys(logged, c)
    BY <2>3, <2>5, <2>6 DEF SameKeys
  <2>8. Sound(c) /\ HasGrn(c, name[1], name[2])
    BY <2>1, <2>2, <2>6, <2>7, SoundKept
  <2>9. e = c
    BY <1>1, <1>3
  <2> HIDE DEF e
  <2>10. c.grn = logged.grn /\ c.fitness = logged.fitness
    BY <2>7 DEF SameKeys
  <2>11. Extended(d, e, name)
    BY <2>1, <2>8, <2>9, <2>10 DEF Extended
  <2> QED BY <2>8, <2>9, <2>11 DEF e
<1> QED BY <1>2, <1>3

(* Its rows, if none of them were there.                                   *)
Stepped(d, e, O, name, s) ==
    /\ Faithful(e, O) /\ Grows(d, e) /\ Others(d, e, name, s)
    /\ IF RegLogged(name) THEN Whole(e, O, name, s) ELSE e = d

LEMMA LogRegStepRows ==
    ASSUME NEW d, Sound(d), NEW O, Faithful(d, O), NEW name \in Names, name \in DOMAIN O, NEW s,
           Observation(O[name][s]), Blank(d, name, s)
    PROVE  Stepped(d, LogRegStep(d, name, s, O[name][s]), O, name, s)
<1> DEFINE obs == O[name][s]
           logged == WithGrn(d, name[1], name[2])
           grn_id == First(GrnIds(logged, name[1], name[2]))
           a == WithProteins(logged, grn_id, s, obs)
           b == WithGeneStates(a, grn_id, s, obs)
           c == WithPhenotype(b, grn_id, s, obs.tree)
           e == LogRegStep(d, name, s, obs)
<1>1. e = IF RegLogged(name) THEN c ELSE d
  BY DEF LogRegStep, RegLogged
<1>2. CASE ~ RegLogged(name)
  BY <1>1, <1>2 DEF Stepped, Others, Grows, KeysGrow, Kept
<1>3. CASE RegLogged(name)
  <2>1. /\ Sound(logged) /\ OnlyKeys(d, logged)
        /\ grn_id \in Nat /\ grn_id \in DOMAIN logged.grn /\ NameOf(logged, grn_id) = name
    BY WithGrnIs DEF Extended
  <2> HIDE DEF grn_id, logged, obs
  <2>2. /\ Faithful(logged, O) /\ Grows(d, logged) /\ Blank(logged, name, s)
        /\ Others(d, logged, name, s)
    BY <2>1, OnlyKeysGrow DEF Others
  <2>3. StepOf(logged, O, grn_id, name, s, obs)
    BY <2>1, <2>2 DEF StepOf, obs
  <2>4. /\ Faithful(a, O) /\ Grows(logged, a) /\ Others(logged, a, name, s)
        /\ StatesWhole(a, obs.concs, name, s) /\ GeneStatesBlank(a, name, s)
    BY <2>2, <2>3, StatesLogged
  <2>5. /\ IsDb(a) /\ SameKeys(logged, a)
        /\ \A pid \in DOMAIN obs.concs : ProteinIds(a, grn_id, pid) # {}
    BY <2>1, WithProteinsIs DEF obs
  <2> HIDE DEF a
  <2>6. StepOf(a, O, grn_id, name, s, obs)
    <3>1. Sound(a)
      BY <2>1, <2>5, SoundKept
    <3>2. grn_id \in DOMAIN a.grn /\ NameOf(a, grn_id) = name
      BY <2>1, <2>5 DEF SameKeys, NameOf
    <3> QED BY <2>3, <2>4, <3>1, <3>2 DEF StepOf
  <2>7. /\ Faithful(b, O) /\ Grows(a, b) /\ Others(a, b, name, s)
        /\ StatesWhole(b, obs.concs, name, s) /\ GeneStatesWhole(b, name, s)
    BY <2>4, <2>5, <2>6, GeneStatesLogged
  <2>8. IsDb(b) /\ SameKeys(a, b)
    BY <2>5, <2>6, WithGeneStatesIs DEF HaveGeneStates, StepOf
  <2> HIDE DEF b
  <2>9. StepOf(b, O, grn_id, name, s, obs)
    <3>1. Sound(b)
      BY <2>6, <2>8, SoundKept DEF StepOf
    <3>2. grn_id \in DOMAIN b.grn /\ NameOf(b, grn_id) = name
      BY <2>6, <2>8 DEF StepOf, SameKeys, NameOf
    <3> QED BY <2>6, <2>7, <3>1, <3>2 DEF StepOf
  <2>10. Faithful(c, O) /\ Grows(b, c) /\ Others(b, c, name, s) /\ Whole(c, O, name, s)
    BY <2>7, <2>9, PhenotypeLogged
  <2> HIDE DEF c
  <2>11. Grows(d, c)
    BY <2>2, <2>4, <2>7, <2>10, GrowsTwice
  <2>12. Others(d, c, name, s)
    BY <2>2, <2>4, <2>7, <2>10, OthersTwice
  <2> HIDE DEF e
  <2> QED BY <1>1, <1>3, <2>10, <2>11, <2>12 DEF Stepped, e, obs
<1> QED BY <1>2, <1>3

LEMMA ExtendedTwice ==
    ASSUME NEW d, Sound(d), NEW name \in Names, NEW c, Extended(d, c, name), NEW e, Extended(c, e, name)
    PROVE  Extended(d, e, name)
<1>1. CASE c.grn = d.grn
  BY <1>1 DEF Extended, HasGrn, GrnIds
<1>2. CASE c.grn = Append(d.grn, NewGrn(name[1], name[2])) /\ ~ HasGrn(d, name[1], name[2])
  <2> DEFINE row == NewGrn(name[1], name[2])
  <2>1. row \in GrnRows /\ row.ga_step = name[1] /\ row.pop_index = name[2]
    BY DEF NewGrn, GrnRows, Names, NoRow
  <2> HIDE DEF row
  <2>2. d.grn \in Seq(GrnRows) /\ c.grn = Append(d.grn, row)
    BY <1>2 DEF Sound, IsDb, row
  <2>3. Len(d.grn) + 1 \in DOMAIN c.grn /\ c.grn[Len(d.grn) + 1] = row
    BY <2>1, <2>2, Appended
  <2>4. HasGrn(c, name[1], name[2])
    BY <2>1, <2>3 DEF HasGrn, GrnIds
  <2> QED BY <1>2, <2>4 DEF Extended
<1> QED BY <1>1, <1>2 DEF Extended

(* Every regulatory step of an individual.                                 *)
StepByStep(logged, d, name, observations) ==
    /\ logged[0] = d
    /\ \A k \in 1 .. RegSteps + 1 :
         logged[k] = LogRegStep(logged[k - 1], name, k - 2, observations[k - 2])

LEMMA SnapshotIs ==
    ASSUME NEW d, NEW name, NEW observations
    PROVE  \E logged : /\ StepByStep(logged, d, name, observations)
                       /\ LogRegSnapshot(d, name, observations) = logged[RegSteps + 1]
<1> DEFINE next(f, k) == IF k = 0 THEN d ELSE LogRegStep(f[k - 1], name, k - 2, observations[k - 2])
           n == RegSteps + 1
           T == {m \in Nat : \E f : f = [k \in 0 .. m |-> next(f, k)]}
<1>1. RegSteps \in Nat
  BY DatabaseAssumption
<1>2. 0 \in T
  <2> DEFINE f == [k \in 0 .. 0 |-> d]
  <2>1. f = [k \in 0 .. 0 |-> next(f, k)]
    OBVIOUS
  <2> QED BY <2>1
<1>3. ASSUME NEW m \in Nat, m \in T PROVE m + 1 \in T
  <2>1. PICK f : f = [k \in 0 .. m |-> next(f, k)]
    BY <1>3
  <2> DEFINE g == [k \in 0 .. m + 1 |-> IF k = m + 1 THEN next(f, m + 1) ELSE f[k]]
  <2>2. ASSUME NEW k \in 0 .. m + 1 PROVE g[k] = next(g, k)
    <3>1. CASE k = 0
      BY <2>1, <3>1
    <3>2. CASE k # 0
      <4>1. k - 1 \in 0 .. m /\ k - 1 # m + 1
        BY <3>2
      <4>2. g[k - 1] = f[k - 1]
        BY <4>1
      <4>3. next(g, k) = next(f, k)
        BY <4>2
      <4>4. g[k] = next(f, k)
        <5>1. CASE k = m + 1
          BY <5>1
        <5>2. CASE k # m + 1
          BY <2>1, <5>2
        <5> QED BY <5>1, <5>2
      <4> QED BY <4>3, <4>4
    <3> QED BY <3>1, <3>2
  <2>3. g = [k \in 0 .. m + 1 |-> next(g, k)]
    BY <2>2
  <2> HIDE DEF g, next
  <2> QED BY <2>3
<1>4. \E f : f = [k \in 0 .. n |-> next(f, k)]
  <2> HIDE DEF T
  <2>1. n \in T
    BY <1>1, <1>2, <1>3, NatSetInduction
  <2> QED BY <2>1 DEF T
<1> DEFINE logged == CHOOSE f : f = [k \in 0 .. n |-> next(f, k)]
<1>5. logged = [k \in 0 .. n |-> next(logged, k)]
  BY <1>4
<1>6. LogRegSnapshot(d, name, observations) = logged[n]
  BY DEF LogRegSnapshot
<1> HIDE DEF logged
<1>7. logged[0] = d
  BY <1>1, <1>5
<1>8. ASSUME NEW k \in 1 .. n
      PROVE  logged[k] = LogRegStep(logged[k - 1], name, k - 2, observations[k - 2])
  BY <1>1, <1>5
<1>9. StepByStep(logged, d, name, observations)
  BY <1>7, <1>8 DEF StepByStep
<1> QED BY <1>6, <1>9

LEMMA LogRegSnapshotIs ==
    ASSUME NEW d, Sound(d), NEW name \in Names, NEW observations,
           \A reg_step \in -1 .. RegSteps - 1 : Observation(observations[reg_step]),
           NEW logged, StepByStep(logged, d, name, observations)
    PROVE  /\ \A k \in 0 .. RegSteps + 1 : Extended(d, logged[k], name)
           /\ RegLogged(name) => HasGrn(logged[RegSteps + 1], name[1], name[2])
<1> DEFINE n == RegSteps + 1
<1>1. RegSteps \in Nat
  BY DatabaseAssumption
<1>2. /\ logged[0] = d
      /\ \A k \in 1 .. n : logged[k] = LogRegStep(logged[k - 1], name, k - 2, observations[k - 2])
  BY DEF StepByStep
<1> HIDE DEF n
<1>3. ASSUME NEW k \in 1 .. n, Extended(d, logged[k - 1], name)
      PROVE  Extended(d, logged[k], name) /\ (RegLogged(name) => HasGrn(logged[k], name[1], name[2]))
  <2>1. Sound(logged[k - 1])
    BY <1>3 DEF Extended
  <2>2. Observation(observations[k - 2])
    <3>1. k - 2 \in -1 .. RegSteps - 1
      BY <1>1 DEF n
    <3> QED BY <3>1
  <2>3. /\ Extended(logged[k - 1], logged[k], name)
        /\ RegLogged(name) => HasGrn(logged[k], name[1], name[2])
    BY <1>2, <2>1, <2>2, LogRegStepIs
  <2> QED BY <1>3, <2>3, ExtendedTwice
<1> DEFINE R == {k \in Nat : Extended(d, logged[k], name)}
<1>4. 0 .. n \subseteq R
  <2>1. n \in Nat
    BY <1>1 DEF n
  <2>2. 0 \in R
    BY <1>2 DEF Extended
  <2>3. \A k \in 1 .. n : k - 1 \in R => k \in R
    BY <1>3, <2>1
  <2> HIDE DEF R
  <2> QED BY <2>1, <2>2, <2>3, RoundsInduction
<1>5. n \in 1 .. n /\ n - 1 \in 0 .. n
  BY <1>1 DEF n
<1> QED BY <1>3, <1>4, <1>5 DEF n

(* They are all there if none of them was.                                 *)
LEMMA GrownKeepsWhole ==
    ASSUME NEW d, NEW O, Faithful(d, O), NEW e, Grows(d, e), NEW name, NEW s, Whole(d, O, name, s)
    PROVE  Whole(e, O, name, s)
<1>1. StatesWhole(e, O[name][s].concs, name, s)
  BY GrownKeepsStates DEF Whole
<1>2. GeneStatesWhole(e, name, s)
  BY GrownKeepsGeneStates DEF Whole
<1>3. Phenotyped(e, name, s)
  BY GrownKeepsPhenotyped DEF Whole
<1> QED BY <1>1, <1>2, <1>3 DEF Whole

Through(d, e, O, name, k) ==
    /\ Faithful(e, O) /\ Grows(d, e)
    /\ \A n : Stated(e, n) => Stated(d, n) \/ n = name
    /\ \A s \in k - 1 .. RegSteps - 1 : Blank(e, name, s)
    /\ IF RegLogged(name) THEN \A s \in -1 .. k - 2 : Whole(e, O, name, s) ELSE e = d

LEMMA LogRegSnapshotRows ==
    ASSUME NEW d, Sound(d), NEW O, Closed(d, O), NEW name \in Names, name \in DOMAIN O,
           \A s \in -1 .. RegSteps - 1 : Observation(O[name][s]),
           \A s \in -1 .. RegSteps - 1 : Blank(d, name, s),
           NEW logged, StepByStep(logged, d, name, O[name])
    PROVE  Closed(logged[RegSteps + 1], O)
<1> DEFINE n == RegSteps + 1
           e == logged[n]
<1>1. RegSteps \in Nat
  BY DatabaseAssumption
<1>2. /\ logged[0] = d
      /\ \A k \in 1 .. n : logged[k] = LogRegStep(logged[k - 1], name, k - 2, O[name][k - 2])
  BY DEF StepByStep
<1>3. \A k \in 0 .. n : Sound(logged[k])
  BY LogRegSnapshotIs DEF Extended
<1> HIDE DEF n
<1> DEFINE R == {k \in Nat : Through(d, logged[k], O, name, k)}
<1>4. 0 \in R
  <2>1. \A s \in 0 - 1 .. RegSteps - 1 : Blank(d, name, s)
    OBVIOUS
  <2>2. \A s \in -1 .. 0 - 2 : Whole(d, O, name, s)
    OBVIOUS
  <2>3. Faithful(d, O) /\ Grows(d, d)
    BY DEF Closed, Grows, KeysGrow, Kept
  <2> QED BY <1>2, <2>1, <2>2, <2>3 DEF Through
<1>5. ASSUME NEW k \in 1 .. n, Through(d, logged[k - 1], O, name, k - 1)
      PROVE  Through(d, logged[k], O, name, k)
  <2> DEFINE p == logged[k - 1]
             q == logged[k]
             s == k - 2
  <2>1. k \in Int /\ k - 1 \in 0 .. n /\ s \in -1 .. RegSteps - 1 /\ s \in (k - 1) - 1 .. RegSteps - 1
    BY <1>1 DEF n
  <2>2. /\ Faithful(p, O) /\ Grows(d, p) /\ Blank(p, name, s) /\ Sound(p) /\ Observation(O[name][s])
    BY <1>3, <1>5, <2>1 DEF Through
  <2>3. q = LogRegStep(p, name, s, O[name][s])
    BY <1>2
  <2> HIDE DEF p, q, s
  <2>4. Stepped(p, q, O, name, s)
    BY <2>2, <2>3, LogRegStepRows
  <2>5. Faithful(q, O) /\ Grows(d, q)
    BY <2>2, <2>4, GrowsTwice DEF Stepped
  <2>6. ASSUME NEW r \in k - 1 .. RegSteps - 1 PROVE Blank(q, name, r)
    <3>1. r \in (k - 1) - 1 .. RegSteps - 1 /\ r # s
      BY <1>1, <2>1 DEF s
    <3>2. Blank(p, name, r)
      BY <1>5, <3>1 DEF Through, p
    <3> QED BY <2>4, <3>1, <3>2 DEF Stepped, Others
  <2>7. \A m : Stated(q, m) => Stated(d, m) \/ m = name
    BY <1>5, <2>4 DEF Through, Stepped, Others, p
  <2>8. CASE RegLogged(name)
    <3>1. ASSUME NEW r \in -1 .. k - 2 PROVE Whole(q, O, name, r)
      <4>1. CASE r = s
        BY <2>4, <2>8, <4>1 DEF Stepped
      <4>2. CASE r # s
        <5>1. r \in -1 .. (k - 1) - 2
          BY <2>1, <4>2 DEF s
        <5>2. Whole(p, O, name, r)
          BY <1>5, <2>8, <5>1 DEF Through, p
        <5> QED BY <2>2, <2>4, <5>2, GrownKeepsWhole DEF Stepped
      <4> QED BY <4>1, <4>2
    <3> QED BY <2>5, <2>6, <2>7, <2>8, <3>1 DEF Through, q
  <2>9. CASE ~ RegLogged(name)
    <3>1. q = d
      BY <1>5, <2>4, <2>9 DEF Through, Stepped, p
    <3> QED BY <2>5, <2>6, <2>7, <2>9, <3>1 DEF Through, q
  <2> QED BY <2>8, <2>9
<1>6. Through(d, e, O, name, n)
  <2>1. n \in Nat /\ n \in 0 .. n
    BY <1>1 DEF n
  <2>2. \A k \in 1 .. n : k - 1 \in R => k \in R
    BY <1>5, <2>1
  <2> HIDE DEF R
  <2>3. 0 .. n \subseteq R
    BY <1>4, <2>1, <2>2, RoundsInduction
  <2> QED BY <2>1, <2>3 DEF R
<1> HIDE DEF e
<1>7. ASSUME NEW other \in DOMAIN O, Stated(e, other), NEW s \in -1 .. RegSteps - 1
      PROVE  Whole(e, O, other, s)
  <2>1. CASE Stated(d, other)
    <3>1. Whole(d, O, other, s) /\ Faithful(d, O)
      BY <2>1 DEF Closed
    <3> QED BY <1>6, <3>1, GrownKeepsWhole DEF Through
  <2>2. CASE other = name /\ RegLogged(name)
    <3>1. s \in -1 .. n - 2
      BY <1>1 DEF n
    <3> QED BY <1>6, <2>2, <3>1 DEF Through
  <2> QED BY <1>6, <1>7, <2>1, <2>2 DEF Through
<1> QED BY <1>6, <1>7 DEF Closed, Through, e, n

(* Where nothing can have been logged yet.                                 *)
LEMMA NotObserved ==
    ASSUME NEW d, NEW O, Faithful(d, O), NEW name, name \notin DOMAIN O
    PROVE  ~ Stated(d, name) /\ \A s : Blank(d, name, s)
<1>1. ~ Stated(d, name)
  BY DEF Faithful, PhenotypesTrue, PhenotypeRow, Stated
<1>2. \A s : StatesBlank(d, name, s)
  BY DEF Faithful, StatesTrue, StateRow, StatesBlank, StateOf
<1>3. \A s : GeneStatesBlank(d, name, s)
  BY DEF Faithful, GeneStatesTrue, GeneStateRow, GeneStatesBlank, GeneStateOf, GeneOf
<1> QED BY <1>1, <1>2, <1>3 DEF Blank

LEMMA NoNetwork ==
    ASSUME NEW d, NEW O, Faithful(d, O), NEW name, ~ HasGrn(d, name[1], name[2])
    PROVE  \A s : Blank(d, name, s)
<1>1. ASSUME NEW i \in DOMAIN d.grn PROVE NameOf(d, i) # name
  BY DEF HasGrn, GrnIds, NameOf
<1>2. \A s : StatesBlank(d, name, s)
  BY <1>1 DEF Faithful, StatesTrue, StateRow, StatesBlank, StateOf
<1>3. \A s : GeneStatesBlank(d, name, s)
  BY <1>1 DEF Faithful, KeysUnique, GenesUnique, GeneStatesTrue, GeneStateRow,
              GeneStatesBlank, GeneStateOf, GeneOf
<1> QED BY <1>2, <1>3 DEF Blank

(* An individual more.                                                     *)
More(O, P) == DOMAIN O \subseteq DOMAIN P /\ \A n \in DOMAIN O : P[n] = O[n]

LEMMA MoreObserved ==
    ASSUME NEW d, NEW O, Closed(d, O), NEW P, More(O, P)
    PROVE  Closed(d, P)
<1>1. Faithful(d, O)
  BY DEF Closed
<1>2. StatesTrue(d, P)
  BY <1>1 DEF Faithful, StatesTrue, StateRow, More
<1>3. GeneStatesTrue(d, P)
  BY <1>1 DEF Faithful, GeneStatesTrue, GeneStateRow, More
<1>4. PhenotypesTrue(d, P)
  BY <1>1 DEF Faithful, PhenotypesTrue, PhenotypeRow, More
<1>5. TreesTrue(d, P)
  <2>1. \A p \in DOMAIN d.ptype_state : TreeOf(d, P, p) = TreeOf(d, O, p)
    BY <1>1 DEF Faithful, PhenotypesTrue, PhenotypeRow, TreeOf, More
  <2>2. TreesTrue(d, O) /\ SameTrees(d, d)
    BY <1>1 DEF Faithful, SameTrees
  <2> QED BY <2>1, <2>2, TreesStay
<1>6. Faithful(d, P)
  BY <1>1, <1>2, <1>3, <1>4, <1>5 DEF Faithful
<1>7. ASSUME NEW name \in DOMAIN P, Stated(d, name), NEW s \in -1 .. RegSteps - 1
      PROVE  Whole(d, P, name, s)
  <2>1. name \in DOMAIN O /\ P[name] = O[name]
    BY <1>1, <1>7, NotObserved DEF More
  <2> QED BY <1>7, <2>1 DEF Closed, Whole
<1> QED BY <1>6, <1>7 DEF Closed

(***************************************************************************)
(* What is logged of a population: its networks, the split points, the     *)
(* fitnesses.                                                              *)
(***************************************************************************)
LEMMA WithGrnsIs ==
    ASSUME NEW d, Sound(d), NEW step \in Int, NEW size \in Nat, \A i \in Int : ~ HasGrn(d, step, i)
    PROVE  LET e == WithGrns(d, step, size)
           IN /\ Sound(e) /\ e.fitness = d.fitness /\ OnlyKeys(d, e)
              /\ \A s, i \in Int : HasGrn(e, s, i) <=> HasGrn(d, s, i) \/ (s = step /\ i \in 0 .. size - 1)
<1> DEFINE next(f, k) == IF k = 0 THEN d ELSE LogGrn(f[k - 1], step, k - 1)
           T == {m \in Nat : \E f : f = [k \in 0 .. m |-> next(f, k)]}
<1>1. 0 \in T
  <2> DEFINE f == [k \in 0 .. 0 |-> d]
  <2>1. f = [k \in 0 .. 0 |-> next(f, k)]
    OBVIOUS
  <2> QED BY <2>1
<1>2. ASSUME NEW m \in Nat, m \in T PROVE m + 1 \in T
  <2>1. PICK f : f = [k \in 0 .. m |-> next(f, k)]
    BY <1>2
  <2> DEFINE g == [k \in 0 .. m + 1 |-> IF k = m + 1 THEN next(f, m + 1) ELSE f[k]]
  <2>2. ASSUME NEW k \in 0 .. m + 1 PROVE g[k] = next(g, k)
    <3>1. CASE k = 0
      BY <2>1, <3>1
    <3>2. CASE k # 0
      <4>1. k - 1 \in 0 .. m /\ k - 1 # m + 1
        BY <3>2
      <4>2. g[k - 1] = f[k - 1]
        BY <4>1
      <4>3. next(g, k) = next(f, k)
        BY <4>2
      <4>4. g[k] = next(f, k)
        <5>1. CASE k = m + 1
          BY <5>1
        <5>2. CASE k # m + 1
          BY <2>1, <5>2
        <5> QED BY <5>1, <5>2
      <4> QED BY <4>3, <4>4
    <3> QED BY <3>1, <3>2
  <2>3. g = [k \in 0 .. m + 1 |-> next(g, k)]
    BY <2>2
  <2> HIDE DEF g, next
  <2> QED BY <2>3
<1>3. \E f : f = [k \in 0 .. size |-> next(f, k)]
  <2> HIDE DEF T
  <2>1. size \in T
    BY <1>1, <1>2, NatSetInduction
  <2> QED BY <2>1 DEF T
<1> DEFINE with == CHOOSE f : f = [k \in 0 .. size |-> next(f, k)]
<1>4. with = [k \in 0 .. size |-> next(with, k)]
  BY <1>3
<1>5. WithGrns(d, step, size) = with[size]
  BY DEF WithGrns
<1> HIDE DEF with
<1>6. with[0] = d
  BY <1>4
<1>7. ASSUME NEW k \in 1 .. size PROVE with[k] = LogGrn(with[k - 1], step, k - 1)
  BY <1>4
<1> DEFINE Done(e, k) ==
             /\ Sound(e) /\ e.fitness = d.fitness /\ OnlyKeys(d, e)
             /\ \A s, i \in Int : HasGrn(e, s, i) <=> HasGrn(d, s, i) \/ (s = step /\ i \in 0 .. k - 1)
           R == {k \in Nat : Done(with[k], k)}
<1>8. 0 \in R
  <2>1. OnlyKeys(d, d)
    BY DEF OnlyKeys, KeysGrow, Kept, SameTrees
  <2> QED BY <1>6, <2>1
<1>9. ASSUME NEW k \in 1 .. size, Done(with[k - 1], k - 1) PROVE Done(with[k], k)
  <2>1. ~ HasGrn(with[k - 1], step, k - 1)
    BY <1>9
  <2>2. PICK c : c = with[k - 1]
    OBVIOUS
  <2>3. Sound(c) /\ c.fitness = d.fitness /\ OnlyKeys(d, c) /\ ~ HasGrn(c, step, k - 1)
    BY <1>9, <2>1, <2>2
  <2>4. /\ Sound(with[k]) /\ with[k].fitness = c.fitness /\ OnlyKeys(c, with[k])
        /\ \A s, i \in Int : HasGrn(with[k], s, i) <=> HasGrn(c, s, i) \/ (s = step /\ i = k - 1)
    <3>1. with[k] = LogGrn(c, step, k - 1)
      BY <1>7, <2>2
    <3> QED BY <2>3, <3>1, LogGrnIs
  <2>5. ASSUME NEW s \in Int, NEW i \in Int
        PROVE  HasGrn(with[k], s, i) <=> HasGrn(d, s, i) \/ (s = step /\ i \in 0 .. k - 1)
    <3>1. HasGrn(c, s, i) <=> HasGrn(d, s, i) \/ (s = step /\ i \in 0 .. (k - 1) - 1)
      BY <1>9, <2>2
    <3>2. i \in 0 .. k - 1 <=> i \in 0 .. (k - 1) - 1 \/ i = k - 1
      OBVIOUS
    <3> QED BY <2>4, <3>1, <3>2
  <2>6. OnlyKeys(d, with[k])
    BY <2>3, <2>4, OnlyKeysTwice
  <2> QED BY <2>3, <2>4, <2>5, <2>6
<1>10. size \in R
  <2>1. \A k \in 1 .. size : k - 1 \in R => k \in R
    <3> HIDE DEF Done
    <3> QED BY <1>9
  <2> HIDE DEF R
  <2>2. 0 .. size \subseteq R
    BY <1>8, <2>1, RoundsInduction
  <2> QED BY <2>2
<1> QED BY <1>5, <1>10

(* The split points are written to rows that keep their names.             *)
SameNames(d, e) ==
    /\ Sound(e) /\ e.fitness = d.fitness /\ OnlyKeys(d, e) /\ DOMAIN e.grn = DOMAIN d.grn
    /\ \A i \in DOMAIN d.grn : /\ e.grn[i].ga_step = d.grn[i].ga_step
                               /\ e.grn[i].pop_index = d.grn[i].pop_index

LEMMA LogSplitPtIs ==
    ASSUME LogGrns, NEW d, Sound(d), NEW step, NEW index, NEW split_pt \in Int
    PROVE  SameNames(d, LogSplitPt(d, step, index, split_pt))
<1> DEFINE n == Len(d.grn)
           x == [i \in DOMAIN d.grn |->
                   IF i \in GrnIds(d, step, index)
                   THEN [d.grn[i] EXCEPT !.split_pt = split_pt] ELSE d.grn[i]]
           e == LogSplitPt(d, step, index, split_pt)
<1>1. e = [d EXCEPT !.grn = x]
  BY DEF LogSplitPt
<1>2. d.grn \in Seq(GrnRows) /\ Tables(d) /\ n \in Nat /\ DOMAIN d.grn = 1 .. n
  BY DEF Sound, IsDb
<1>3. ASSUME NEW i \in 1 .. n
      PROVE  /\ x[i] \in GrnRows
             /\ x[i].ga_step = d.grn[i].ga_step /\ x[i].pop_index = d.grn[i].pop_index
  <2>1. PICK row \in GrnRows : row = d.grn[i]
    BY <1>2
  <2>2. x[i] \in {row, [row EXCEPT !.split_pt = split_pt]}
    BY <1>2, <2>1
  <2> HIDE DEF x
  <2> QED BY <2>1, <2>2 DEF GrnRows
<1>4. x = [i \in 1 .. n |-> x[i]]
  <2> HIDE DEF n
  <2> QED BY <1>2
<1> HIDE DEF x, n, e
<1>5. x \in Seq(GrnRows) /\ DOMAIN x = 1 .. n
  <2>1. x \in [1 .. n -> GrnRows]
    BY <1>3, <1>4
  <2> QED BY <1>2, <2>1, IsASeq
<1>6. /\ Tables(e) /\ e.grn = x /\ e.gene = d.gene
      /\ e.protein = d.protein /\ e.fitness = d.fitness /\ e.failed = d.failed
      /\ e.protein_state = d.protein_state /\ e.gene_state = d.gene_state
      /\ e.ptype_state = d.ptype_state /\ SameTrees(d, e)
  <2>1. Tables(d)
    BY <1>2
  <2> QED BY ONLY <1>1, <2>1, NetworksChanged
<1>7. IsDb(e) /\ ~ e.failed
  BY <1>5, <1>6 DEF IsDb, Sound
<1>8. HasGenes(e)
  BY <1>2, <1>5, <1>6 DEF Sound, HasGenes, GeneIds
<1>9. /\ DOMAIN e.grn = DOMAIN d.grn
      /\ \A i \in DOMAIN d.grn : /\ e.grn[i].ga_step = d.grn[i].ga_step
                                 /\ e.grn[i].pop_index = d.grn[i].pop_index
  BY <1>2, <1>3, <1>5, <1>6
<1>10. OnlyKeys(d, e)
  <2>1. \A i \in DOMAIN d.grn : NameOf(e, i) = NameOf(d, i)
    BY <1>9 DEF NameOf
  <2>2. KeysGrow(d, e)
    BY <1>6, <1>9, <2>1 DEF KeysGrow, Kept
  <2>3. KeysUnique(d) => KeysUnique(e)
    BY <1>6, <1>9, <2>1 DEF KeysUnique, NamesUnique, GenesUnique, ProteinsUnique
  <2> QED BY <1>6, <2>2, <2>3 DEF OnlyKeys
<1> QED BY <1>6, <1>7, <1>8, <1>9, <1>10 DEF SameNames, Sound, e

LEMMA SameNamesTwice ==
    ASSUME NEW d, NEW c, SameNames(d, c), NEW e, SameNames(c, e)
    PROVE  SameNames(d, e)
<1>1. OnlyKeys(d, e)
  BY OnlyKeysTwice DEF SameNames
<1> QED BY <1>1 DEF SameNames

LEMMA SameNamesHas ==
    ASSUME NEW d, NEW e, SameNames(d, e), NEW s, NEW i
    PROVE  HasGrn(e, s, i) <=> HasGrn(d, s, i)
BY DEF SameNames, HasGrn, GrnIds

LEMMA CrossedIs ==
    ASSUME LogGrns, Sound(db), NEW couples \in Couples
    PROVE  SameNames(db, Crossed(couples))
<1> DEFINE next(f, k) == IF k = 0 THEN db ELSE WithSplitPt(f[k - 1], couples[k])
           n == Len(couples)
           T == {m \in Nat : \E f : f = [k \in 0 .. m |-> next(f, k)]}
<1>1. /\ n \in Nat
      /\ \A k \in 1 .. n : couples[k] \in [parents : Int \X Int, split_pt : Int]
  <2>1. PICK S : S = [parents : Int \X Int, split_pt : Int]
    OBVIOUS
  <2>2. couples \in Seq(S)
    BY <2>1, LoggerAssumption
  <2>3. n \in Nat /\ \A k \in 1 .. n : couples[k] \in S
    BY ONLY <2>2
  <2> QED BY <2>1, <2>3
<1>2. 0 \in T
  <2> DEFINE f == [k \in 0 .. 0 |-> db]
  <2>1. f = [k \in 0 .. 0 |-> next(f, k)]
    OBVIOUS
  <2> QED BY <2>1
<1>3. ASSUME NEW m \in Nat, m \in T PROVE m + 1 \in T
  <2>1. PICK f : f = [k \in 0 .. m |-> next(f, k)]
    BY <1>3
  <2> DEFINE g == [k \in 0 .. m + 1 |-> IF k = m + 1 THEN next(f, m + 1) ELSE f[k]]
  <2>2. ASSUME NEW k \in 0 .. m + 1 PROVE g[k] = next(g, k)
    <3>1. CASE k = 0
      BY <2>1, <3>1
    <3>2. CASE k # 0
      <4>1. k - 1 \in 0 .. m /\ k - 1 # m + 1
        BY <3>2
      <4>2. g[k - 1] = f[k - 1]
        BY <4>1
      <4>3. next(g, k) = next(f, k)
        BY <4>2
      <4>4. g[k] = next(f, k)
        <5>1. CASE k = m + 1
          BY <5>1
        <5>2. CASE k # m + 1
          BY <2>1, <5>2
        <5> QED BY <5>1, <5>2
      <4> QED BY <4>3, <4>4
    <3> QED BY <3>1, <3>2
  <2>3. g = [k \in 0 .. m + 1 |-> next(g, k)]
    BY <2>2
  <2> HIDE DEF g, next
  <2> QED BY <2>3
<1>4. \E f : f = [k \in 0 .. n |-> next(f, k)]
  <2> HIDE DEF T
  <2>1. n \in T
    BY <1>1, <1>2, <1>3, NatSetInduction
  <2> QED BY <2>1 DEF T
<1> DEFINE crossed == CHOOSE f : f = [k \in 0 .. n |-> next(f, k)]
<1>5. crossed = [k \in 0 .. n |-> next(crossed, k)]
  BY <1>4
<1>6. Crossed(couples) = crossed[n]
  BY DEF Crossed
<1> HIDE DEF crossed, n
<1>7. crossed[0] = db
  BY <1>1, <1>5
<1>8. ASSUME NEW k \in 1 .. n PROVE crossed[k] = WithSplitPt(crossed[k - 1], couples[k])
  BY <1>1, <1>5
<1>9. ASSUME NEW k \in 1 .. n, SameNames(db, crossed[k - 1]) PROVE SameNames(db, crossed[k])
  <2> DEFINE couple == couples[k]
             c == crossed[k - 1]
             one == LogSplitPt(c, ga_step, couple.parents[1], couple.split_pt)
             two == LogSplitPt(one, ga_step, couple.parents[2], couple.split_pt)
  <2>1. couple.split_pt \in Int
    BY <1>1
  <2>2. crossed[k] = two
    BY <1>8 DEF WithSplitPt
  <2> HIDE DEF couple
  <2>3. Sound(c)
    BY <1>9 DEF SameNames
  <2>4. SameNames(c, one)
    BY <2>1, <2>3, LogSplitPtIs
  <2>5. Sound(one)
    BY <2>4 DEF SameNames
  <2> HIDE DEF one
  <2>6. SameNames(one, two)
    BY <2>1, <2>5, LogSplitPtIs
  <2> HIDE DEF two, c
  <2> QED BY <1>9, <2>2, <2>4, <2>6, SameNamesTwice DEF c
<1> DEFINE R == {k \in Nat : SameNames(db, crossed[k])}
<1>10. n \in R
  <2>1. 0 \in R
    BY <1>7 DEF SameNames, OnlyKeys, KeysGrow, Kept, SameTrees
  <2>2. \A k \in 1 .. n : k - 1 \in R => k \in R
    BY <1>1, <1>9
  <2> HIDE DEF R
  <2>3. 0 .. n \subseteq R
    BY <1>1, <2>1, <2>2, RoundsInduction
  <2> QED BY <1>1, <2>3
<1> QED BY <1>6, <1>10

LEMMA LogFitnessesIs ==
    ASSUME NEW d, Sound(d), NEW step \in Int, NEW fits \in Seq(Nat)
    PROVE  LET e == LogFitnesses(d, step, fits)
           IN /\ Sound(e) /\ e.grn = d.grn /\ OnlyKeys(d, e)
              /\ ~ ShouldSample(step) => e.fitness = d.fitness
              /\ ShouldSample(step) =>
                   /\ ToSet(e.fitness) = ToSet(d.fitness) \cup
                        {[ga_step |-> step, pop_index |-> i - 1, fitness |-> fits[i]] : i \in DOMAIN fits}
<1> DEFINE n == Len(fits)
           rows == [i \in DOMAIN fits |-> [ga_step |-> step, pop_index |-> i - 1, fitness |-> fits[i]]]
           e == LogFitnesses(d, step, fits)
<1>1. CASE ~ ShouldSample(step)
  BY <1>1 DEF LogFitnesses, OnlyKeys, KeysGrow, Kept, SameTrees
<1>2. CASE ShouldSample(step)
  <2>1. PICK x : x = d.fitness \o rows
    OBVIOUS
  <2>2. e = [d EXCEPT !.fitness = x]
    BY <1>2, <2>1 DEF LogFitnesses
  <2>3. n \in Nat /\ DOMAIN fits = 1 .. n /\ rows \in [1 .. n -> FitnessRows]
    BY DEF FitnessRows
  <2>4. d.fitness \in Seq(FitnessRows) /\ Tables(d)
    BY DEF Sound, IsDb
  <2> HIDE DEF rows, n, e
  <2>5. /\ Tables(e) /\ e.grn = d.grn /\ e.gene = d.gene
        /\ e.protein = d.protein /\ e.fitness = x /\ e.failed = d.failed
        /\ e.protein_state = d.protein_state /\ e.gene_state = d.gene_state
        /\ e.ptype_state = d.ptype_state /\ SameTrees(d, e)
    <3>1. Tables(d)
      BY <2>4
    <3> QED BY ONLY <2>2, <3>1 DEF Tables, SameTrees
  <2>6. /\ x \in Seq(FitnessRows) /\ Len(d.fitness) \in Nat
        /\ DOMAIN x = 1 .. Len(d.fitness) + n /\ DOMAIN d.fitness = 1 .. Len(d.fitness)
        /\ \A i \in 1 .. Len(d.fitness) : x[i] = d.fitness[i]
        /\ \A i \in 1 .. n : x[Len(d.fitness) + i] = rows[i]
    BY <2>1, <2>3, <2>4, RowsAppended
  <2>7. Sound(e)
    <3>1. IsDb(e) /\ ~ e.failed
      BY <2>5, <2>6 DEF IsDb, Sound
    <3>2. HasGenes(e)
      BY <2>5 DEF Sound, HasGenes, GeneIds
    <3> QED BY <3>1, <3>2 DEF Sound
  <2>8. ToSet(x) = ToSet(d.fitness) \cup {rows[i] : i \in 1 .. n}
    <3>1. ASSUME NEW k \in 1 .. Len(d.fitness) + n PROVE x[k] \in ToSet(d.fitness) \cup {rows[i] : i \in 1 .. n}
      <4>1. CASE k <= Len(d.fitness)
        <5>1. Len(d.fitness) \in Nat /\ n \in Nat
          BY <2>3, <2>6
        <5>2. k \in 1 .. Len(d.fitness)
          BY ONLY <3>1, <4>1, <5>1
        <5>3. x[k] = d.fitness[k] /\ k \in DOMAIN d.fitness
          BY <2>6, <5>2
        <5> QED BY <5>3 DEF ToSet
      <4>2. CASE ~ (k <= Len(d.fitness))
        <5>1. k - Len(d.fitness) \in 1 .. n /\ Len(d.fitness) + (k - Len(d.fitness)) = k
          <6>1. Len(d.fitness) \in Nat /\ n \in Nat
            BY <2>3, <2>6
          <6> QED BY ONLY <3>1, <4>2, <6>1
        <5>2. x[k] = rows[k - Len(d.fitness)]
          BY <2>6, <5>1
        <5> QED BY <5>1, <5>2
      <4> QED BY <4>1, <4>2
    <3>2. ASSUME NEW k \in 1 .. Len(d.fitness) PROVE d.fitness[k] \in ToSet(x)
      <4>1. k \in DOMAIN x /\ x[k] = d.fitness[k]
        BY <2>3, <2>6
      <4> QED BY <4>1 DEF ToSet
    <3>3. ASSUME NEW k \in 1 .. n PROVE rows[k] \in ToSet(x)
      <4>1. Len(d.fitness) + k \in DOMAIN x
        <5>1. Len(d.fitness) \in Nat /\ n \in Nat /\ DOMAIN x = 1 .. Len(d.fitness) + n
          BY <2>3, <2>6
        <5> QED BY ONLY <3>3, <5>1
      <4>2. x[Len(d.fitness) + k] = rows[k]
        BY <2>6, <3>3
      <4> QED BY <4>1, <4>2 DEF ToSet
    <3>4. ToSet(x) \subseteq ToSet(d.fitness) \cup {rows[i] : i \in 1 .. n}
      BY <2>6, <3>1 DEF ToSet
    <3>5. ToSet(d.fitness) \subseteq ToSet(x)
      BY <2>6, <3>2 DEF ToSet
    <3>6. {rows[i] : i \in 1 .. n} \subseteq ToSet(x)
      BY <3>3
    <3> QED BY ONLY <3>4, <3>5, <3>6
  <2>9. {rows[i] : i \in 1 .. n} =
          {[ga_step |-> step, pop_index |-> i - 1, fitness |-> fits[i]] : i \in DOMAIN fits}
    BY <2>3 DEF rows
  <2>10. OnlyKeys(d, e)
    <3>1. KeysGrow(d, e) /\ (KeysUnique(d) => KeysUnique(e))
      BY <2>5 DEF KeysGrow, Kept, NameOf, KeysUnique, NamesUnique, GenesUnique, ProteinsUnique
    <3> QED BY <2>5, <3>1 DEF OnlyKeys
  <2> QED BY <1>2, <2>5, <2>7, <2>8, <2>9, <2>10 DEF e
<1> QED BY <1>1, <1>2

(***************************************************************************)
(* The invariant.  The run's best is of this step if the flag is up, and   *)
(* then it is among the fitnesses; the rows of an earlier one are there.   *)
(***************************************************************************)
ObservedOK ==
    \A name \in DOMAIN observed : \A reg_step \in -1 .. RegSteps - 1 :
        Observation(observed[name][reg_step])

StateOK ==
    /\ pc \in {"evaluate", "log", "next", "done"}
    /\ ga_step \in Int /\ -1 <= ga_step
    /\ fitnesses \in Seq(Nat) /\ run_best_updated \in Flags
    /\ IF pc = "evaluate" THEN Len(fitnesses) < PopSize ELSE Len(fitnesses) = PopSize
    /\ ObservedOK

OfThisStep == bests.run[1] = ga_step /\ fitnesses # << >>
BestsOK ==
    /\ bests \in BestsType /\ (bests.gen = Null \/ bests.gen_over)
    /\ bests.run = Null <=> (ga_step = -1 /\ fitnesses = << >>)
    /\ bests.run # Null =>
         /\ bests.run \in DOMAIN observed
         /\ bests.run_iter = bests.run[1] /\ bests.run[1] <= ga_step
         /\ fitnesses = << >> => bests.run[1] < ga_step
         /\ fitnesses # << >> => (run_best_updated <=> OfThisStep)
         /\ OfThisStep => /\ bests.run[2] + 1 \in DOMAIN fitnesses
                          /\ fitnesses[bests.run[2] + 1] = bests.run_fitness

DbOK == Sound(db) /\ \A i \in DOMAIN db.grn : db.grn[i].ga_step <= ga_step

OneOfEach ==
    log_mode = "best" =>
      /\ \A i, j \in DOMAIN db.grn : db.grn[i].ga_step = db.grn[j].ga_step => i = j
      /\ pc = "evaluate" => \A i \in DOMAIN db.grn : db.grn[i].ga_step < ga_step

AllThere ==
    log_mode = "all" =>
      /\ ShouldSample(ga_step) => \A i \in 0 .. PopSize - 1 : HasGrn(db, ga_step, i)
      /\ \A row \in ToSet(db.fitness) : HasGrn(db, row.ga_step, row.pop_index)
      /\ (ga_step # -1 \/ pc \in {"next", "done"}) => ToSet(db.fitness) # {}

BestThere ==
    log_mode = "best" =>
      /\ bests.run = Null => ToSet(db.fitness) = {}
      /\ \A row \in ToSet(db.fitness) : bests.run_fitness <= row.fitness
      /\ \A i \in DOMAIN fitnesses : bests.run_fitness <= fitnesses[i]
      /\ bests.run # Null /\ ShouldSample(bests.run_iter) =>
           /\ \/ OfThisStep /\ pc = "evaluate"
              \/ HasGrn(db, bests.run[1], bests.run[2])
           /\ \/ OfThisStep /\ pc \in {"evaluate", "log"}
              \/ [ga_step |-> bests.run[1], pop_index |-> bests.run[2],
                  fitness |-> bests.run_fitness] \in ToSet(db.fitness)

IInv == StateOK /\ BestsOK /\ DbOK /\ OneOfEach
ShownInv == IInv /\ AllThere /\ BestThere

LEMMA EmptyIsSound == Sound(EmptyDb) /\ EmptyDb.grn = << >> /\ EmptyDb.fitness = << >>
<1>1. /\ EmptyDb.grn = << >> /\ EmptyDb.gene = << >> /\ EmptyDb.protein = << >>
      /\ EmptyDb.fitness = << >> /\ ~ EmptyDb.failed /\ Tables(EmptyDb)
  BY DEF EmptyDb, Tables
<1>2. << >> \in Seq(GrnRows) /\ << >> \in Seq(GeneRows) /\ << >> \in Seq(ProteinRows)
      /\ << >> \in Seq(FitnessRows)
  OBVIOUS
<1>3. HasGenes(EmptyDb)
  BY <1>1 DEF HasGenes
<1> QED BY <1>1, <1>2, <1>3 DEF Sound, IsDb

LEMMA LogGaStepIs ==
    ASSUME LogGrns, NEW d, Sound(d), NEW step \in Int, \A i \in DOMAIN d.grn : d.grn[i].ga_step < step
    PROVE  LET e == LogGaStep(d, log_mode, step, PopSize)
           IN /\ Sound(e) /\ e.fitness = d.fitness /\ OnlyKeys(d, e)
              /\ \A i \in DOMAIN e.grn : e.grn[i].ga_step <= step
              /\ \A s, i \in Int : HasGrn(d, s, i) => HasGrn(e, s, i)
              /\ log_mode = "all" /\ ShouldSample(step) => \A i \in 0 .. PopSize - 1 : HasGrn(e, step, i)
              /\ log_mode = "best" => e = d
<1> DEFINE e == LogGaStep(d, log_mode, step, PopSize)
<1>0. PopSize \in Nat
  BY LoggerAssumption
<1>1. d.grn \in Seq(GrnRows)
  BY DEF Sound, IsDb
<1>2. \A i \in DOMAIN d.grn : d.grn[i].ga_step \in Int /\ d.grn[i].pop_index \in Int
  <2>1. \A row \in GrnRows : row.ga_step \in Int /\ row.pop_index \in Int
    BY DEF GrnRows
  <2>2. \A i \in DOMAIN d.grn : d.grn[i] \in GrnRows
    BY <1>1
  <2> QED BY <2>1, <2>2
<1>3. CASE log_mode = "all" /\ ShouldSample(step)
  <2>1. e = WithGrns(d, step, PopSize)
    BY <1>3 DEF LogGaStep
  <2>2. \A i \in Int : ~ HasGrn(d, step, i)
    BY <1>2 DEF HasGrn, GrnIds
  <2> HIDE DEF e
  <2>3. /\ Sound(e) /\ e.fitness = d.fitness /\ OnlyKeys(d, e)
        /\ \A s, i \in Int : HasGrn(e, s, i) <=> HasGrn(d, s, i) \/ (s = step /\ i \in 0 .. PopSize - 1)
    BY <1>0, <2>1, <2>2, WithGrnsIs
  <2>4. ASSUME NEW i \in DOMAIN e.grn PROVE e.grn[i].ga_step <= step
    <3>1. PICK row \in GrnRows : row = e.grn[i]
      <4>1. e.grn \in Seq(GrnRows)
        BY <2>3 DEF Sound, IsDb
      <4> QED BY <4>1
    <3>2. row.ga_step \in Int /\ row.pop_index \in Int
      BY DEF GrnRows
    <3>3. HasGrn(e, row.ga_step, row.pop_index)
      BY <3>1 DEF HasGrn, GrnIds
    <3>4. CASE HasGrn(d, row.ga_step, row.pop_index)
      <4>1. PICK k \in DOMAIN d.grn : d.grn[k].ga_step = row.ga_step
        BY <3>4 DEF HasGrn, GrnIds
      <4>2. row.ga_step < step
        BY <4>1
      <4> QED BY <3>1, <3>2, <4>2
    <3>5. CASE row.ga_step = step
      BY <3>1, <3>5
    <3> QED BY <2>3, <3>2, <3>3, <3>4, <3>5
  <2>5. \A i \in 0 .. PopSize - 1 : HasGrn(e, step, i)
    BY <2>3
  <2> QED BY <1>3, <2>3, <2>4, <2>5 DEF e
<1>4. CASE ~ (log_mode = "all" /\ ShouldSample(step))
  <2>1. e = d
    BY <1>4 DEF LogGaStep
  <2>2. \A i \in DOMAIN d.grn : d.grn[i].ga_step <= step
    BY <1>2
  <2>3. OnlyKeys(d, d)
    BY DEF OnlyKeys, KeysGrow, Kept, SameTrees
  <2> QED BY <1>4, <2>1, <2>2, <2>3
<1> QED BY <1>3, <1>4

LEMMA NamesAre == \A name \in Names : name # Null /\ name[1] \in Int /\ name[2] \in Int
BY LoggerAssumption DEF Names

LEMMA InitInv == ASSUME LogGrns, Init PROVE ShownInv
<1> USE DEF Init
<1>1. /\ Sound(EmptyDb) /\ EmptyDb.fitness = << >>
      /\ \A i \in DOMAIN EmptyDb.grn : EmptyDb.grn[i].ga_step < -1
  <2>1. Sound(EmptyDb) /\ EmptyDb.fitness = << >> /\ EmptyDb.grn = << >>
    BY EmptyIsSound
  <2> QED BY <2>1
<1>2. /\ Sound(db) /\ db.fitness = << >>
      /\ \A i \in DOMAIN db.grn : db.grn[i].ga_step <= -1
      /\ log_mode = "all" /\ ShouldSample(-1) => \A i \in 0 .. PopSize - 1 : HasGrn(db, -1, i)
      /\ log_mode = "best" => db = EmptyDb
  <2>1. -1 \in Int
    OBVIOUS
  <2> QED BY <1>1, <2>1, LogGaStepIs
<1>3. StateOK
  <2>1. Len(<< >>) < PopSize /\ << >> \in Seq(Nat)
    BY LoggerAssumption
  <2>2. observed = << >> /\ DOMAIN observed = {}
    OBVIOUS
  <2>3. run_best_updated \in Flags
    BY DEF Flags
  <2>4. /\ pc = "evaluate" /\ ga_step = -1 /\ fitnesses \in Seq(Nat) /\ Len(fitnesses) < PopSize
    BY <2>1
  <2> QED BY ONLY <2>2, <2>3, <2>4 DEF StateOK, ObservedOK
<1>4. BestsOK
  <2>1. NoBests \in BestsType
    <3>1. PICK no \in Flags : no = FALSE
      BY DEF Flags
    <3>2. NoBests = [gen |-> Null, gen_fitness |-> -1, gen_over |-> no,
                     run |-> Null, run_fitness |-> -1, run_iter |-> -1]
      BY <3>1 DEF NoBests
    <3> QED BY ONLY <3>2 DEF BestsType
  <2>2. NoBests.gen = Null /\ NoBests.run = Null
    BY DEF NoBests
  <2> QED BY <2>1, <2>2 DEF BestsOK
<1>5. DbOK
  BY <1>2 DEF DbOK
<1>6. OneOfEach
  <2>1. log_mode = "best" => DOMAIN db.grn = {}
    BY <1>2, EmptyIsSound
  <2> QED BY <2>1 DEF OneOfEach
<1>7. ToSet(db.fitness) = {}
  BY <1>2 DEF ToSet
<1>8. AllThere
  BY <1>2, <1>7 DEF AllThere
<1>9. BestThere
  <2>1. bests.run = Null
    BY DEF NoBests
  <2> QED BY <1>7, <2>1 DEF BestThere
<1> QED BY <1>3, <1>4, <1>5, <1>6, <1>8, <1>9 DEF ShownInv, IInv

(* The two updates of an evaluation.  The first always happens, as the     *)
(* generation is over after each one.                                      *)
LEMMA BothUpdates ==
    ASSUME NEW b \in BestsType, b.gen = Null \/ b.gen_over, NEW s \in Names, NEW f \in Nat, NEW i \in Int
    PROVE  LET g == UpdateGenBest(b, s, f)
               r == UpdateRunBest(g.bests, s, f, i)
               e == GenDone(r.bests)
           IN /\ g.updated
              /\ e \in BestsType /\ e.gen_over
              /\ IF b.run = Null \/ f < b.run_fitness
                 THEN r.updated /\ e.run = s /\ e.run_fitness = f /\ e.run_iter = i
                 ELSE /\ ~ r.updated /\ e.run = b.run
                      /\ e.run_fitness = b.run_fitness /\ e.run_iter = b.run_iter
<1> DEFINE new == [b EXCEPT !.gen = s, !.gen_fitness = f, !.gen_over = FALSE]
           g == UpdateGenBest(b, s, f)
           r == UpdateRunBest(g.bests, s, f, i)
           e == GenDone(r.bests)
<1>1. g.updated /\ g.bests = new
  BY DEF UpdateGenBest, ReplacesGen
<1>2. new \in BestsType
  <2>1. f \in Int
    OBVIOUS
  <2> QED BY <2>1, UpdatesTyped
<1>3. new.run = b.run /\ new.run_fitness = b.run_fitness /\ new.run_iter = b.run_iter
  BY DEF BestsType
<1> HIDE DEF new, g
<1>4. CASE b.run = Null \/ f < b.run_fitness
  <2> DEFINE newer == [new EXCEPT !.run = s, !.run_fitness = f, !.run_iter = i]
  <2>1. r.updated /\ r.bests = newer
    BY <1>1, <1>3, <1>4 DEF UpdateRunBest, ReplacesRun
  <2>2. newer \in BestsType
    <3>1. f \in Int
      OBVIOUS
    <3> QED BY <1>2, <3>1, UpdatesTyped
  <2>3. newer.run = s /\ newer.run_fitness = f /\ newer.run_iter = i
    BY <1>2 DEF BestsType
  <2> HIDE DEF newer, r
  <2>4. /\ e \in BestsType /\ e.gen_over
        /\ e.run = s /\ e.run_fitness = f /\ e.run_iter = i
    BY <2>1, <2>2, <2>3, GenDoneKeeps
  <2> QED BY <1>1, <1>4, <2>1, <2>4 DEF r, g
<1>5. CASE ~ (b.run = Null \/ f < b.run_fitness)
  <2>1. ~ r.updated /\ r.bests = new
    BY <1>1, <1>3, <1>5 DEF UpdateRunBest, ReplacesRun
  <2> HIDE DEF r
  <2>2. /\ e \in BestsType /\ e.gen_over /\ e.run = b.run
        /\ e.run_fitness = b.run_fitness /\ e.run_iter = b.run_iter
    BY <1>2, <1>3, <2>1, GenDoneKeeps
  <2> QED BY <1>1, <1>5, <2>1, <2>2 DEF r, g
<1> QED BY <1>4, <1>5

(***************************************************************************)
(* An evaluation, which is named after its step and individual.            *)
(***************************************************************************)
Better(f) == bests.run = Null \/ f < bests.run_fitness

LogsRun == log_mode = "best" /\ IsLast /\ run_best_updated'

Simulated(name, f) ==
    /\ name = <<ga_step, Len(fitnesses)>> /\ name \in Names
    /\ fitnesses' = Append(fitnesses, f)
    /\ DOMAIN observed' = DOMAIN observed \cup {name} /\ ObservedOK'
    /\ \A n \in DOMAIN observed \ {name} : observed'[n] = observed[n]
    /\ bests' \in BestsType /\ bests'.gen_over /\ run_best_updated' \in Flags
    /\ IF Better(f)
       THEN /\ run_best_updated' /\ bests'.run = name
            /\ bests'.run_fitness = f /\ bests'.run_iter = ga_step
       ELSE /\ run_best_updated' <=> UpdatedBefore
            /\ bests'.run = bests.run /\ bests'.run \in Names
            /\ bests'.run_fitness = bests.run_fitness /\ bests'.run_iter = bests.run_iter

LEMMA EvaluateOneSimulates ==
    ASSUME IInv, EvaluateOne
    PROVE  \E f \in Nat : Simulated(<<ga_step, Len(fitnesses)>>, f)
<1> DEFINE name == <<ga_step, Len(fitnesses)>>
           g(f) == UpdateGenBest(bests, name, f)
           r(f) == UpdateRunBest(g(f).bests, name, f, ga_step)
<1>1. PICK simulation \in Simulations :
        /\ fitnesses' = Append(fitnesses, simulation.fitness)
        /\ observed' = [n \in DOMAIN observed \cup {name} |->
                          IF n = name THEN simulation.steps ELSE observed[n]]
        /\ bests' = GenDone(IF g(simulation.fitness).updated THEN r(simulation.fitness).bests
                            ELSE g(simulation.fitness).bests)
        /\ run_best_updated' = (UpdatedBefore \/ (g(simulation.fitness).updated /\ r(simulation.fitness).updated))
  BY DEF EvaluateOne
<1>2. /\ simulation.fitness \in Nat
      /\ \A reg_step \in -1 .. RegSteps - 1 : Observation(simulation.steps[reg_step])
  BY LoggerAssumption
<1>3. PICK f \in Nat : f = simulation.fitness
  BY <1>2
<1>4. name \in Names /\ ga_step \in Int /\ run_best_updated \in Flags
  BY DEF IInv, StateOK, Names
<1>5. bests \in BestsType /\ (bests.gen = Null \/ bests.gen_over)
  BY DEF IInv, BestsOK
<1> HIDE DEF name
<1>6. /\ g(f).updated
      /\ GenDone(r(f).bests) \in BestsType /\ GenDone(r(f).bests).gen_over
      /\ IF Better(f)
         THEN /\ r(f).updated /\ GenDone(r(f).bests).run = name
              /\ GenDone(r(f).bests).run_fitness = f /\ GenDone(r(f).bests).run_iter = ga_step
         ELSE /\ ~ r(f).updated /\ GenDone(r(f).bests).run = bests.run
              /\ GenDone(r(f).bests).run_fitness = bests.run_fitness
              /\ GenDone(r(f).bests).run_iter = bests.run_iter
  BY <1>4, <1>5, BothUpdates DEF Better
<1>7. /\ bests' = GenDone(r(f).bests)
      /\ run_best_updated' = (UpdatedBefore \/ r(f).updated)
  BY <1>1, <1>3, <1>6
<1>8. /\ DOMAIN observed' = DOMAIN observed \cup {name} /\ ObservedOK'
      /\ \A n \in DOMAIN observed \ {name} : observed'[n] = observed[n]
  <2>1. DOMAIN observed' = DOMAIN observed \cup {name}
    BY <1>1
  <2>2. ASSUME NEW n \in DOMAIN observed', NEW reg_step \in -1 .. RegSteps - 1
        PROVE  Observation(observed'[n][reg_step])
    <3>1. CASE n = name
      <4>1. observed'[n] = simulation.steps
        BY <1>1, <3>1
      <4> QED BY <1>2, <4>1
    <3>2. CASE n # name
      <4>1. n \in DOMAIN observed /\ observed'[n] = observed[n]
        BY <1>1, <3>2
      <4> QED BY <4>1 DEF IInv, StateOK, ObservedOK
    <3> QED BY <3>1, <3>2
  <2>3. \A n \in DOMAIN observed \ {name} : observed'[n] = observed[n]
    BY <1>1
  <2> QED BY <2>1, <2>2, <2>3 DEF ObservedOK
<1>9. ~ Better(f) => bests.run \in Names
  BY <1>5 DEF Better, BestsType
<1>10. run_best_updated' \in Flags
  BY <1>7 DEF Flags
<1> HIDE DEF r, g
<1>11. IF Better(f)
       THEN /\ run_best_updated' /\ bests'.run = name
            /\ bests'.run_fitness = f /\ bests'.run_iter = ga_step
       ELSE /\ run_best_updated' <=> UpdatedBefore
            /\ bests'.run = bests.run /\ bests'.run \in Names
            /\ bests'.run_fitness = bests.run_fitness /\ bests'.run_iter = bests.run_iter
  BY <1>6, <1>7, <1>9
<1>12. fitnesses' = Append(fitnesses, f) /\ bests' \in BestsType /\ bests'.gen_over
  BY <1>1, <1>3, <1>6, <1>7
<1> QED BY <1>4, <1>8, <1>10, <1>11, <1>12 DEF Simulated, name

LEMMA EvaluateOneLogs ==
    ASSUME IInv, EvaluateOne, NEW name, NEW f \in Nat, Simulated(name, f)
    PROVE  /\ log_mode = "all" => Extended(db, db', name)
           /\ LogsRun => /\ bests'.run \in Names
                         /\ Extended(db, db', bests'.run)
                         /\ RegLogged(bests'.run) => HasGrn(db', bests'.run[1], bests'.run[2])
           /\ log_mode # "all" /\ ~ LogsRun => db' = db
<1>1. db' = CASE log_mode = "all" -> LogRegSnapshot(db, name, observed'[name])
              [] log_mode = "best" /\ IsLast /\ run_best_updated' ->
                   LogRegSnapshot(db, bests'.run, observed'[bests'.run])
              [] OTHER -> db
  BY DEF EvaluateOne, Logged, Simulated
<1>2. Sound(db)
  BY DEF IInv, DbOK
<1>3. CASE log_mode = "all"
  <2>1. db' = LogRegSnapshot(db, name, observed'[name])
    BY <1>1, <1>3
  <2>2. \A reg_step \in -1 .. RegSteps - 1 : Observation(observed'[name][reg_step])
    BY DEF Simulated, ObservedOK
  <2>3. name \in Names
    BY DEF Simulated
  <2>4. Extended(db, db', name)
    <3>1. PICK logged : /\ StepByStep(logged, db, name, observed'[name])
                        /\ db' = logged[RegSteps + 1]
      BY <2>1, SnapshotIs
    <3>2. \A k \in 0 .. RegSteps + 1 : Extended(db, logged[k], name)
      BY <1>2, <2>2, <2>3, <3>1, LogRegSnapshotIs
    <3> QED BY <3>1, <3>2, DatabaseAssumption
  <2> QED BY <1>3, <2>4 DEF LogsRun
<1>4. CASE LogsRun
  <2>1. db' = LogRegSnapshot(db, bests'.run, observed'[bests'.run])
    BY <1>1, <1>4 DEF LogsRun
  <2>2. bests'.run \in Names /\ bests'.run \in DOMAIN observed'
    <3>1. CASE Better(f)
      BY <3>1 DEF Simulated
    <3>2. CASE ~ Better(f)
      BY <3>2 DEF Simulated, Better, IInv, BestsOK
    <3> QED BY <3>1, <3>2
  <2>3. \A reg_step \in -1 .. RegSteps - 1 : Observation(observed'[bests'.run][reg_step])
    BY <2>2 DEF Simulated, ObservedOK
  <2>4. /\ Extended(db, db', bests'.run)
        /\ RegLogged(bests'.run) => HasGrn(db', bests'.run[1], bests'.run[2])
    <3>1. PICK logged : /\ StepByStep(logged, db, bests'.run, observed'[bests'.run])
                        /\ db' = logged[RegSteps + 1]
      BY <2>1, SnapshotIs
    <3>2. /\ \A k \in 0 .. RegSteps + 1 : Extended(db, logged[k], bests'.run)
          /\ RegLogged(bests'.run) => HasGrn(logged[RegSteps + 1], bests'.run[1], bests'.run[2])
      BY <1>2, <2>2, <2>3, <3>1, LogRegSnapshotIs
    <3> QED BY <3>1, <3>2, DatabaseAssumption
  <2> QED BY <1>4, <2>2, <2>4 DEF LogsRun
<1>5. CASE log_mode # "all" /\ ~ LogsRun
  BY <1>1, <1>5 DEF LogsRun
<1> QED BY <1>3, <1>4, <1>5

LEMMA ExtendedRows ==
    ASSUME NEW d, Sound(d), NEW name \in Names, NEW e, Extended(d, e, name)
    PROVE  /\ \A i \in DOMAIN e.grn :
                \/ i \in DOMAIN d.grn /\ e.grn[i] = d.grn[i]
                \/ i = Len(d.grn) + 1 /\ e.grn[i].ga_step = name[1]
           /\ \A s, i \in Int : HasGrn(d, s, i) => HasGrn(e, s, i)
<1>1. CASE e.grn = d.grn
  BY <1>1 DEF HasGrn, GrnIds
<1>2. CASE e.grn = Append(d.grn, NewGrn(name[1], name[2]))
  <2> DEFINE row == NewGrn(name[1], name[2])
  <2>1. row \in GrnRows /\ row.ga_step = name[1]
    BY DEF NewGrn, GrnRows, Names, NoRow
  <2>2. d.grn \in Seq(GrnRows) /\ e.grn = Append(d.grn, row)
    BY <1>2 DEF Sound, IsDb
  <2> HIDE DEF row
  <2>3. /\ Len(d.grn) \in Nat /\ DOMAIN d.grn = 1 .. Len(d.grn)
        /\ DOMAIN e.grn = 1 .. Len(d.grn) + 1
        /\ \A i \in 1 .. Len(d.grn) : e.grn[i] = d.grn[i]
        /\ e.grn[Len(d.grn) + 1] = row
    BY <2>1, <2>2, Appended
  <2>4. ASSUME NEW i \in DOMAIN e.grn
        PROVE  \/ i \in DOMAIN d.grn /\ e.grn[i] = d.grn[i]
               \/ i = Len(d.grn) + 1 /\ e.grn[i].ga_step = name[1]
    BY <2>1, <2>3
  <2>5. \A i \in DOMAIN d.grn : i \in DOMAIN e.grn /\ e.grn[i] = d.grn[i]
    BY <2>3
  <2>6. \A s, i \in Int : HasGrn(d, s, i) => HasGrn(e, s, i)
    BY <2>5 DEF HasGrn, GrnIds
  <2> QED BY <2>4, <2>6
<1> QED BY <1>1, <1>2 DEF Extended

LEMMA EvaluateOneState ==
    ASSUME IInv, EvaluateOne, NEW name, NEW f \in Nat, Simulated(name, f)
    PROVE  /\ StateOK' /\ fitnesses \in Seq(Nat) /\ fitnesses' \in Seq(Nat)
           /\ Len(fitnesses) \in Nat /\ Len(fitnesses') = Len(fitnesses) + 1
           /\ fitnesses' # << >> /\ (fitnesses = << >> <=> Len(fitnesses) = 0)
           /\ \A i \in 1 .. Len(fitnesses) : fitnesses'[i] = fitnesses[i]
           /\ fitnesses'[Len(fitnesses) + 1] = f
           /\ DOMAIN fitnesses = 1 .. Len(fitnesses) /\ DOMAIN fitnesses' = 1 .. Len(fitnesses) + 1
           /\ pc = "evaluate" /\ pc' = (IF IsLast THEN "log" ELSE "evaluate")
           /\ ga_step' = ga_step /\ ga_step \in Int /\ log_mode' = log_mode
<1>1. /\ pc = "evaluate" /\ pc' = (IF IsLast THEN "log" ELSE "evaluate")
      /\ ga_step' = ga_step /\ log_mode' = log_mode
  BY DEF EvaluateOne
<1>2. /\ fitnesses \in Seq(Nat) /\ ga_step \in Int /\ -1 <= ga_step
      /\ Len(fitnesses) < PopSize
  BY <1>1 DEF IInv, StateOK
<1>3. fitnesses' = Append(fitnesses, f)
  BY DEF Simulated
<1>4. /\ fitnesses' \in Seq(Nat) /\ Len(fitnesses) \in Nat
      /\ DOMAIN fitnesses' = 1 .. Len(fitnesses) + 1 /\ DOMAIN fitnesses = 1 .. Len(fitnesses)
      /\ \A i \in 1 .. Len(fitnesses) : fitnesses'[i] = fitnesses[i]
      /\ fitnesses'[Len(fitnesses) + 1] = f
  BY <1>2, <1>3, Appended
<1>5. Len(fitnesses') = Len(fitnesses) + 1 /\ fitnesses' # << >>
  BY <1>2, <1>3
<1>6. fitnesses = << >> <=> Len(fitnesses) = 0
  BY <1>2
<1>7. IF pc' = "evaluate" THEN Len(fitnesses') < PopSize ELSE Len(fitnesses') = PopSize
  <2>1. PopSize \in Nat
    BY LoggerAssumption
  <2> QED BY <1>1, <1>2, <1>4, <1>5, <2>1 DEF IsLast
<1>8. pc' \in {"evaluate", "log", "next", "done"} /\ run_best_updated' \in Flags /\ ObservedOK'
  BY <1>1 DEF Simulated
<1>9. StateOK'
  BY ONLY <1>1, <1>2, <1>4, <1>7, <1>8 DEF StateOK
<1> QED BY <1>1, <1>2, <1>4, <1>5, <1>6, <1>9

LEMMA EvaluateOneBests ==
    ASSUME IInv, EvaluateOne, NEW name, NEW f \in Nat, Simulated(name, f)
    PROVE  BestsOK' /\ bests'.run \in Names /\ bests'.run # Null
<1> DEFINE n == Len(fitnesses)
<1>1. /\ fitnesses' # << >> /\ n \in Nat /\ ga_step' = ga_step
      /\ \A i \in 1 .. n : fitnesses'[i] = fitnesses[i]
      /\ fitnesses'[n + 1] = f /\ DOMAIN fitnesses = 1 .. n /\ DOMAIN fitnesses' = 1 .. n + 1
  BY EvaluateOneState
<1>2. /\ bests' \in BestsType /\ bests'.gen_over
      /\ name = <<ga_step, n>> /\ name \in Names /\ DOMAIN observed' = DOMAIN observed \cup {name}
  BY DEF Simulated
<1>3. name[1] = ga_step /\ name[2] = n
  BY <1>2
<1>4. BestsOK
  BY DEF IInv
<1> HIDE DEF n
<1>5. CASE Better(f)
  <2>1. /\ run_best_updated' /\ bests'.run = name
        /\ bests'.run_fitness = f /\ bests'.run_iter = ga_step
    BY <1>5 DEF Simulated
  <2>2. bests'.run # Null
    BY <1>2, <2>1, NamesAre
  <2>3. bests'.run \in DOMAIN observed' /\ bests'.run_iter = bests'.run[1]
    BY <1>2, <1>3, <2>1
  <2>4. bests'.run[1] <= ga_step' /\ OfThisStep'
    <3>1. ga_step \in Int
      BY EvaluateOneState
    <3> QED BY <1>1, <1>3, <2>1, <3>1 DEF OfThisStep
  <2>5. bests'.run[2] + 1 \in DOMAIN fitnesses' /\ fitnesses'[bests'.run[2] + 1] = bests'.run_fitness
    BY <1>1, <1>3, <2>1
  <2>6. BestsOK'
    BY ONLY <1>1, <1>2, <2>1, <2>2, <2>3, <2>4, <2>5 DEF BestsOK
  <2> QED BY <1>2, <2>1, <2>2, <2>6
<1>6. CASE ~ Better(f)
  <2>1. /\ run_best_updated' <=> UpdatedBefore
        /\ bests'.run = bests.run /\ bests'.run \in Names
        /\ bests'.run_fitness = bests.run_fitness /\ bests'.run_iter = bests.run_iter
    BY <1>6 DEF Simulated
  <2>2. bests.run # Null
    BY <2>1, NamesAre
  <2>3. /\ bests.run \in DOMAIN observed
        /\ bests.run_iter = bests.run[1] /\ bests.run[1] <= ga_step
        /\ fitnesses = << >> => bests.run[1] < ga_step
        /\ fitnesses # << >> => (run_best_updated <=> OfThisStep)
        /\ OfThisStep => /\ bests.run[2] + 1 \in DOMAIN fitnesses
                         /\ fitnesses[bests.run[2] + 1] = bests.run_fitness
    BY <1>4, <2>2 DEF BestsOK
  <2>4. OfThisStep' <=> bests.run[1] = ga_step
    BY <1>1, <2>1 DEF OfThisStep
  <2>5. OfThisStep' <=> OfThisStep
    <3>1. bests.run[1] \in Int /\ ga_step \in Int
      BY <2>1, NamesAre, EvaluateOneState
    <3> QED BY <2>3, <2>4, <3>1 DEF OfThisStep
  <2>6. run_best_updated' <=> OfThisStep'
    BY <2>1, <2>3, <2>5 DEF UpdatedBefore, OfThisStep
  <2>7. OfThisStep' => /\ bests'.run[2] + 1 \in DOMAIN fitnesses'
                       /\ fitnesses'[bests'.run[2] + 1] = bests'.run_fitness
    <3>1. ASSUME NEW k \in 1 .. n PROVE k \in 1 .. n + 1
      BY <1>1
    <3> QED BY <1>1, <2>1, <2>3, <2>5, <3>1
  <2>8. bests'.run \in DOMAIN observed' /\ bests'.run_iter = bests'.run[1] /\ bests'.run[1] <= ga_step'
    BY <1>1, <1>2, <2>1, <2>3
  <2>9. BestsOK'
    BY ONLY <1>1, <1>2, <2>1, <2>2, <2>6, <2>7, <2>8 DEF BestsOK
  <2> QED BY <2>1, <2>2, <2>9
<1> QED BY <1>5, <1>6

LEMMA EvaluateOneDb ==
    ASSUME IInv, EvaluateOne, NEW name, NEW f \in Nat, Simulated(name, f)
    PROVE  /\ DbOK' /\ OneOfEach'
           /\ db'.fitness = db.fitness
           /\ \A s, i \in Int : HasGrn(db, s, i) => HasGrn(db', s, i)
<1>1. /\ Sound(db) /\ \A i \in DOMAIN db.grn : db.grn[i].ga_step <= ga_step
  BY DEF IInv, DbOK
<1>2. /\ ga_step \in Int /\ ga_step' = ga_step /\ log_mode' = log_mode /\ fitnesses' # << >>
      /\ pc = "evaluate" /\ pc' = (IF IsLast THEN "log" ELSE "evaluate")
  BY EvaluateOneState
<1>3. OneOfEach
  BY DEF IInv
<1>4. CASE log_mode = "all"
  <2>1. Extended(db, db', name) /\ name \in Names /\ name[1] = ga_step
    BY <1>4, EvaluateOneLogs DEF Simulated
  <2>2. /\ \A i \in DOMAIN db'.grn : \/ i \in DOMAIN db.grn /\ db'.grn[i] = db.grn[i]
                                     \/ db'.grn[i].ga_step = name[1]
        /\ \A s, i \in Int : HasGrn(db, s, i) => HasGrn(db', s, i)
    BY <1>1, <2>1, ExtendedRows
  <2>3. Sound(db') /\ db'.fitness = db.fitness
    BY <2>1 DEF Extended
  <2>4. \A i \in DOMAIN db'.grn : db'.grn[i].ga_step <= ga_step'
    BY <1>1, <1>2, <2>1, <2>2
  <2>5. OneOfEach'
    BY <1>2, <1>4 DEF OneOfEach
  <2> QED BY <2>2, <2>3, <2>4, <2>5 DEF DbOK
<1>5. CASE LogsRun
  <2> DEFINE run == bests'.run
  <2>1. Extended(db, db', run) /\ run \in Names
    BY <1>5, EvaluateOneLogs
  <2>2. run[1] = ga_step
    <3>1. BestsOK' /\ run # Null /\ run_best_updated'
      BY <1>5, EvaluateOneBests DEF LogsRun
    <3> QED BY <1>2, <3>1 DEF BestsOK, OfThisStep
  <2>3. /\ \A i \in DOMAIN db'.grn : \/ i \in DOMAIN db.grn /\ db'.grn[i] = db.grn[i]
                                     \/ i = Len(db.grn) + 1 /\ db'.grn[i].ga_step = run[1]
        /\ \A s, i \in Int : HasGrn(db, s, i) => HasGrn(db', s, i)
    BY <1>1, <2>1, ExtendedRows
  <2> HIDE DEF run
  <2>4. Sound(db') /\ db'.fitness = db.fitness
    BY <2>1 DEF Extended
  <2>5. \A i \in DOMAIN db'.grn : db'.grn[i].ga_step <= ga_step'
    BY <1>1, <1>2, <2>2, <2>3
  <2>6. pc' = "log" /\ log_mode = "best"
    BY <1>2, <1>5 DEF LogsRun
  <2>7. /\ \A i, j \in DOMAIN db.grn : db.grn[i].ga_step = db.grn[j].ga_step => i = j
        /\ \A i \in DOMAIN db.grn : db.grn[i].ga_step < ga_step
    BY <1>2, <1>3, <2>6 DEF OneOfEach
  <2>8. ASSUME NEW i \in DOMAIN db'.grn, NEW j \in DOMAIN db'.grn, db'.grn[i].ga_step = db'.grn[j].ga_step
        PROVE  i = j
    <3>1. \A k \in DOMAIN db.grn : db.grn[k].ga_step # ga_step
      <4>1. \A k \in DOMAIN db.grn : db.grn[k].ga_step < ga_step
        BY <2>7
      <4> QED BY <1>2, <4>1
    <3> QED BY <2>2, <2>3, <2>7, <2>8, <3>1
  <2>9. OneOfEach'
    BY <2>6, <2>8 DEF OneOfEach
  <2> QED BY <2>3, <2>4, <2>5, <2>9 DEF DbOK
<1>6. CASE log_mode # "all" /\ ~ LogsRun
  <2>1. db' = db
    BY <1>6, EvaluateOneLogs
  <2>2. OneOfEach'
    BY <1>2, <1>3, <2>1 DEF OneOfEach
  <2> QED BY <1>1, <1>2, <2>1, <2>2 DEF DbOK
<1> QED BY <1>4, <1>5, <1>6

LEMMA RowsAre ==
    ASSUME NEW d, Sound(d), NEW row \in ToSet(d.fitness)
    PROVE  row.ga_step \in Int /\ row.pop_index \in Int /\ row.fitness \in Nat
<1>1. row \in FitnessRows
  BY DEF Sound, IsDb, ToSet
<1> QED BY <1>1 DEF FitnessRows

LEMMA EvaluateOneAll ==
    ASSUME IInv, AllThere, EvaluateOne, NEW name, NEW f \in Nat, Simulated(name, f)
    PROVE  AllThere'
<1> SUFFICES ASSUME log_mode = "all"
             PROVE  /\ ShouldSample(ga_step) => \A i \in 0 .. PopSize - 1 : HasGrn(db', ga_step, i)
                    /\ \A row \in ToSet(db'.fitness) : HasGrn(db', row.ga_step, row.pop_index)
                    /\ ga_step # -1 => ToSet(db'.fitness) # {}
  <2>1. /\ ga_step' = ga_step /\ log_mode' = log_mode /\ pc' \notin {"next", "done"}
    BY EvaluateOneState
  <2> QED BY <2>1 DEF AllThere
<1>1. /\ db'.fitness = db.fitness
      /\ \A s, i \in Int : HasGrn(db, s, i) => HasGrn(db', s, i)
  BY EvaluateOneDb
<1>2. ga_step \in Int /\ Sound(db)
  BY EvaluateOneState DEF IInv, DbOK
<1>3. \A row \in ToSet(db.fitness) : HasGrn(db', row.ga_step, row.pop_index)
  BY <1>1, <1>2, RowsAre DEF AllThere
<1>4. \A i \in 0 .. PopSize - 1 : i \in Int
  OBVIOUS
<1> QED BY <1>1, <1>2, <1>3, <1>4 DEF AllThere

LEMMA EvaluateOneBest ==
    ASSUME LogGrns, LogRegSteps, IInv, BestThere, EvaluateOne,
           NEW name, NEW f \in Nat, Simulated(name, f)
    PROVE  BestThere'
<1> SUFFICES ASSUME log_mode = "best" PROVE BestThere'
  <2>1. log_mode' = log_mode
    BY EvaluateOneState
  <2> QED BY <2>1 DEF BestThere
<1> DEFINE n == Len(fitnesses)
           row == [ga_step |-> bests'.run[1], pop_index |-> bests'.run[2], fitness |-> bests'.run_fitness]
<1>1. /\ fitnesses' # << >> /\ n \in Nat /\ ga_step' = ga_step
      /\ (fitnesses = << >> <=> n = 0) /\ fitnesses \in Seq(Nat)
      /\ \A i \in 1 .. n : fitnesses'[i] = fitnesses[i]
      /\ fitnesses'[n + 1] = f /\ DOMAIN fitnesses = 1 .. n /\ DOMAIN fitnesses' = 1 .. n + 1
      /\ pc' = (IF IsLast THEN "log" ELSE "evaluate")
  BY EvaluateOneState
<1>2. /\ BestsOK' /\ bests'.run \in Names /\ bests'.run # Null
      /\ db'.fitness = db.fitness /\ Sound(db)
      /\ \A s, i \in Int : HasGrn(db, s, i) => HasGrn(db', s, i)
  BY EvaluateOneBests, EvaluateOneDb DEF IInv, DbOK
<1>3. /\ bests.run = Null => fitnesses = << >> /\ ToSet(db.fitness) = {}
      /\ bests.run_fitness \in Int
      /\ \A r \in ToSet(db.fitness) : bests.run_fitness <= r.fitness
      /\ \A i \in DOMAIN fitnesses : bests.run_fitness <= fitnesses[i]
  BY DEF BestThere, IInv, BestsOK, BestsType
<1>4. /\ bests'.run_fitness \in Int /\ bests'.run_fitness <= f
      /\ bests.run # Null => bests'.run_fitness <= bests.run_fitness
  BY <1>3 DEF Simulated, Better
<1> HIDE DEF n
<1>5. \A r \in ToSet(db'.fitness) : bests'.run_fitness <= r.fitness
  <2> SUFFICES ASSUME NEW r \in ToSet(db.fitness) PROVE bests'.run_fitness <= r.fitness
    BY <1>2
  <2>1. r.fitness \in Nat
    BY <1>2, RowsAre
  <2>2. bests.run # Null /\ bests.run_fitness <= r.fitness
    BY <1>3
  <2> QED BY <1>3, <1>4, <2>1, <2>2
<1>6. ASSUME NEW i \in DOMAIN fitnesses' PROVE bests'.run_fitness <= fitnesses'[i]
  <2>1. CASE i = n + 1
    BY <1>1, <1>4, <2>1
  <2>2. CASE i \in 1 .. n
    <3>1. fitnesses[i] \in Nat /\ fitnesses'[i] = fitnesses[i] /\ n # 0
      BY <1>1, <2>2
    <3>2. bests.run # Null /\ bests.run_fitness <= fitnesses[i]
      BY <1>1, <1>3, <2>2, <3>1
    <3> QED BY <1>3, <1>4, <3>1, <3>2
  <2> QED BY <1>1, <2>1, <2>2
<1>7. ASSUME ShouldSample(bests'.run_iter)
      PROVE  /\ (OfThisStep /\ pc = "evaluate")' \/ HasGrn(db', bests'.run[1], bests'.run[2])
             /\ (OfThisStep /\ pc \in {"evaluate", "log"})' \/ row \in ToSet(db'.fitness)
  <2>1. /\ bests'.run_iter = bests'.run[1]
        /\ run_best_updated' <=> OfThisStep'
    BY <1>1, <1>2 DEF BestsOK
  <2>2. CASE OfThisStep'
    <3>1. CASE IsLast
      <4>1. LogsRun
        BY <2>1, <2>2, <3>1 DEF LogsRun
      <4>2. RegLogged(bests'.run)
        BY <1>7, <2>1 DEF RegLogged
      <4>3. HasGrn(db', bests'.run[1], bests'.run[2])
        BY <4>1, <4>2, EvaluateOneLogs
      <4> QED BY <1>1, <2>2, <4>3
    <3>2. CASE ~ IsLast
      BY <1>1, <2>2, <3>2
    <3> QED BY <3>1, <3>2
  <2>3. CASE ~ OfThisStep'
    <3>1. ~ Better(f)
      BY <2>1, <2>3 DEF Simulated
    <3>2. /\ bests'.run = bests.run /\ bests'.run_fitness = bests.run_fitness
          /\ bests'.run_iter = bests.run_iter
      BY <3>1 DEF Simulated
    <3>3. ~ OfThisStep
      BY <1>1, <2>3, <3>2 DEF OfThisStep
    <3>4. HasGrn(db, bests.run[1], bests.run[2]) /\ row \in ToSet(db.fitness)
      BY <1>2, <1>7, <3>2, <3>3 DEF BestThere
    <3>5. HasGrn(db', bests'.run[1], bests'.run[2])
      BY <1>2, <3>2, <3>4, NamesAre
    <3> QED BY <1>2, <3>4, <3>5
  <2> QED BY <2>2, <2>3
<1> QED BY <1>2, <1>5, <1>6, <1>7 DEF BestThere

(***************************************************************************)
(* The end of a step, and the next one                                     *)
(***************************************************************************)
LEMMA LogStepInv ==
    ASSUME IInv, LogStep
    PROVE  /\ IInv'
           /\ AllThere => AllThere'
           /\ BestThere => BestThere'
<1>1. /\ pc = "log" /\ pc' = "next" /\ db' = LogFitnesses(db, ga_step, fitnesses)
      /\ log_mode' = log_mode /\ ga_step' = ga_step /\ fitnesses' = fitnesses /\ bests' = bests
      /\ run_best_updated' = run_best_updated /\ observed' = observed
  BY DEF LogStep
<1>2. /\ ga_step \in Int /\ fitnesses \in Seq(Nat) /\ Len(fitnesses) = PopSize /\ PopSize \in Nat \ {0}
  BY <1>1, LoggerAssumption DEF IInv, StateOK
<1>3. fitnesses # << >> /\ DOMAIN fitnesses = 1 .. PopSize
  BY <1>2
<1>4. Sound(db) /\ \A i \in DOMAIN db.grn : db.grn[i].ga_step <= ga_step
  BY DEF IInv, DbOK
<1> DEFINE new == {[ga_step |-> ga_step, pop_index |-> i - 1, fitness |-> fitnesses[i]] : i \in DOMAIN fitnesses}
<1>5. /\ Sound(db') /\ db'.grn = db.grn
      /\ ~ ShouldSample(ga_step) => ToSet(db'.fitness) = ToSet(db.fitness)
      /\ ShouldSample(ga_step) => ToSet(db'.fitness) = ToSet(db.fitness) \cup new
  <2>1. PICK d, step, fits : d = db /\ step = ga_step /\ fits = fitnesses
    OBVIOUS
  <2>2. Sound(d) /\ step \in Int /\ fits \in Seq(Nat)
    BY <1>2, <1>4, <2>1
  <2> DEFINE e == LogFitnesses(d, step, fits)
  <2>3. /\ Sound(e) /\ e.grn = d.grn
        /\ ~ ShouldSample(step) => e.fitness = d.fitness
        /\ ShouldSample(step) =>
             ToSet(e.fitness) = ToSet(d.fitness) \cup
               {[ga_step |-> step, pop_index |-> i - 1, fitness |-> fits[i]] : i \in DOMAIN fits}
    BY ONLY <2>2, LogFitnessesIs
  <2>4. db' = e
    BY <1>1, <2>1
  <2> HIDE DEF e
  <2> QED BY <2>1, <2>3, <2>4
<1>6. \A s, i : HasGrn(db', s, i) <=> HasGrn(db, s, i)
  BY <1>5 DEF HasGrn, GrnIds
<1>7. StateOK'
  <2>1. StateOK
    BY DEF IInv
  <2> QED BY ONLY <1>1, <2>1 DEF StateOK, ObservedOK
<1>8. BestsOK'
  <2>1. BestsOK
    BY DEF IInv
  <2> QED BY ONLY <1>1, <2>1 DEF BestsOK, OfThisStep
<1>9. DbOK' /\ OneOfEach'
  <2>1. OneOfEach
    BY DEF IInv
  <2>2. OneOfEach'
    BY ONLY <1>1, <1>5, <2>1 DEF OneOfEach
  <2> QED BY <1>1, <1>4, <1>5, <2>2 DEF DbOK
<1>10. ASSUME AllThere PROVE AllThere'
  <2> SUFFICES ASSUME log_mode = "all"
               PROVE  /\ \A row \in ToSet(db'.fitness) : HasGrn(db, row.ga_step, row.pop_index)
                      /\ ToSet(db'.fitness) # {}
    BY <1>1, <1>6, <1>10 DEF AllThere
  <2>1. /\ ShouldSample(ga_step) => \A i \in 0 .. PopSize - 1 : HasGrn(db, ga_step, i)
        /\ \A row \in ToSet(db.fitness) : HasGrn(db, row.ga_step, row.pop_index)
        /\ ga_step # -1 => ToSet(db.fitness) # {}
    BY <1>10 DEF AllThere
  <2>2. ASSUME ShouldSample(ga_step), NEW row \in new PROVE HasGrn(db, row.ga_step, row.pop_index)
    <3>1. PICK i \in 1 .. PopSize : row.ga_step = ga_step /\ row.pop_index = i - 1
      BY <1>3
    <3>2. i - 1 \in 0 .. PopSize - 1
      BY <1>2
    <3> QED BY <2>1, <2>2, <3>1, <3>2
  <2>3. ShouldSample(-1)
    BY DEF ShouldSample
  <2>4. new # {}
    <3>1. 1 \in DOMAIN fitnesses
      BY <1>2, <1>3
    <3> QED BY <3>1
  <2> HIDE DEF new
  <2>5. ToSet(db'.fitness) # {}
    <3>1. CASE ga_step = -1
      BY <1>5, <2>3, <2>4, <3>1
    <3>2. CASE ga_step # -1
      BY <1>5, <2>1, <3>2
    <3> QED BY <3>1, <3>2
  <2> QED BY <1>5, <2>1, <2>2, <2>5
<1>11. ASSUME BestThere PROVE BestThere'
  <2> DEFINE row == [ga_step |-> bests.run[1], pop_index |-> bests.run[2], fitness |-> bests.run_fitness]
  <2> SUFFICES ASSUME log_mode = "best" PROVE BestThere'
    BY <1>1 DEF BestThere
  <2>1. BestsOK
    BY DEF IInv
  <2>2. bests.run # Null /\ bests.run_iter = bests.run[1] /\ bests.run \in Names
    <3>1. bests.run # Null
      BY <1>3, <2>1 DEF BestsOK
    <3> QED BY <2>1, <3>1 DEF BestsOK, BestsType
  <2>3. /\ \A r \in ToSet(db.fitness) : bests.run_fitness <= r.fitness
        /\ \A i \in DOMAIN fitnesses : bests.run_fitness <= fitnesses[i]
    BY <1>11 DEF BestThere
  <2>4. \A r \in new : bests.run_fitness <= r.fitness
    BY <2>3
  <2>5. ASSUME ShouldSample(bests.run_iter), OfThisStep PROVE row \in ToSet(db'.fitness)
    <3>1. /\ bests.run[1] = ga_step /\ bests.run[2] + 1 \in DOMAIN fitnesses
          /\ fitnesses[bests.run[2] + 1] = bests.run_fitness
      BY <2>1, <2>2, <2>5 DEF BestsOK, OfThisStep
    <3>2. (bests.run[2] + 1) - 1 = bests.run[2]
      BY <2>2, NamesAre
    <3>3. row \in new
      BY <3>1, <3>2
    <3> QED BY <1>5, <2>2, <2>5, <3>1, <3>3
  <2> HIDE DEF new, row
  <2>6. ASSUME ShouldSample(bests.run_iter)
        PROVE  HasGrn(db', bests.run[1], bests.run[2]) /\ row \in ToSet(db'.fitness)
    <3>1. HasGrn(db, bests.run[1], bests.run[2])
      BY <1>1, <1>11, <2>2, <2>6 DEF BestThere
    <3>2. OfThisStep \/ row \in ToSet(db.fitness)
      BY <1>1, <1>11, <2>2, <2>6 DEF BestThere, row
    <3> QED BY <1>5, <1>6, <2>5, <2>6, <3>1, <3>2
  <2>7. \A r \in ToSet(db'.fitness) : bests.run_fitness <= r.fitness
    BY <1>5, <2>3, <2>4
  <2> QED BY <1>1, <2>2, <2>3, <2>6, <2>7 DEF BestThere, row
<1> QED BY <1>7, <1>8, <1>9, <1>10, <1>11 DEF IInv

LEMMA RunOperatorsInv ==
    ASSUME LogGrns, IInv, RunOperators
    PROVE  /\ IInv'
           /\ AllThere => AllThere'
           /\ BestThere => BestThere'
<1>1. /\ pc = "next" /\ pc' = "evaluate" /\ ga_step' = ga_step + 1 /\ fitnesses' = << >>
      /\ log_mode' = log_mode /\ bests' = bests
      /\ run_best_updated' = run_best_updated /\ observed' = observed
  BY DEF RunOperators
<1>2. PICK couples \in Couples : db' = LogGaStep(Crossed(couples), log_mode, ga_step + 1, PopSize)
  BY DEF RunOperators
<1>3. /\ ga_step \in Int /\ -1 <= ga_step /\ Len(fitnesses) = PopSize /\ PopSize \in Nat \ {0}
  BY <1>1, LoggerAssumption DEF IInv, StateOK
<1>4. Sound(db) /\ \A i \in DOMAIN db.grn : db.grn[i].ga_step <= ga_step
  BY DEF IInv, DbOK
<1>5. PICK c : c = Crossed(couples)
  OBVIOUS
<1>6. SameNames(db, c)
  BY <1>4, <1>5, CrossedIs
<1>7. /\ Sound(c) /\ c.fitness = db.fitness /\ DOMAIN c.grn = DOMAIN db.grn
      /\ \A i \in DOMAIN db.grn : c.grn[i].ga_step = db.grn[i].ga_step
      /\ \A s, i : HasGrn(c, s, i) <=> HasGrn(db, s, i)
  BY <1>6, SameNamesHas DEF SameNames
<1>8. \A i \in DOMAIN c.grn : c.grn[i].ga_step < ga_step + 1
  <2> SUFFICES ASSUME NEW i \in DOMAIN db.grn PROVE db.grn[i].ga_step < ga_step + 1
    BY <1>7
  <2>1. db.grn[i].ga_step \in Int
    <3>1. db.grn \in Seq(GrnRows)
      BY <1>4 DEF Sound, IsDb
    <3>2. db.grn[i] \in GrnRows
      BY <3>1
    <3> QED BY <3>2 DEF GrnRows
  <2> QED BY <1>3, <1>4, <2>1
<1>9. /\ Sound(db') /\ db'.fitness = c.fitness
      /\ \A i \in DOMAIN db'.grn : db'.grn[i].ga_step <= ga_step + 1
      /\ \A s, i \in Int : HasGrn(c, s, i) => HasGrn(db', s, i)
      /\ log_mode = "all" /\ ShouldSample(ga_step + 1) => \A i \in 0 .. PopSize - 1 : HasGrn(db', ga_step + 1, i)
      /\ log_mode = "best" => db' = c
  <2>1. ga_step + 1 \in Int /\ db' = LogGaStep(c, log_mode, ga_step + 1, PopSize)
    BY <1>2, <1>3, <1>5
  <2> QED BY <1>7, <1>8, <2>1, LogGaStepIs
<1>10. StateOK'
  <2>1. /\ ObservedOK /\ run_best_updated \in Flags
        /\ ga_step + 1 \in Int /\ -1 <= ga_step + 1
    BY <1>3 DEF IInv, StateOK
  <2>2. << >> \in Seq(Nat) /\ Len(<< >>) < PopSize
    BY <1>3
  <2>3. ObservedOK'
    BY <1>1, <2>1 DEF ObservedOK
  <2> QED BY ONLY <1>1, <2>1, <2>2, <2>3 DEF StateOK
<1>11. bests.run # Null /\ bests.run \in Names /\ bests.run[1] <= ga_step /\ BestsOK
  <2>1. fitnesses # << >>
    BY <1>3
  <2> QED BY <2>1 DEF IInv, BestsOK, BestsType
<1>12. BestsOK'
  <2>1. ga_step + 1 # -1 /\ bests.run[1] <= ga_step + 1 /\ bests.run[1] < ga_step + 1
    BY <1>3, <1>11, NamesAre
  <2>2. ~ OfThisStep'
    BY <1>1 DEF OfThisStep
  <2> QED BY ONLY <1>1, <1>11, <2>1, <2>2 DEF BestsOK
<1>13. DbOK'
  BY <1>1, <1>9 DEF DbOK
<1>14. OneOfEach'
  <2>1. OneOfEach
    BY DEF IInv
  <2> QED BY ONLY <1>1, <1>7, <1>8, <1>9, <2>1 DEF OneOfEach
<1>15. ASSUME AllThere PROVE AllThere'
  <2> SUFFICES ASSUME log_mode = "all"
               PROVE  /\ ShouldSample(ga_step + 1) => \A i \in 0 .. PopSize - 1 : HasGrn(db', ga_step + 1, i)
                      /\ \A row \in ToSet(db'.fitness) : HasGrn(db', row.ga_step, row.pop_index)
                      /\ ToSet(db'.fitness) # {}
    BY <1>1 DEF AllThere
  <2>1. /\ \A row \in ToSet(db.fitness) : HasGrn(db, row.ga_step, row.pop_index)
        /\ ToSet(db.fitness) # {}
    BY <1>1, <1>15 DEF AllThere
  <2>2. \A row \in ToSet(db.fitness) : HasGrn(db', row.ga_step, row.pop_index)
    BY <1>4, <1>7, <1>9, <2>1, RowsAre
  <2> QED BY <1>7, <1>9, <2>1, <2>2
<1>16. ASSUME BestThere PROVE BestThere'
  <2> SUFFICES ASSUME log_mode = "best" PROVE BestThere'
    BY <1>1 DEF BestThere
  <2>1. db'.fitness = db.fitness /\ \A s, i : HasGrn(db', s, i) <=> HasGrn(db, s, i)
    BY <1>7, <1>9
  <2>2. DOMAIN fitnesses' = {} /\ pc = "next"
    BY <1>1
  <2> QED BY ONLY <1>1, <1>11, <1>16, <2>1, <2>2, log_mode = "best" DEF BestThere
<1> QED BY <1>10, <1>12, <1>13, <1>14, <1>15, <1>16 DEF IInv

LEMMA WriteDbInv ==
    ASSUME IInv, WriteDb \/ UNCHANGED vars
    PROVE  /\ IInv'
           /\ AllThere => AllThere'
           /\ BestThere => BestThere'
<1>1. /\ log_mode' = log_mode /\ ga_step' = ga_step /\ fitnesses' = fitnesses /\ bests' = bests
      /\ run_best_updated' = run_best_updated /\ observed' = observed /\ db' = db
      /\ pc' = pc \/ (pc = "next" /\ pc' = "done")
  BY DEF WriteDb, vars
<1>2. StateOK'
  <2>1. StateOK
    BY DEF IInv
  <2> QED BY ONLY <1>1, <2>1 DEF StateOK, ObservedOK
<1>3. BestsOK'
  <2>1. BestsOK
    BY DEF IInv
  <2> QED BY ONLY <1>1, <2>1 DEF BestsOK, OfThisStep
<1>4. DbOK' /\ OneOfEach'
  BY <1>1 DEF IInv, DbOK, OneOfEach
<1>5. AllThere => AllThere'
  BY ONLY <1>1 DEF AllThere
<1>6. BestThere => BestThere'
  BY ONLY <1>1 DEF BestThere, OfThisStep
<1> QED BY <1>2, <1>3, <1>4, <1>5, <1>6 DEF IInv

LEMMA EvaluateOneInv ==
    ASSUME IInv, EvaluateOne
    PROVE  /\ IInv'
           /\ AllThere => AllThere'
           /\ LogGrns /\ LogRegSteps /\ BestThere => BestThere'
<1>1. PICK f \in Nat : Simulated(<<ga_step, Len(fitnesses)>>, f)
  BY EvaluateOneSimulates
<1>2. StateOK' /\ BestsOK' /\ DbOK' /\ OneOfEach'
  BY <1>1, EvaluateOneState, EvaluateOneBests, EvaluateOneDb
<1>3. ASSUME AllThere PROVE AllThere'
  BY <1>1, <1>3, EvaluateOneAll
<1>4. ASSUME LogGrns, LogRegSteps, BestThere PROVE BestThere'
  BY <1>1, <1>4, EvaluateOneBest
<1> QED BY <1>2, <1>3, <1>4 DEF IInv

LEMMA NextInv == ASSUME LogGrns, IInv, [Next]_vars PROVE IInv'
BY EvaluateOneInv, LogStepInv, RunOperatorsInv, WriteDbInv DEF Next

LEMMA NextShown == ASSUME LogGrns, LogRegSteps, ShownInv, [Next]_vars PROVE ShownInv'
<1> USE DEF ShownInv
<1>1. CASE EvaluateOne
  BY <1>1, EvaluateOneInv
<1>2. CASE LogStep
  BY <1>2, LogStepInv
<1>3. CASE RunOperators
  BY <1>3, RunOperatorsInv
<1>4. CASE WriteDb \/ UNCHANGED vars
  BY <1>4, WriteDbInv
<1> QED BY <1>1, <1>2, <1>3, <1>4 DEF Next

(***************************************************************************)
(* The rows of regulatory steps.  Observations keep the names of the past, *)
(* so that what is logged of an evaluation was not there before; with      *)
(* log_mode "best" there is no network of this step yet.                   *)
(***************************************************************************)
PastNames ==
    \A name \in DOMAIN observed :
        /\ name \in Names
        /\ name[1] < ga_step \/ (name[1] = ga_step /\ name[2] < Len(fitnesses))
RowsOK == Closed(db, observed) /\ PastNames

LEMMA EvaluateOneObserves ==
    ASSUME IInv, RowsOK, EvaluateOne, NEW name, NEW f \in Nat, Simulated(name, f)
    PROVE  name \notin DOMAIN observed /\ More(observed, observed') /\ PastNames'
<1>1. /\ name = <<ga_step, Len(fitnesses)>> /\ name \in Names
      /\ DOMAIN observed' = DOMAIN observed \cup {name}
      /\ \A n \in DOMAIN observed \ {name} : observed'[n] = observed[n]
  BY DEF Simulated
<1>2. /\ ga_step' = ga_step /\ ga_step \in Int
      /\ Len(fitnesses) \in Nat /\ Len(fitnesses') = Len(fitnesses) + 1
  BY EvaluateOneState
<1>3. name[1] = ga_step /\ name[2] = Len(fitnesses)
  BY <1>1
<1>4. ASSUME NEW n \in DOMAIN observed
      PROVE  /\ n \in Names /\ n[1] \in Int /\ n[2] \in Int
             /\ n[1] < ga_step \/ (n[1] = ga_step /\ n[2] < Len(fitnesses))
  BY NamesAre DEF RowsOK, PastNames
<1>5. name \notin DOMAIN observed
  <2> SUFFICES ASSUME name \in DOMAIN observed PROVE FALSE
    OBVIOUS
  <2>1. ga_step < ga_step \/ Len(fitnesses) < Len(fitnesses)
    BY <1>3, <1>4
  <2> QED BY <1>2, <2>1
<1>6. More(observed, observed')
  BY <1>1, <1>5 DEF More
<1>7. ASSUME NEW n \in DOMAIN observed'
      PROVE  /\ n \in Names
             /\ n[1] < ga_step' \/ (n[1] = ga_step' /\ n[2] < Len(fitnesses'))
  <2>1. CASE n = name
    BY <1>1, <1>2, <1>3, <2>1
  <2>2. CASE n # name
    <3>1. n \in DOMAIN observed
      BY <1>1, <2>2
    <3> QED BY <1>2, <1>4, <3>1
  <2> QED BY <2>1, <2>2
<1>8. PastNames'
  BY <1>7 DEF PastNames
<1> QED BY <1>5, <1>6, <1>8

LEMMA EvaluateOneRows ==
    ASSUME IInv, RowsOK, EvaluateOne, NEW name, NEW f \in Nat, Simulated(name, f)
    PROVE  RowsOK'
<1>1. name \notin DOMAIN observed /\ More(observed, observed') /\ PastNames'
  BY EvaluateOneObserves
<1>2. Closed(db, observed) /\ Faithful(db, observed) /\ Sound(db)
  BY DEF RowsOK, Closed, IInv, DbOK
<1>3. PICK O : O = observed'
  OBVIOUS
<1>4. Closed(db, O)
  BY <1>1, <1>2, <1>3, MoreObserved
<1>5. ASSUME NEW n \in DOMAIN O PROVE \A s \in -1 .. RegSteps - 1 : Observation(O[n][s])
  BY <1>3, <1>5 DEF Simulated, ObservedOK
<1>6. db' = CASE log_mode = "all" -> LogRegSnapshot(db, name, O[name])
              [] log_mode = "best" /\ IsLast /\ run_best_updated' ->
                   LogRegSnapshot(db, bests'.run, O[bests'.run])
              [] OTHER -> db
  BY <1>3 DEF EvaluateOne, Logged, Simulated
<1>7. ASSUME NEW n \in Names, n \in DOMAIN O, \A s : Blank(db, n, s), db' = LogRegSnapshot(db, n, O[n])
      PROVE  Closed(db', O)
  <2>1. PICK logged : StepByStep(logged, db, n, O[n]) /\ db' = logged[RegSteps + 1]
    BY <1>7, SnapshotIs
  <2>2. Closed(logged[RegSteps + 1], O)
    BY <1>2, <1>4, <1>5, <1>7, <2>1, LogRegSnapshotRows
  <2> QED BY <2>1, <2>2
<1>8. CASE log_mode = "all"
  <2>1. name \in Names /\ name \in DOMAIN O
    BY <1>3 DEF Simulated
  <2>2. \A s : Blank(db, name, s)
    BY <1>1, <1>2, NotObserved
  <2>3. Closed(db', O)
    BY <1>6, <1>7, <1>8, <2>1, <2>2
  <2> QED BY <1>1, <1>3, <2>3 DEF RowsOK
<1>9. CASE LogsRun
  <2> DEFINE run == bests'.run
  <2>1. BestsOK' /\ run \in Names /\ run # Null /\ run_best_updated' /\ log_mode = "best"
    BY <1>9, EvaluateOneBests DEF LogsRun
  <2>2. /\ ga_step' = ga_step /\ ga_step \in Int /\ fitnesses' # << >> /\ pc = "evaluate"
    BY EvaluateOneState
  <2>3. run \in DOMAIN O /\ run[1] = ga_step
    BY <1>3, <2>1, <2>2 DEF BestsOK, OfThisStep
  <2>4. \A i \in DOMAIN db.grn : db.grn[i].ga_step < ga_step
    BY <2>1, <2>2 DEF IInv, OneOfEach
  <2>5. \A i \in DOMAIN db.grn : db.grn[i].ga_step # ga_step
    BY <2>2, <2>4
  <2> HIDE DEF run
  <2>6. ~ HasGrn(db, run[1], run[2])
    BY <2>3, <2>5 DEF HasGrn, GrnIds
  <2>7. \A s : Blank(db, run, s)
    BY <1>2, <2>6, NoNetwork
  <2>8. db' = LogRegSnapshot(db, run, O[run])
    BY <1>6, <1>9, <2>1 DEF LogsRun, run
  <2>9. Closed(db', O)
    BY <1>7, <2>1, <2>3, <2>7, <2>8
  <2> QED BY <1>1, <1>3, <2>9 DEF RowsOK
<1>10. CASE log_mode # "all" /\ ~ LogsRun
  <2>1. db' = db
    BY <1>6, <1>10 DEF LogsRun
  <2> QED BY <1>1, <1>3, <1>4, <2>1 DEF RowsOK
<1> QED BY <1>8, <1>9, <1>10

LEMMA InitRows == ASSUME LogGrns, Init PROVE RowsOK
<1>1. Faithful(EmptyDb, observed)
  <2>1. /\ EmptyDb.grn = << >> /\ EmptyDb.gene = << >> /\ EmptyDb.protein = << >>
        /\ EmptyDb.protein_state = << >> /\ EmptyDb.gene_state = << >> /\ EmptyDb.ptype_state = << >>
        /\ EmptyDb.tree = << >> /\ EmptyDb.node = << >>
    BY DEF EmptyDb
  <2>2. IsTable(<< >>)
    <3>1. << >> \in Seq({})
      OBVIOUS
    <3> QED BY <3>1 DEF IsTable
  <2>3. KeysUnique(EmptyDb) /\ AreTables(EmptyDb)
    BY <2>1, <2>2 DEF KeysUnique, NamesUnique, GenesUnique, ProteinsUnique, AreTables
  <2>4. /\ StatesTrue(EmptyDb, observed) /\ GeneStatesTrue(EmptyDb, observed)
        /\ PhenotypesTrue(EmptyDb, observed) /\ StatesOnce(EmptyDb) /\ GeneStatesOnce(EmptyDb)
    BY <2>1 DEF StatesTrue, GeneStatesTrue, PhenotypesTrue, StatesOnce, GeneStatesOnce
  <2>5. TreesTrue(EmptyDb, observed)
    BY <2>1, <2>2 DEF TreesTrue
  <2> QED BY <2>3, <2>4, <2>5 DEF Faithful
<1>2. observed = << >> /\ DOMAIN observed = {}
  BY DEF Init
<1>3. Closed(EmptyDb, observed) /\ PastNames
  BY <1>1, <1>2 DEF Closed, PastNames
<1>4. OnlyKeys(EmptyDb, db)
  <2>1. Sound(EmptyDb) /\ \A i \in DOMAIN EmptyDb.grn : EmptyDb.grn[i].ga_step < -1
    <3>1. Sound(EmptyDb) /\ EmptyDb.grn = << >>
      BY EmptyIsSound
    <3> QED BY <3>1
  <2>2. -1 \in Int /\ db = LogGaStep(EmptyDb, log_mode, -1, PopSize)
    BY DEF Init
  <2> QED BY <2>1, <2>2, LogGaStepIs
<1>5. Closed(db, observed)
  BY <1>1, <1>3, <1>4, OnlyKeysGrow
<1> QED BY <1>3, <1>5 DEF RowsOK

LEMMA OthersRows ==
    ASSUME LogGrns, IInv, RowsOK, LogStep \/ RunOperators \/ WriteDb \/ UNCHANGED vars
    PROVE  RowsOK'
<1>1. /\ observed' = observed
      /\ \/ ga_step' = ga_step /\ fitnesses' = fitnesses
         \/ ga_step' = ga_step + 1 /\ fitnesses' = << >>
  BY DEF LogStep, RunOperators, WriteDb, vars
<1>2. /\ ga_step \in Int /\ fitnesses \in Seq(Nat) /\ Sound(db)
      /\ \A i \in DOMAIN db.grn : db.grn[i].ga_step <= ga_step
  BY DEF IInv, StateOK, DbOK
<1>3. PastNames'
  <2> SUFFICES ASSUME NEW name \in DOMAIN observed
               PROVE  /\ name \in Names
                      /\ name[1] < ga_step' \/ (name[1] = ga_step' /\ name[2] < Len(fitnesses'))
    BY <1>1 DEF PastNames
  <2>1. /\ name \in Names /\ name[1] \in Int
        /\ name[1] < ga_step \/ (name[1] = ga_step /\ name[2] < Len(fitnesses))
    BY NamesAre DEF RowsOK, PastNames
  <2>2. CASE ga_step' = ga_step /\ fitnesses' = fitnesses
    BY <2>1, <2>2
  <2>3. CASE ga_step' = ga_step + 1
    BY <1>2, <2>1, <2>3
  <2> QED BY <1>1, <2>2, <2>3
<1>4. OnlyKeys(db, db')
  <2>1. CASE LogStep
    <3>1. PICK d, step, fits : d = db /\ step = ga_step /\ fits = fitnesses
      OBVIOUS
    <3>2. Sound(d) /\ step \in Int /\ fits \in Seq(Nat)
      BY <1>2, <3>1
    <3>3. OnlyKeys(d, LogFitnesses(d, step, fits))
      BY ONLY <3>2, LogFitnessesIs
    <3> QED BY <2>1, <3>1, <3>3 DEF LogStep
  <2>2. CASE RunOperators
    <3>1. PICK couples \in Couples : db' = LogGaStep(Crossed(couples), log_mode, ga_step + 1, PopSize)
      BY <2>2 DEF RunOperators
    <3>2. PICK c : c = Crossed(couples)
      OBVIOUS
    <3>3. SameNames(db, c)
      BY <1>2, <3>2, CrossedIs
    <3>4. Sound(c) /\ OnlyKeys(db, c)
      BY <3>3 DEF SameNames
    <3>5. \A i \in DOMAIN c.grn : c.grn[i].ga_step < ga_step + 1
      <4> SUFFICES ASSUME NEW i \in DOMAIN db.grn PROVE db.grn[i].ga_step < ga_step + 1
        BY <3>3 DEF SameNames
      <4>1. db.grn[i].ga_step \in Int
        <5>1. db.grn \in Seq(GrnRows)
          BY <1>2 DEF Sound, IsDb
        <5>2. db.grn[i] \in GrnRows
          BY <5>1
        <5> QED BY <5>2 DEF GrnRows
      <4> QED BY <1>2, <4>1
    <3>6. OnlyKeys(c, db')
      <4>1. ga_step + 1 \in Int /\ db' = LogGaStep(c, log_mode, ga_step + 1, PopSize)
        BY <1>2, <3>1, <3>2
      <4> QED BY <3>4, <3>5, <4>1, LogGaStepIs
    <3> QED BY <3>4, <3>6, OnlyKeysTwice
  <2>3. CASE WriteDb \/ UNCHANGED vars
    <3>1. db' = db
      BY <2>3 DEF WriteDb, vars
    <3> QED BY <3>1 DEF OnlyKeys, KeysGrow, Kept, SameTrees
  <2> QED BY <2>1, <2>2, <2>3
<1>5. Closed(db, observed) /\ Faithful(db, observed)
  BY DEF RowsOK, Closed
<1>6. Closed(db', observed)
  BY <1>4, <1>5, OnlyKeysGrow
<1> QED BY <1>1, <1>3, <1>6 DEF RowsOK

LEMMA SpecRows == ASSUME LogGrns PROVE Spec => [](IInv /\ RowsOK)
<1>1. Init => IInv /\ RowsOK
  BY InitInv, InitRows DEF ShownInv
<1>2. ASSUME IInv, RowsOK, [Next]_vars PROVE (IInv /\ RowsOK)'
  <2>1. IInv'
    BY <1>2, NextInv
  <2>2. CASE EvaluateOne
    <3>1. PICK f \in Nat : Simulated(<<ga_step, Len(fitnesses)>>, f)
      BY <1>2, <2>2, EvaluateOneSimulates
    <3>2. RowsOK'
      BY <1>2, <2>2, <3>1, EvaluateOneRows
    <3> QED BY <2>1, <3>2
  <2>3. CASE LogStep \/ RunOperators \/ WriteDb \/ UNCHANGED vars
    <3>1. RowsOK'
      BY <1>2, <2>3, OthersRows
    <3> QED BY <2>1, <3>1
  <2> QED BY <1>2, <2>2, <2>3 DEF Next
<1> QED BY <1>1, <1>2, PTL DEF Spec

(* What is selected of them is what was observed.                          *)
LEMMA AsMany ==
    ASSUME NEW S, IsFiniteSet(S), NEW T, NEW h \in [T -> S],
           \A x, y \in T : h[x] = h[y] => x = y, \A z \in S : \E x \in T : h[x] = z
    PROVE  Cardinality(T) = Cardinality(S)
<1> DEFINE g == [z \in S |-> CHOOSE x \in T : h[x] = z]
<1>1. \A z \in S : g[z] \in T /\ h[g[z]] = z
  OBVIOUS
<1>2. g \in [S -> T]
  BY <1>1
<1>3. \A x \in T : g[h[x]] = x
  BY <1>1
<1> HIDE DEF g
<1>4. g \in Injection(S, T)
  BY <1>1, <1>2 DEF Injection, IsInjective
<1>5. g \in Surjection(S, T)
  BY <1>2, <1>3 DEF Surjection
<1>6. ExistsBijection(S, T)
  BY <1>4, <1>5 DEF ExistsBijection, Bijection
<1> QED BY <1>6, FS_Bijection

(* An individual of the database that the viewer can ask about.            *)
Shows(d, O, name) == name \in Names /\ name \in DOMAIN O /\ Sound(d) /\ Faithful(d, O)

LEMMA SelectedGrns ==
    ASSUME NEW d, NEW name \in Names, NEW i
    PROVE  i \in GrnIds(d, name[1], name[2]) <=> i \in DOMAIN d.grn /\ NameOf(d, i) = name
<1>1. name = <<name[1], name[2]>>
  BY DEF Names
<1> QED BY <1>1 DEF GrnIds, NameOf

LEMMA SelectedStates ==
    ASSUME NEW d, NEW O, NEW name, Shows(d, O, name), NEW s
    PROVE  /\ StatesOf(d, name, s) = {k \in DOMAIN d.protein_state : StateOf(d, k, name, s)}
           /\ \A k \in StatesOf(d, name, s) :
                /\ d.protein[d.protein_state[k].protein_id].pid \in DOMAIN O[name][s].concs
                /\ d.protein_state[k].conc =
                      O[name][s].concs[d.protein[d.protein_state[k].protein_id].pid]
           /\ \A k, l \in StatesOf(d, name, s) :
                d.protein[d.protein_state[k].protein_id].pid = d.protein[d.protein_state[l].protein_id].pid
                => k = l
<1>1. StatesOf(d, name, s) = {k \in DOMAIN d.protein_state : StateOf(d, k, name, s)}
  <2>1. ASSUME NEW k \in DOMAIN d.protein_state
        PROVE  d.protein_state[k].grn_id \in GrnIds(d, name[1], name[2])
                 <=> NameOf(d, d.protein_state[k].grn_id) = name
    <3>1. d.protein_state[k].grn_id \in DOMAIN d.grn
      BY DEF Shows, Faithful, StatesTrue, StateRow
    <3> QED BY <3>1, SelectedGrns DEF Shows
  <2> QED BY <2>1 DEF StatesOf, StateOf
<1>2. ASSUME NEW k \in StatesOf(d, name, s)
      PROVE  /\ k \in DOMAIN d.protein_state /\ StateRow(d, O, d.protein_state[k])
             /\ NameOf(d, d.protein_state[k].grn_id) = name /\ d.protein_state[k].reg_step = s
  BY <1>1 DEF Shows, Faithful, StatesTrue, StateOf
<1>3. \A k \in StatesOf(d, name, s) :
        /\ d.protein[d.protein_state[k].protein_id].pid \in DOMAIN O[name][s].concs
        /\ d.protein_state[k].conc = O[name][s].concs[d.protein[d.protein_state[k].protein_id].pid]
  BY <1>2 DEF StateRow
<1>4. ASSUME NEW k \in StatesOf(d, name, s), NEW l \in StatesOf(d, name, s),
             d.protein[d.protein_state[k].protein_id].pid = d.protein[d.protein_state[l].protein_id].pid
      PROVE  k = l
  <2>1. NamesUnique(d) /\ ProteinsUnique(d) /\ StatesOnce(d)
    BY DEF Shows, Faithful, KeysUnique
  <2>2. d.protein_state[k].grn_id = d.protein_state[l].grn_id
    <3>1. /\ d.protein_state[k].grn_id \in DOMAIN d.grn /\ d.protein_state[l].grn_id \in DOMAIN d.grn
          /\ NameOf(d, d.protein_state[k].grn_id) = NameOf(d, d.protein_state[l].grn_id)
      BY <1>2 DEF StateRow
    <3> QED BY <2>1, <3>1 DEF NamesUnique
  <2>3. d.protein_state[k].protein_id = d.protein_state[l].protein_id
    <3>1. PICK i, j : i = d.protein_state[k].protein_id /\ j = d.protein_state[l].protein_id
      OBVIOUS
    <3>2. /\ i \in DOMAIN d.protein /\ d.protein[i].grn_id = d.protein_state[k].grn_id
          /\ j \in DOMAIN d.protein /\ d.protein[j].grn_id = d.protein_state[l].grn_id
      BY <1>2, <3>1 DEF StateRow
    <3>3. d.protein[i].grn_id = d.protein[j].grn_id /\ d.protein[i].pid = d.protein[j].pid
      BY <1>4, <2>2, <3>1, <3>2
    <3> QED BY <2>1, <3>1, <3>2, <3>3 DEF ProteinsUnique
  <2> QED BY <1>2, <2>1, <2>2, <2>3 DEF StatesOnce, SameState
<1> QED BY <1>1, <1>3, <1>4

LEMMA CurvesAre ==
    ASSUME Sound(db), Faithful(db, observed), NEW name \in Names, name \in DOMAIN observed, NEW s,
           Observation(observed[name][s]), Whole(db, observed, name, s)
    PROVE  CurvesShown(name, s)
<1> DEFINE concs == observed[name][s].concs
           ids == StatesOf(db, name, s)
           pid(k) == db.protein[db.protein_state[k].protein_id].pid
           curves == Curves(db, name, s)
<1>1. Shows(db, observed, name)
  BY DEF Shows
<1>2. /\ ids = {k \in DOMAIN db.protein_state : StateOf(db, k, name, s)}
      /\ \A k \in ids : pid(k) \in DOMAIN concs /\ db.protein_state[k].conc = concs[pid(k)]
      /\ \A k, l \in ids : pid(k) = pid(l) => k = l
  BY <1>1, SelectedStates
<1>3. \A p \in DOMAIN concs : \E k \in ids : pid(k) = p
  BY <1>2 DEF Whole, StatesWhole
<1>4. /\ DOMAIN curves = ids
      /\ \A k \in ids : curves[k] = [pid |-> pid(k), conc |-> db.protein_state[k].conc]
  BY DEF Curves
<1>5. IsFiniteSet(DOMAIN concs)
  BY DEF Observation
<1> HIDE DEF curves, ids, pid, concs
<1>6. {curves[i] : i \in DOMAIN curves} = {[pid |-> p, conc |-> concs[p]] : p \in DOMAIN concs}
  <2>1. ASSUME NEW k \in ids PROVE curves[k] \in {[pid |-> p, conc |-> concs[p]] : p \in DOMAIN concs}
    <3>1. pid(k) \in DOMAIN concs /\ curves[k] = [pid |-> pid(k), conc |-> concs[pid(k)]]
      BY <1>2, <1>4
    <3> QED BY <3>1
  <2>2. ASSUME NEW p \in DOMAIN concs PROVE [pid |-> p, conc |-> concs[p]] \in {curves[i] : i \in ids}
    <3>1. PICK k \in ids : pid(k) = p
      BY <1>3
    <3>2. curves[k] = [pid |-> p, conc |-> concs[p]]
      BY <1>2, <1>4, <3>1
    <3> QED BY <3>2
  <2> QED BY <1>4, <2>1, <2>2
<1>7. Cardinality(DOMAIN curves) = Cardinality(DOMAIN concs)
  <2> DEFINE h == [k \in ids |-> pid(k)]
  <2>1. h \in [ids -> DOMAIN concs]
    BY <1>2
  <2>2. \A k, l \in ids : h[k] = h[l] => k = l
    BY <1>2
  <2>3. \A p \in DOMAIN concs : \E k \in ids : h[k] = p
    BY <1>3
  <2> HIDE DEF h
  <2>4. Cardinality(ids) = Cardinality(DOMAIN concs)
    BY <1>5, <2>1, <2>2, <2>3, AsMany
  <2> QED BY <1>4, <2>4
<1> QED BY <1>6, <1>7 DEF CurvesShown, curves, concs

(* A column that refers to a protein shows it.                             *)
LEMMA ShownProteinIs ==
    ASSUME NEW d, Sound(d), NEW row, NEW pid, Refers(d, row, pid)
    PROVE  ShownProtein(d, {row}) = pid
<1>1. CASE pid = NoProtein
  <2>1. {row} \ {NoRow} = {}
    BY <1>1 DEF Refers
  <2> QED BY <1>1, <2>1 DEF ShownProtein
<1>2. CASE pid # NoProtein
  <2>1. row \in DOMAIN d.protein /\ d.protein[row].pid = pid
    BY <1>2 DEF Refers
  <2>2. d.protein \in Seq(ProteinRows)
    BY DEF Sound, IsDb
  <2>3. row \in Nat /\ row # NoRow
    BY <2>1, <2>2 DEF NoRow
  <2>4. First({row}) = row
    <3>1. {row} \in SUBSET Nat /\ {row} # {}
      BY <2>3
    <3> QED BY <3>1, FirstIs
  <2>5. {row} \ {NoRow} = {row} /\ {row} # {}
    BY <2>3
  <2> QED BY <2>1, <2>4, <2>5 DEF ShownProtein
<1> QED BY <1>1, <1>2

LEMMA GenesAre ==
    ASSUME Sound(db), Faithful(db, observed), NEW name \in Names, name \in DOMAIN observed, NEW s,
           Whole(db, observed, name, s), NEW g \in Positions
    PROVE  GeneShown(name, s, g)
<1> DEFINE obs == observed[name][s]
           states == GeneStates(db, name, s, g)
<1>1. PICK k \in DOMAIN db.gene_state : GeneStateOf(db, k, name, s) /\ GeneOf(db, k).pos = g
  BY DEF Whole, GeneStatesWhole
<1>2. /\ GeneStatesTrue(db, observed) /\ GeneStatesOnce(db) /\ GenesUnique(db) /\ NamesUnique(db)
  BY DEF Faithful, KeysUnique
<1>3. \A l \in DOMAIN db.gene_state :
        /\ db.gene_state[l].gene_id \in DOMAIN db.gene
        /\ GeneOf(db, l).grn_id \in DOMAIN db.grn
  BY <1>2 DEF GeneStatesTrue, GeneStateRow, GenesUnique, GeneOf
<1>4. states = {l \in DOMAIN db.gene_state : GeneStateOf(db, l, name, s) /\ GeneOf(db, l).pos = g}
  BY <1>3, SelectedGrns DEF GeneStates, GeneStateOf, GeneOf
<1>5. ASSUME NEW l \in states PROVE l = k
  <2>1. /\ l \in DOMAIN db.gene_state /\ GeneStateOf(db, l, name, s) /\ GeneOf(db, l).pos = g
    BY <1>4
  <2>2. GeneOf(db, l).grn_id = GeneOf(db, k).grn_id
    BY <1>1, <1>2, <1>3, <2>1 DEF GeneStateOf, NamesUnique
  <2>3. db.gene_state[l].gene_id = db.gene_state[k].gene_id
    BY <1>1, <1>2, <1>3, <2>1, <2>2 DEF GeneOf, GenesUnique
  <2> QED BY <1>1, <1>2, <2>1, <2>3 DEF GeneStateOf, GeneStatesOnce, SameGeneState
<1>6. states = {k}
  BY <1>1, <1>4, <1>5
<1>7. Cardinality(states) = 1
  BY <1>6, FS_Singleton
<1>8. /\ Refers(db, db.gene_state[k].bound_protein, obs.bound[g])
      /\ Refers(db, db.gene_state[k].active_output, obs.active[g])
  BY <1>1, <1>2 DEF GeneStatesTrue, GeneStateRow, GeneStateOf, GeneOf
<1> HIDE DEF states, obs
<1>9. /\ {db.gene_state[i].bound_protein : i \in states} = {db.gene_state[k].bound_protein}
      /\ {db.gene_state[i].active_output : i \in states} = {db.gene_state[k].active_output}
  BY <1>6
<1>10. /\ obs.bound[g] = ShownProtein(db, {db.gene_state[i].bound_protein : i \in states})
       /\ obs.active[g] = ShownProtein(db, {db.gene_state[i].active_output : i \in states})
  BY <1>8, <1>9, ShownProteinIs
<1> QED BY <1>7, <1>10 DEF GeneShown, states, obs

LEMMA TreesAre ==
    ASSUME Faithful(db, observed), NEW name \in Names, NEW s, Observation(observed[name][s]),
           Whole(db, observed, name, s)
    PROVE  TreeShown(name, s)
<1> DEFINE t == observed[name][s].tree
           state(j) == db.ptype_state[db.tree[j].ptype_state_id]
           trees == {j \in DOMAIN db.tree : /\ state(j).grn_id \in GrnIds(db, name[1], name[2])
                                            /\ state(j).reg_step = s}
           roots == {k \in DOMAIN db.node : db.node[k].tree_id \in trees /\ db.node[k].parent_id = NoRow}
<1>1. /\ IsProgram(t) /\ TreesTrue(db, observed) /\ PhenotypesTrue(db, observed)
      /\ Phenotyped(db, name, s)
  BY DEF Observation, Faithful, Whole
<1>2. ASSUME NEW j \in DOMAIN db.tree
      PROVE  /\ j \in trees <=> NameOf(db, state(j).grn_id) = name /\ state(j).reg_step = s
             /\ TreeTrue(db, observed, j)
  <2>1. TreeTrue(db, observed, j)
    BY <1>1 DEF TreesTrue
  <2>2. state(j).grn_id \in DOMAIN db.grn
    BY <1>1, <2>1 DEF TreeTrue, PhenotypesTrue, PhenotypeRow
  <2> QED BY <2>1, <2>2, SelectedGrns
<1>3. ASSUME NEW j \in trees PROVE Encodes(db.node, j, t) /\ HasRoot(t)
  <2>1. TreeOf(db, observed, db.tree[j].ptype_state_id) = t
    BY <1>2 DEF TreeOf
  <2> QED BY <1>2, <2>1 DEF TreeTrue
<1>4. ShownTrees(db, name, s) = {ShownNode(db)[k] : k \in roots}
  BY DEF ShownTrees
<1>5. IsTable(db.node) /\ AllEncoded(db.node)
  <2> SUFFICES ASSUME NEW k \in DOMAIN db.node
               PROVE  \E u : IsProgram(u) /\ Encodes(db.node, db.node[k].tree_id, u)
    BY <1>1 DEF TreesTrue, AllEncoded
  <2>1. TreeTrue(db, observed, db.node[k].tree_id)
    BY <1>1 DEF TreesTrue
  <2> QED BY <2>1 DEF TreeTrue
<1> HIDE DEF t
<1>6. ASSUME NEW j \in trees
      PROVE  /\ \E k \in RowsOf(db.node, j) : db.node[k].parent_id = NoRow
             /\ \A k \in RowsOf(db.node, j) :
                  db.node[k].parent_id = NoRow => ShownNode(db)[k] = NodeViews(t)[0]
  BY <1>1, <1>3, <1>5, ShownIsProgram
<1>7. ASSUME NEW k \in roots PROVE ShownNode(db)[k] = NodeViews(t)[0]
  BY <1>6 DEF RowsOf
<1>8. ASSUME HasRoot(t) PROVE \E k : k \in roots
  <2>1. PICK p \in DOMAIN db.ptype_state :
          NameOf(db, db.ptype_state[p].grn_id) = name /\ db.ptype_state[p].reg_step = s
    BY <1>1 DEF Phenotyped
  <2>2. TreeOf(db, observed, p) = t
    BY <2>1 DEF TreeOf, t
  <2>3. PICK j \in DOMAIN db.tree : db.tree[j].ptype_state_id = p
    BY <1>1, <1>8, <2>2 DEF TreesTrue, HasTree
  <2>4. j \in trees
    BY <1>2, <2>1, <2>3
  <2>5. PICK k \in RowsOf(db.node, j) : db.node[k].parent_id = NoRow
    BY <1>6, <2>4
  <2>6. k \in roots
    BY <2>4, <2>5 DEF RowsOf
  <2> QED BY <2>6
<1>9. ASSUME ~ HasRoot(t) PROVE roots = {}
  BY <1>3, <1>9
<1> HIDE DEF roots
<1>10. ShownTrees(db, name, s) = IF HasRoot(t) THEN {NodeViews(t)[0]} ELSE {}
  BY <1>4, <1>7, <1>8, <1>9
<1> QED BY <1>10 DEF TreeShown, t

(***************************************************************************)
(* Theorems.  Without log_grns there are no tables of networks, and        *)
(* nothing to find in them.                                                *)
(***************************************************************************)
LEMMA SpecInv == ASSUME LogGrns PROVE Spec => []IInv
<1>1. Init => IInv
  BY InitInv DEF ShownInv
<1>2. IInv /\ [Next]_vars => IInv'
  BY NextInv
<1> QED BY <1>1, <1>2, PTL DEF Spec

(* No function of the Logger ever misses a row that it looks for or finds  *)
(* one that it inserts (logger.cpp:552, 616, 633, 757, 780, 798), for any  *)
(* simulations, crossovers and intervals and each log_mode.                *)
THEOREM NothingIsMissing == ASSUME LogGrns PROVE Spec => []NeverFails
<1>1. IInv => NeverFails
  BY DEF IInv, DbOK, Sound, NeverFails
<1> QED BY <1>1, SpecInv, PTL

(* With log_mode "best" there never are two networks of one step, though   *)
(* the run's best may change several times in it (reg_sim.cpp:71-73).      *)
THEOREM OneNetworkPerStep == ASSUME LogGrns PROVE Spec => []OneGrnPerStep
<1>1. IInv => OneGrnPerStep
  BY DEF IInv, OneOfEach, OneGrnPerStep
<1> QED BY <1>1, SpecInv, PTL

(* What has been logged of an individual: all of its steps.                *)
LEMMA ShownSteps ==
    ASSUME IInv, RowsOK, NEW name \in DOMAIN observed, HasSteps(name), NEW s \in -1 .. RegSteps - 1
    PROVE  /\ Faithful(db, observed) /\ Sound(db) /\ name \in Names
           /\ Observation(observed[name][s]) /\ Whole(db, observed, name, s)
<1>1. /\ Closed(db, observed) /\ Faithful(db, observed) /\ Sound(db) /\ name \in Names
      /\ Observation(observed[name][s])
  BY DEF RowsOK, PastNames, Closed, IInv, DbOK, StateOK, ObservedOK
<1>2. Stated(db, name)
  BY <1>1, SelectedGrns DEF HasSteps, Stated
<1> QED BY <1>1, <1>2 DEF Closed

(* What the viewer shows of a regulatory step is what was observed at that *)
(* step: one curve for every protein, with its concentrations, and the     *)
(* right protein on every gene, though no index keeps a protein's rows     *)
(* unique and ids are given again in every simulation (logger.cpp:598-804, *)
(* graph_gen.py:192-300).                                                  *)
THEOREM StatesAreShown == ASSUME LogGrns PROVE Spec => []StatesShown
<1>1. ASSUME IInv, RowsOK PROVE StatesShown
  <2> SUFFICES ASSUME NEW name \in DOMAIN observed, HasSteps(name), NEW s \in -1 .. RegSteps - 1
               PROVE  CurvesShown(name, s) /\ \A g \in Positions : GeneShown(name, s, g)
    BY DEF StatesShown
  <2> QED BY <1>1, ShownSteps, CurvesAre, GenesAre
<1> QED BY <1>1, SpecRows, PTL

(* ... and one tree, the whole program of that step with its children in   *)
(* their order, or none if the program was empty: the rows that the calls  *)
(* of insert_node give, each with the id of its parent's, are put together *)
(* again (logger.cpp:806-932, tree_gen.py:11-53).                          *)
THEOREM TreesAreShown == ASSUME LogGrns PROVE Spec => []TreesShown
<1>1. ASSUME IInv, RowsOK PROVE TreesShown
  <2> SUFFICES ASSUME NEW name \in DOMAIN observed, HasSteps(name), NEW s \in -1 .. RegSteps - 1
               PROVE  TreeShown(name, s)
    BY DEF TreesShown
  <2> QED BY <1>1, ShownSteps, TreesAre
<1> QED BY <1>1, SpecRows, PTL

(* The two of them, as the runs check them.                                *)
THEOREM WhatIsShownWasObserved == ASSUME LogGrns PROVE Spec => []ShownIsObserved
<1>1. StatesShown /\ TreesShown => ShownIsObserved
  BY DEF ShownIsObserved
<1> QED BY <1>1, StatesAreShown, TreesAreShown, PTL

(* What the viewer names as the fittest is the least of the database's     *)
(* fitnesses with log_mode "all", and with "best" the run's best, if its   *)
(* step is one that is sampled (reg_sim.cpp:60-73, logger.cpp:590-601).    *)
THEOREM TheFittestIsShown == ASSUME LogGrns, LogRegSteps PROVE Spec => []FittestShown
<1>1. Init => ShownInv
  BY InitInv
<1>2. ShownInv /\ [Next]_vars => ShownInv'
  BY NextShown
<1>3. ShownInv => FittestShown
  <2> SUFFICES ASSUME ShownInv, pc \in {"next", "done"}
               PROVE  /\ log_mode = "all" =>
                           \E f \in ShownFitnesses(db) : IsLeast(f, {row.fitness : row \in ToSet(db.fitness)})
                      /\ log_mode = "best" /\ ShouldSample(bests.run_iter) =>
                           IsLeast(bests.run_fitness, ShownFitnesses(db))
    BY DEF FittestShown
  <2> USE DEF ShownInv, IInv
  <2>1. Sound(db)
    BY DEF DbOK
  <2>2. ASSUME log_mode = "all"
        PROVE  \E f \in ShownFitnesses(db) : IsLeast(f, {row.fitness : row \in ToSet(db.fitness)})
    <3> DEFINE values == {row.fitness : row \in ToSet(db.fitness)}
    <3>1. /\ \A row \in ToSet(db.fitness) : HasGrn(db, row.ga_step, row.pop_index)
          /\ ToSet(db.fitness) # {}
      BY <2>2 DEF AllThere
    <3>2. values \in SUBSET Nat /\ values # {}
      BY <2>1, <3>1, RowsAre
    <3>3. PICK f \in values : \A other \in values : f <= other
      <4> HIDE DEF values
      <4> QED BY <3>2, NatMinimum
    <3>4. f \in ShownFitnesses(db)
      BY <3>1, <3>3 DEF ShownFitnesses, HasGrn
    <3>5. IsLeast(f, values)
      BY <3>3 DEF IsLeast
    <3> QED BY <3>4, <3>5
  <2>3. ASSUME log_mode = "best", ShouldSample(bests.run_iter)
        PROVE  IsLeast(bests.run_fitness, ShownFitnesses(db))
    <3> DEFINE row == [ga_step |-> bests.run[1], pop_index |-> bests.run[2], fitness |-> bests.run_fitness]
    <3>1. bests.run # Null
      <4>1. Len(fitnesses) = PopSize /\ PopSize \in Nat \ {0}
        BY LoggerAssumption DEF StateOK
      <4>2. fitnesses # << >>
        BY <4>1
      <4> QED BY <4>2 DEF BestsOK
    <3>2. /\ HasGrn(db, bests.run[1], bests.run[2]) /\ row \in ToSet(db.fitness)
          /\ \A r \in ToSet(db.fitness) : bests.run_fitness <= r.fitness
      BY <2>3, <3>1 DEF BestThere
    <3>3. bests.run_fitness \in ShownFitnesses(db)
      <4>1. row.ga_step = bests.run[1] /\ row.pop_index = bests.run[2] /\ row.fitness = bests.run_fitness
        OBVIOUS
      <4> HIDE DEF row
      <4> QED BY <3>2, <4>1 DEF ShownFitnesses, HasGrn
    <3>4. \A f \in ShownFitnesses(db) : bests.run_fitness <= f
      BY <3>2 DEF ShownFitnesses
    <3> QED BY <3>3, <3>4 DEF IsLeast
  <2> QED BY <2>2, <2>3
<1> QED BY <1>1, <1>2, <1>3, PTL DEF Spec
=============================================================================
