------------------------------- MODULE Database -------------------------------
(***************************************************************************)
(* The in-memory database that the Logger fills (logger.cpp), as a value:  *)
(* a table is the sequence of its rows, and a row's id is its place.  The  *)
(* unique index on grn(ga_step, pop_index) is the only one that there is:  *)
(* those on gene and protein take the name of another, and their creation, *)
(* whose result nobody looks at, fails.  "failed" says that a function     *)
(* found the database other than it expected and left the program.         *)
(*                                                                         *)
(* What is logged of a regulatory step, an observation, has the proteins   *)
(* by id with their concentrations (one value each), the ids of the        *)
(* protein bound to and of the one produced by each gene, and the tree.    *)
(* (X_Fault is X, defined after it, as a plausible bug would have it.)     *)
(***************************************************************************)
EXTENDS Tree, Sampling, SequencesExt

CONSTANTS
    NumGenes,                \* run->num_genes
    RegSteps,                \* run->reg_steps
    LogGrns, LogRegSteps     \* run->log_grns, run->log_reg_steps

ASSUME DatabaseAssumption == NumGenes \in Nat /\ RegSteps \in Nat /\ LogGrns \in BOOLEAN

NoRow == 0       \* NULL in a column of row ids
NoProtein == -1

Positions == 0 .. NumGenes - 1

(* create_tables and log_run: the one row of run is left out.              *)
EmptyDb ==
    [grn |-> << >>, gene |-> << >>, protein |-> << >>, protein_state |-> << >>,
     gene_state |-> << >>, ptype_state |-> << >>, tree |-> << >>, node |-> << >>,
     fitness |-> << >>, failed |-> FALSE]

Failed(db) == [db EXCEPT !.failed = TRUE]

GrnIds(db, ga_step, pop_index) ==
    {i \in DOMAIN db.grn : db.grn[i].ga_step = ga_step /\ db.grn[i].pop_index = pop_index}
ProteinIds(db, grn_id, pid) ==
    {i \in DOMAIN db.protein : db.protein[i].grn_id = grn_id /\ db.protein[i].pid = pid}
GeneIds(db, grn_id, pos) ==
    {i \in DOMAIN db.gene : db.gene[i].grn_id = grn_id /\ db.gene[i].pos = pos}
(* The row that a SELECT of one row gives; the numbers of a set in their   *)
(* order, the i-th of which has i - 1 below it.                            *)
First(ids) == CHOOSE id \in ids : \A other \in ids : id <= other
Below(number, S) == {other \in S : other < number}
Ordered(S) ==
    [i \in 1 .. Cardinality(S) |-> CHOOSE number \in S : Cardinality(Below(number, S)) = i - 1]

(***************************************************************************)
(* log_ga_step: the networks of a population, and their genes              *)
(***************************************************************************)
LogGrn(db, ga_step, pop_index) ==
    IF GrnIds(db, ga_step, pop_index) # {} THEN Failed(db)
    ELSE [db EXCEPT
            !.grn = Append(@, [ga_step |-> ga_step, pop_index |-> pop_index,
                               split_pt |-> NoRow]),
            !.gene = @ \o [p \in 1 .. NumGenes |->
                            [grn_id |-> Len(db.grn) + 1, pos |-> p - 1]]]

WithGrns(db, ga_step, size) ==
    LET with[k \in 0 .. size] ==
            IF k = 0 THEN db ELSE LogGrn(with[k - 1], ga_step, k - 1)
    IN with[size]

LogGaStep_Fault(db, log_mode, ga_step, size) ==
    IF LogGrns /\ ShouldSample(ga_step) THEN WithGrns(db, ga_step, size) ELSE db
LogGaStep(db, log_mode, ga_step, size) ==
    IF LogGrns /\ log_mode = "all" /\ ShouldSample(ga_step)
    THEN WithGrns(db, ga_step, size) ELSE db

(* log_split_pt: without log_grns there is no table to update.             *)
LogSplitPt(db, ga_step, pop_index, split_pt) ==
    IF ~ LogGrns THEN Failed(db)
    ELSE [db EXCEPT !.grn = [i \in DOMAIN @ |->
            IF i \in GrnIds(db, ga_step, pop_index)
            THEN [@[i] EXCEPT !.split_pt = split_pt] ELSE @[i]]]

(***************************************************************************)
(* log_reg_step                                                            *)
(***************************************************************************)
(* With log_mode "best" the network is not in the database yet.            *)
WithGrn_Fault(db, ga_step, pop_index) == LogGrn(db, ga_step, pop_index)
WithGrn(db, ga_step, pop_index) ==
    IF GrnIds(db, ga_step, pop_index) = {} THEN LogGrn(db, ga_step, pop_index) ELSE db

(* A protein gets a row the first time it is seen, and a state each time.  *)
IsNewProtein_Fault(db, grn_id, pid) == \A i \in DOMAIN db.protein : db.protein[i].pid # pid
IsNewProtein(db, grn_id, pid) == ProteinIds(db, grn_id, pid) = {}

WithProteins(db, grn_id, reg_step, obs) ==
    LET pids == Ordered(DOMAIN obs.concs)
        new == Ordered({pid \in DOMAIN obs.concs : IsNewProtein(db, grn_id, pid)})
        inserted == [db EXCEPT !.protein =
                       @ \o [k \in DOMAIN new |-> [pid |-> new[k], grn_id |-> grn_id]]]
    IN IF \E k \in DOMAIN pids : ProteinIds(inserted, grn_id, pids[k]) = {}
       THEN Failed(inserted)
       ELSE [inserted EXCEPT !.protein_state = @ \o [k \in DOMAIN pids |->
               [reg_step |-> reg_step, conc |-> obs.concs[pids[k]], grn_id |-> grn_id,
                protein_id |-> First(ProteinIds(inserted, grn_id, pids[k]))]]]

(* A gene's protein is looked up by its id in the simulation.              *)
WithGeneStates(db, grn_id, reg_step, obs) ==
    LET referred == {obs.active[g] : g \in Positions} \cup {obs.bound[g] : g \in Positions}
        row(pid) == IF pid = NoProtein THEN NoRow ELSE First(ProteinIds(db, grn_id, pid))
    IN IF \/ \E g \in Positions : GeneIds(db, grn_id, g) = {}
          \/ \E pid \in referred \ {NoProtein} : ProteinIds(db, grn_id, pid) = {}
       THEN Failed(db)
       ELSE [db EXCEPT !.gene_state = @ \o [k \in 1 .. NumGenes |->
               [reg_step |-> reg_step, active_output |-> row(obs.active[k - 1]),
                bound_protein |-> row(obs.bound[k - 1]),
                gene_id |-> First(GeneIds(db, grn_id, k - 1))]]]

(* insert_node: a node's row before those of its children, which refer to  *)
(* it by the id that it was given.  The root's is row "first".  The calls  *)
(* in their order: round by round, the k-th has those for its node's       *)
(* children right after it.                                                *)
Called(calls, k, children, row) ==
    SubSeq(calls, 1, k)
      \o [i \in 1 .. Len(children) |-> [id |-> children[i], parent_id |-> row]]
      \o SubSeq(calls, k + 1, Len(calls))
NodeCalls(t, first) ==
    LET calls[k \in 0 .. Size(t)] ==
          IF k = 0 THEN <<[id |-> 0, parent_id |-> NoRow]>>
          ELSE LET before == calls[k - 1]
               IN IF k > Len(before) THEN before
                  ELSE Called(before, k, Children(t, before[k].id), first + k - 1)
    IN calls[Size(t)]
NodeRows(t, tree_id, first) ==
    LET calls == NodeCalls(t, first)
    IN [k \in 1 .. Len(calls) |-> [tree_id |-> tree_id, parent_id |-> calls[k].parent_id,
                                  descr |-> t.nodes[calls[k].id].instr]]

WithPhenotype(db, grn_id, reg_step, t) ==
    LET stated == [db EXCEPT !.ptype_state =
                     Append(@, [grn_id |-> grn_id, reg_step |-> reg_step, size |-> Size(t)])]
    IN IF Size(t) = 0 THEN stated
       ELSE LET tree_id == Len(stated.tree) + 1
            IN [stated EXCEPT
                  !.tree = Append(@, [ptype_state_id |-> Len(stated.ptype_state)]),
                  !.node = IF HasRoot(t) THEN @ \o NodeRows(t, tree_id, Len(@) + 1) ELSE @]

LogRegStep(db, name, reg_step, obs) ==
    IF ~ (LogGrns /\ LogRegSteps /\ ShouldSample(name[1])) THEN db
    ELSE LET logged == WithGrn(db, name[1], name[2])
             grn_id == First(GrnIds(logged, name[1], name[2]))
         IN WithPhenotype(
              WithGeneStates(WithProteins(logged, grn_id, reg_step, obs), grn_id, reg_step, obs),
              grn_id, reg_step, obs.tree)

(* log_reg_snapshot: every regulatory step from -1, the start.             *)
LogRegSnapshot(db, name, observations) ==
    LET logged[k \in 0 .. RegSteps + 1] ==
            IF k = 0 THEN db ELSE LogRegStep(logged[k - 1], name, k - 2, observations[k - 2])
    IN logged[RegSteps + 1]

(***************************************************************************)
(* log_fitnesses                                                           *)
(***************************************************************************)
LogFitnesses(db, ga_step, fitnesses) ==
    IF ~ ShouldSample(ga_step) THEN db
    ELSE [db EXCEPT !.fitness = @ \o [i \in DOMAIN fitnesses |->
            [ga_step |-> ga_step, pop_index |-> i - 1, fitness |-> fitnesses[i]]]]

(***************************************************************************)
(* What the viewer selects                                                 *)
(***************************************************************************)
StatesOf(db, name, reg_step) ==
    {i \in DOMAIN db.protein_state :
        /\ db.protein_state[i].grn_id \in GrnIds(db, name[1], name[2])
        /\ db.protein_state[i].reg_step = reg_step}

(* GraphGen._plot_concs: a curve for every row.                            *)
Curves(db, name, reg_step) ==
    [i \in StatesOf(db, name, reg_step) |->
        [pid |-> db.protein[db.protein_state[i].protein_id].pid,
         conc |-> db.protein_state[i].conc]]

(* GraphGen._draw_bindings, _draw_outputs: the first row for a gene.       *)
GeneStates(db, name, reg_step, pos) ==
    {i \in DOMAIN db.gene_state :
        LET gene == db.gene[db.gene_state[i].gene_id]
        IN /\ gene.pos = pos /\ gene.grn_id \in GrnIds(db, name[1], name[2])
           /\ db.gene_state[i].reg_step = reg_step}
ShownProtein(db, protein_rows) ==
    LET rows == protein_rows \ {NoRow}
    IN IF rows = {} THEN NoProtein ELSE db.protein[First(rows)].pid

(* TreeGen.build_tree, _create_node: a node with what hangs below it.      *)
ShownNode(db) ==
    LET node[id \in DOMAIN db.node] ==
          [descr |-> db.node[id].descr,
           below |-> LET kids == {k \in DOMAIN db.node : /\ db.node[k].tree_id = db.node[id].tree_id
                                                        /\ db.node[k].parent_id = id}
                         rows == Ordered(kids)
                     IN [i \in DOMAIN rows |-> node[rows[i]]]]
    IN node
ShownTrees(db, name, reg_step) ==
    LET trees == {t \in DOMAIN db.tree :
                    LET state == db.ptype_state[db.tree[t].ptype_state_id]
                    IN /\ state.grn_id \in GrnIds(db, name[1], name[2])
                       /\ state.reg_step = reg_step}
    IN {ShownNode(db)[id] : id \in {k \in DOMAIN db.node :
          db.node[k].tree_id \in trees /\ db.node[k].parent_id = NoRow}}

(* BestInfo.get_fittest_grn: over the fitnesses of networks that are there.*)
ShownFitnesses(db) ==
    {f.fitness : f \in {f \in ToSet(db.fitness) : GrnIds(db, f.ga_step, f.pop_index) # {}}}
=============================================================================
