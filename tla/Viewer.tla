-------------------------------- MODULE Viewer --------------------------------
(***************************************************************************)
(* The window that shows the networks and programs of a finished run       *)
(* (view_window.py, step_button.py, protein_frame.py, graph_gen.py): the   *)
(* position in the run, the check boxes of the proteins, the two caches of *)
(* pictures, and the pictures shown.  What it reads is the database that   *)
(* module Database describes, which nobody changes meanwhile.              *)
(*                                                                         *)
(* The window handles one event at a time, each to its end.  A picture of  *)
(* a program is named after what it is of; of one of a network, the        *)
(* proteins plotted, and those drawn pink since they have no colour, are   *)
(* told apart.                                                             *)
(*                                                                         *)
(* (X_Fault is X, defined after it, as a plausible bug would have it.)     *)
(***************************************************************************)
EXTENDS Database

CONSTANTS
    Runs,        \* the runs that it may open: their databases and log_mode
    CacheSize,   \* ViewWindow.CACHE_SIZE
    None         \* Python's

VARIABLES
    run,        \* ViewWindow.run
    content,    \* what its database has
    steps,      \* StepButton.steps, of the three buttons
    index,      \* StepButton.index
    checked,    \* ProteinFrame.checked: by protein id, since the start
    boxes,      \* ProteinFrame.cur_checked, and the check boxes
    trees,      \* the programs: [cache, img, shown]
    grns,       \* the networks: [cache, img], with GraphGen.colour_cache and last_key
    recent      \* history: the keys that each cache was last asked for

opened == <<run, content>>
vars == <<opened, steps, index, checked, boxes, trees, grns, recent>>

Buttons == {"ga", "reg", "pop"}

(***************************************************************************)
(* What the database has                                                   *)
(***************************************************************************)
(* SELECT DISTINCT ... ORDER BY.  Without a row the step is -1.            *)
Distinct(rows) == IF rows = {} THEN <<-1>> ELSE Ordered(rows)
StepsIn(db) ==
    [ga |-> Distinct({r.ga_step : r \in ToSet(db.grn)}),
     reg |-> Distinct({r.reg_step : r \in ToSet(db.gene_state)}),
     pop |-> Distinct({r.pop_index : r \in ToSet(db.fitness)})]

Keys(db) ==
    {r.ga_step : r \in ToSet(db.grn)} \X (-1 .. RegSteps - 1)
      \X ({r.pop_index : r \in ToSet(db.fitness)} \cup {r.pop_index : r \in ToSet(db.grn)})

(* For every picture: the proteins with a curve, those that genes refer to *)
(* and whether there is a program.                                         *)
ContentOf(db) ==
    [key \in Keys(db) |->
        LET name == <<key[1], key[3]>>
            curves == Curves(db, name, key[2])
            states(g) == GeneStates(db, name, key[2], g)
            shown(g, col) == ShownProtein(db, {db.gene_state[i][col] : i \in states(g)})
        IN [pids |-> {curves[i].pid : i \in DOMAIN curves},
            referred |-> {shown(g, col) : g \in Positions, col \in {"bound_protein", "active_output"}}
                           \ {NoProtein},
            has_tree |-> ShownTrees(db, name, key[2]) # {}]]

(* The Logger leaves behind at least one network and, with log_mode "all", *)
(* one of every individual at every step that it sampled; a protein that   *)
(* a gene refers to has a state (logger.cpp:514-531, 598-686, 737-806).    *)
Logged(r) ==
    /\ r.log_mode \in {"all", "best"}
    /\ r.db.grn \in Seq([ga_step : Int, pop_index : Int, split_pt : Int]) /\ r.db.grn # << >>
    /\ r.db.gene_state \in Seq([reg_step : -1 .. RegSteps - 1, active_output : Nat,
                                 bound_protein : Nat, gene_id : Nat])
    /\ r.db.fitness \in Seq([ga_step : Int, pop_index : Int, fitness : Int])
    /\ r.log_mode = "all" =>
         /\ r.db.fitness # << >>
         /\ \A g \in ToSet(r.db.grn), f \in ToSet(r.db.fitness) :
              GrnIds(r.db, g.ga_step, f.pop_index) # {}
    /\ \A key \in Keys(r.db) : ContentOf(r.db)[key].referred \subseteq ContentOf(r.db)[key].pids

ASSUME ViewerAssumption ==
    /\ CacheSize \in Nat \ {0}
    /\ \A r \in DOMAIN Runs : Logged(Runs[r])
    /\ None \notin Int \X Int \X Int

Pids(key) == content[key].pids
Referred(key) == content[key].referred
HasTree(key) == content[key].has_tree

(***************************************************************************)
(* The caches: the picture used longest ago is in front                    *)
(***************************************************************************)
KeysOf(cache) == [i \in DOMAIN cache |-> cache[i].key]
InCache(cache, key) == key \in ToSet(KeysOf(cache))
Place(keys, key) == CHOOSE i \in DOMAIN keys : keys[i] = key
Fetched(cache, key) == cache[Place(KeysOf(cache), key)].picture

MoveToEnd_Fault(cache, key) == cache
MoveToEnd(cache, key) ==
    Append(RemoveAt(cache, Place(KeysOf(cache), key)),
           [key |-> key, picture |-> Fetched(cache, key)])

Insert(cache, key, picture) ==
    Append(IF Len(cache) < CacheSize THEN cache ELSE Tail(cache), [key |-> key, picture |-> picture])

(***************************************************************************)
(* Drawing                                                                 *)
(***************************************************************************)
(* build_tree gives no picture of an empty program; it is not cached.      *)
TreeImg(t, key) ==
    IF InCache(t.cache, key) THEN [t EXCEPT !.cache = MoveToEnd(@, key), !.img = Fetched(t.cache, key)]
    ELSE IF HasTree(key) THEN [t EXCEPT !.cache = Insert(@, key, key), !.img = key]
    ELSE [t EXCEPT !.img = None]

(* An empty program leaves the last picture where it was, out of sight,    *)
(* and makes the button that saves it insensitive.                         *)
TreeView_Fault(t, key) == TreeImg(t, key)
TreeView(t, key) ==
    LET drawn == TreeImg(t, key)
    IN IF drawn.img = None THEN [t EXCEPT !.shown = FALSE] ELSE [drawn EXCEPT !.shown = TRUE]

(* draw_grn: the colours of another individual are forgotten; a protein    *)
(* gets its colour when its curve is plotted, and a gene that refers to    *)
(* one without a colour is pink.                                           *)
Colours(g, individual) == IF g.last_key = individual THEN g.colours ELSE {}
DrawGrn(g, key, unchecked) ==
    LET individual == <<key[1], key[3]>>
        plotted == Pids(key) \ unchecked
        colours == Colours(g, individual) \cup plotted
    IN [g EXCEPT !.colours = colours, !.last_key = individual,
                 !.img = [key |-> key, plotted |-> plotted, pink |-> Referred(key) \ colours]]

(* The cache is passed by for a picture that some protein is left out of.  *)
Bypass_Fault(key, unchecked) == unchecked = Pids(key)
Bypass(key, unchecked) == unchecked # {}
GrnImg(g, key, unchecked) ==
    LET drawn == DrawGrn(g, key, unchecked)
    IN IF Bypass(key, unchecked) THEN drawn
       ELSE IF InCache(g.cache, key)
       THEN [g EXCEPT !.cache = MoveToEnd(@, key), !.img = Fetched(g.cache, key)]
       ELSE [drawn EXCEPT !.cache = Insert(@, key, drawn.img)]

(***************************************************************************)
(* Events                                                                  *)
(***************************************************************************)
Value(b) == steps[b][index[b]]
Current == <<Value("ga"), Value("reg"), Value("pop")>>
Unchecked(bs) == {pid \in DOMAIN bs : ~ bs[pid]}

(* History: the last CacheSize keys, without repetition.                   *)
Asked(keys, key) ==
    LET others == IF key \in ToSet(keys) THEN RemoveAt(keys, Place(keys, key)) ELSE keys
        all == Append(others, key)
    IN IF Len(all) > CacheSize THEN Tail(all) ELSE all
RecentTree(keys, key) == IF HasTree(key) THEN Asked(keys, key) ELSE keys
RecentGrn(keys, key, unchecked) == IF Bypass(key, unchecked) THEN keys ELSE Asked(keys, key)

(* ProteinFrame.update_list: a box per protein of what is shown, as it was *)
(* left when a protein of its id was last shown.                           *)
UpdateList(key) ==
    /\ checked' = [pid \in DOMAIN checked \cup Pids(key) |->
                     IF pid \in DOMAIN checked THEN checked[pid] ELSE TRUE]
    /\ boxes' = [pid \in Pids(key) |-> checked'[pid]]

(* Without log_mode "all" there is one individual per step, the button of  *)
(* the individuals is set to it and stays there.                           *)
PopIndex(ga_step) ==
    LET grn == Runs[run].db.grn
    IN grn[First({i \in DOMAIN grn : grn[i].ga_step = ga_step})].pop_index

UpdateViews ==
    LET ga_step == steps.ga[index'.ga]
    IN /\ IF Runs[run].log_mode = "best"
          THEN LET p == PopIndex(ga_step) IN steps' = [steps EXCEPT !.pop = <<p, p>>]
          ELSE UNCHANGED steps
       /\ LET key == <<ga_step, steps.reg[index'.reg], steps'.pop[index'.pop]>>
          IN /\ UpdateList(key)
             /\ trees' = TreeView(trees, key)
             /\ grns' = GrnImg(grns, key, Unchecked(boxes'))
             /\ recent' = [tree |-> RecentTree(recent.tree, key),
                           grn |-> RecentGrn(recent.grn, key, Unchecked(boxes'))]

Sensitive(b) == b # "pop" \/ Runs[run].log_mode # "best"

(* The buttons + and -, and a number typed into the field: one that is no  *)
(* step of the button is replaced by the current one.                      *)
MoveTo(b, i) ==
    /\ Sensitive(b) /\ i \in DOMAIN steps[b] /\ i # index[b]
    /\ index' = [index EXCEPT ![b] = i, !.pop = IF Runs[run].log_mode = "best" THEN 1 ELSE
                                               IF b = "pop" THEN i ELSE @]
    /\ UpdateViews
    /\ UNCHANGED opened
Spin(b) == \E delta \in {-1, 1} : MoveTo(b, index[b] + delta)
SetText(b) == \E i \in DOMAIN steps[b] : MoveTo(b, i)

Toggle(pids, active) ==
    /\ checked' = [pid \in DOMAIN checked |-> IF pid \in pids THEN active ELSE checked[pid]]
    /\ boxes' = [pid \in DOMAIN boxes |-> IF pid \in pids THEN active ELSE boxes[pid]]
    /\ UNCHANGED <<opened, steps, index, trees, grns, recent>>
ToggleProtein == \E pid \in DOMAIN boxes : Toggle({pid}, ~ boxes[pid])
SetChecks == \E active \in BOOLEAN : Toggle(DOMAIN boxes, active)

(* The button "Filter".                                                    *)
UpdateGrnView ==
    /\ grns' = GrnImg(grns, Current, Unchecked(boxes))
    /\ recent' = [recent EXCEPT !.grn = RecentGrn(@, Current, Unchecked(boxes))]
    /\ UNCHANGED <<opened, steps, index, checked, boxes, trees>>

(* The button "Precompute": every step but the start, with all proteins,   *)
(* and what is shown stays.                                                *)
Computed(s, key) ==
    [trees |-> TreeImg(s.trees, key), grns |-> GrnImg(s.grns, key, {}),
     recent |-> [tree |-> RecentTree(s.recent.tree, key),
                 grn |-> RecentGrn(s.recent.grn, key, {})]]
Precomputed ==
    LET after[k \in 0 .. RegSteps] ==
          IF k = 0 THEN [trees |-> trees, grns |-> grns, recent |-> recent]
          ELSE Computed(after[k - 1], <<Value("ga"), k - 1, Value("pop")>>)
    IN after[RegSteps]
PrecompRegSteps ==
    /\ trees' = [Precomputed.trees EXCEPT !.img = trees.img]
    /\ grns' = [Precomputed.grns EXCEPT !.img = grns.img]
    /\ recent' = Precomputed.recent
    /\ UNCHANGED <<opened, steps, index, checked, boxes>>

(* The window opens on the first steps, with nothing cached.               *)
Opened == grns.img # None
Open ==
    /\ ~ Opened
    /\ index' = index /\ UpdateViews
    /\ UNCHANGED opened

Init ==
    /\ run \in DOMAIN Runs /\ content = ContentOf(Runs[run].db)
    /\ steps = StepsIn(Runs[run].db) /\ index = [b \in Buttons |-> 1]
    /\ checked = << >> /\ boxes = << >>
    /\ trees = [cache |-> << >>, img |-> None, shown |-> TRUE]
    /\ grns = [cache |-> << >>, img |-> None, colours |-> {}, last_key |-> None]
    /\ recent = [tree |-> << >>, grn |-> << >>]

Navigate == Opened /\ \E b \in Buttons : Spin(b) \/ SetText(b)
Choose == Opened /\ (ToggleProtein \/ SetChecks)
Draw == Opened /\ (UpdateGrnView \/ PrecompRegSteps)
Next == Open \/ Navigate \/ Choose \/ Draw
Spec == Init /\ [][Next]_vars

(***************************************************************************)
(* Properties                                                              *)
(***************************************************************************)
(* A picture in a cache is the one and whole picture of its key: nothing   *)
(* is left out of it whatever is unchecked, and its colours do not depend  *)
(* on what was drawn before it (view_window.py:185-213, 238,               *)
(* graph_gen.py:183-191, 236-245, 307-311).                                *)
CachedAreWhole ==
    /\ \A i \in DOMAIN trees.cache : trees.cache[i].picture = trees.cache[i].key
    /\ \A i \in DOMAIN grns.cache :
         LET key == grns.cache[i].key
         IN grns.cache[i].picture = [key |-> key, plotted |-> Pids(key), pink |-> {}]

(* Each cache holds the pictures that were last shown or precomputed, as   *)
(* many as it has room for, each once (view_window.py:33-36, 194-209).     *)
CachesHoldTheRecent ==
    /\ recent.tree = KeysOf(trees.cache) /\ IsInjective(recent.tree)
    /\ recent.grn = KeysOf(grns.cache) /\ IsInjective(recent.grn)

(* What is shown, and what would be saved, is what the buttons say, with   *)
(* one individual per step also after moving to a step with another; the   *)
(* boxes are those of its proteins, each as it was left last, and a        *)
(* picture leaves out only proteins that have a box                        *)
(* (view_window.py:215-267, protein_frame.py:38-75).                       *)
ShownIsCurrent ==
    Opened =>
        /\ grns.img.key = Current
        /\ trees.shown <=> HasTree(Current)
        /\ trees.shown => trees.img = Current
        /\ GrnIds(Runs[run].db, Value("ga"), Value("pop")) # {}
        /\ DOMAIN boxes = Pids(Current)
        /\ \A pid \in DOMAIN boxes : boxes[pid] = checked[pid]
=============================================================================
