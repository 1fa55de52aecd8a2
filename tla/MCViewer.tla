------------------------------- MODULE MCViewer -------------------------------
(* Instances of Viewer for TLC: a run logged with log_mode "all", of two   *)
(* steps and two individuals, and one with "best", whose best is the       *)
(* second individual and then the first.  Two genes; protein 0 is there    *)
(* from the start, 1 is another one in each individual; the first          *)
(* individual has no program.                                              *)
EXTENDS Viewer

Obs(pids, bound, active, tree) ==
    [concs |-> [p \in pids |-> 1], bound |-> [g \in Positions |-> bound[g + 1]],
     active |-> [g \in Positions |-> active[g + 1]], tree |-> tree]
Start == Obs({0}, <<-1, -1>>, <<-1, -1>>, EmptyTree)
Root == AddChild(EmptyTree, 0, "f")
Programless == (-1 :> Start) @@ (0 :> Obs({0, 1}, <<0, -1>>, <<1, -1>>, EmptyTree))
Programmed == (-1 :> Start) @@ (0 :> Obs({0, 1}, <<-1, 1>>, <<-1, 1>>, Root))

Evaluated(db, ga_step) ==
    LogFitnesses(LogRegSnapshot(LogRegSnapshot(LogGaStep(db, "all", ga_step, 2),
                   <<ga_step, 0>>, Programless), <<ga_step, 1>>, Programmed),
                 ga_step, <<2, 1>>)
Everything == Evaluated(Evaluated(EmptyDb, -1), 0)
TheBest ==
    LogFitnesses(LogRegSnapshot(LogFitnesses(LogRegSnapshot(EmptyDb, <<-1, 1>>, Programmed),
                   -1, <<2, 1>>), <<0, 0>>, Programless), 0, <<0, 1>>)
MCRuns == <<[db |-> Everything, log_mode |-> "all"], [db |-> TheBest, log_mode |-> "best"]>>
=============================================================================
