------------------------------ MODULE VisAdapter ------------------------------
(***************************************************************************)
(* The graphs of a run that has ended: the program forks the script        *)
(* vis/graph.py and serves its selects on the in-memory database           *)
(* (vis_adapter.cpp, vis/graph/ipc.py).  The two processes share a pair    *)
(* socket, one queue each way.  A call is a frame with its command and one *)
(* frame for each of its arguments; nothing but their order tells a        *)
(* command from an argument or one number's width from another's.          *)
(*                                                                         *)
(* A cell of a result is named after the statement, the bound parameters,  *)
(* the row and the column that it was read from.  (X_Fault is X, defined   *)
(* after it, as a plausible bug would have it.)                            *)
(***************************************************************************)
EXTENDS Integers, SequencesExt, FiniteSets

CONSTANTS
    Scripts,     \* the selects that a script may make, in order
    NumRows,     \* rows that a statement has
    MaxErrors    \* bound: steps of a statement that fail

(* The types that a frame of data may have; a parameter's value is a       *)
(* number that stands for it.                                              *)
Types == {"int", "double", "text"}
Selects ==
    [sql : DOMAIN NumRows, params : Seq([type : Types, val : Nat]),
     cols : Seq(Types) \ {<< >>}, takes_row : BOOLEAN]

ASSUME VisAdapterAssumption ==
    /\ \A sql \in DOMAIN NumRows : NumRows[sql] \in Nat
    /\ Scripts \subseteq Seq(Selects) \ {<< >>}
    /\ MaxErrors \in Nat

VARIABLES
    script,      \* the selects that this script makes
    client,      \* what it does when its frames are sent
    todo,        \* the frames that it sends next
    current,     \* its select: how many have returned before it
    results,     \* ResultSet of the current select
    row,         \* cells of the row it reads
    returned,    \* history: the result of every select
    to_server, to_client,   \* the queues of the socket
    done,        \* VisAdapter::listen's done
    call,        \* the frames of the call that the server receives
    stmt,        \* VisAdapter::stmt
    errors       \* history: the selects of which a step failed

script_vars == <<client, todo, current, results, row, returned>>
server_vars == <<done, call, stmt, errors>>
vars == <<script, script_vars, to_server, to_client, server_vars>>

(* A command has a verb, and "bind" and "column" have a type.              *)
Text(words) == [type |-> "text", val |-> words]
Cmd(verb) == Text(<<verb>>)
TypedCmd(verb, type) == Text(<<verb, type>>)
Number(n) == [type |-> "int", val |-> n]

Prepared(sql) == [sql |-> sql, bound |-> << >>, row |-> 0]

(***************************************************************************)
(* Ipc.select and its callers                                              *)
(***************************************************************************)
(* bytes(str), without an encoding, raises: a text parameter ends the      *)
(* script after its index is sent.                                         *)
Bind(index, param) ==
    <<TypedCmd("bind", param.type), Number(index)>>
        \o (IF param.type = "text" THEN << >> ELSE <<param>>)
Sendable(params) ==
    LET text == SelectInSeq(params, LAMBDA p : p.type = "text")
    IN IF text = 0 THEN Len(params) ELSE text
Raises(params) == \E i \in DOMAIN params : params[i].type = "text"
Opening(select) ==
    <<Cmd("stmt"), Text(<<select.sql>>)>>
        \o FlattenSeq([i \in 1 .. Sendable(select.params) |-> Bind(i, select.params[i])])
        \o (IF Raises(select.params) THEN << >> ELSE <<Cmd("step")>>)
AfterOpening(select) == IF Raises(select.params) THEN "raise" ELSE "status"

Init ==
    /\ script \in Scripts
    /\ \/ todo = Opening(script[1]) /\ client = AfterOpening(script[1])
       \/ todo = << >> /\ client = "dead"   \* execlp found no script
    /\ current = 1 /\ results = << >> /\ row = << >> /\ returned = << >>
    /\ to_server = << >> /\ to_client = << >>
    /\ done = FALSE /\ call = << >> /\ stmt = Prepared("none") /\ errors = {}

Select == script[current]

Send ==
    /\ todo # << >>
    /\ to_server' = Append(to_server, Head(todo)) /\ todo' = Tail(todo)
    /\ UNCHANGED <<script, client, current, results, row, returned, to_client, server_vars>>

Receive ==
    /\ todo = << >> /\ to_client # << >>
    /\ to_client' = Tail(to_client)
    /\ UNCHANGED <<script, to_server, server_vars, current, returned>>

ColumnIndex_Fault(col) == col
ColumnIndex(col) == col - 1
GetColumn(col) ==
    /\ todo' = <<TypedCmd("column", Select.cols[col]), Number(ColumnIndex(col))>>
    /\ client' = "column"

RecvStatus ==
    /\ client = "status" /\ Receive
    /\ IF Head(to_client).val = 1 THEN GetColumn(1)
       ELSE todo' = <<Cmd("finalize")>> /\ client' = "return"
    /\ row' = << >> /\ UNCHANGED results

RecvColumn ==
    /\ client = "column" /\ Receive
    /\ LET cells == Append(row, Head(to_client).val)
       IN \/ /\ Len(cells) < Len(Select.cols) /\ GetColumn(Len(cells) + 1)
             /\ row' = cells /\ UNCHANGED results
          \/ /\ Len(cells) = Len(Select.cols)
             /\ results' = Append(results, cells) /\ row' = << >>
             /\ todo' = <<Cmd("step")>> /\ client' = "status"

(* Run takes the first row of what its selects return, and raises if there *)
(* is none; GraphGen draws what there is.  The last select is followed by  *)
(* close.                                                                  *)
Return ==
    /\ client = "return" /\ todo = << >>
    /\ returned' = Append(returned, results)
    /\ results' = << >>
    /\ \/ /\ Select.takes_row /\ results = << >>
          /\ client' = "raise" /\ UNCHANGED <<todo, current>>
       \/ /\ Select.takes_row => results # << >>
          /\ IF current = Len(script)
             THEN client' = "end" /\ todo' = <<Cmd("exit")>> /\ UNCHANGED current
             ELSE /\ client' = AfterOpening(script[current + 1])
                  /\ todo' = Opening(script[current + 1]) /\ current' = current + 1
    /\ UNCHANGED <<script, row, to_server, to_client, server_vars>>

Leave(how) ==
    /\ client' = how /\ todo' = << >>
    /\ UNCHANGED <<script, current, results, row, returned, to_client, server_vars>>
Raise == client = "raise" /\ todo = << >> /\ Leave("dead") /\ UNCHANGED to_server
End == client = "end" /\ todo = << >> /\ Leave("gone") /\ UNCHANGED to_server

(* What the script had queued may not reach the server when it is killed.  *)
Die ==
    /\ client \notin {"dead", "gone"} /\ Leave("dead")
    /\ \E n \in 0 .. Len(to_server) : to_server' = SubSeq(to_server, 1, n)

(***************************************************************************)
(* VisAdapter::listen                                                      *)
(***************************************************************************)
Arguments_Fault(cmd) ==
    CASE cmd[1] = "stmt" -> <<"text">>
      [] cmd[1] = "bind" -> <<cmd[2], "int">>
      [] cmd[1] = "column" -> <<"int">>
      [] OTHER -> << >>
Arguments(cmd) ==
    CASE cmd[1] = "stmt" -> <<"text">>
      [] cmd[1] = "bind" -> <<"int", cmd[2]>>
      [] cmd[1] = "column" -> <<"int">>
      [] OTHER -> << >>

Bound(index, val) ==
    [stmt EXCEPT !.bound = [i \in DOMAIN @ \cup {index} |-> IF i = index THEN val ELSE @[i]]]
Cell(col) == [sql |-> stmt.sql, bound |-> stmt.bound, row |-> stmt.row, col |-> col]

(* A failure is told apart from the end of the rows on stderr only.        *)
Status_Fault(rc) == IF rc = "error" THEN << >> ELSE <<Number(IF rc = "row" THEN 1 ELSE 0)>>
Status(rc) == <<Number(IF rc = "row" THEN 1 ELSE 0)>>

Step ==
    \/ /\ to_client' = to_client
             \o Status(IF stmt.row < NumRows[stmt.sql] THEN "row" ELSE "done")
       /\ stmt' = [stmt EXCEPT !.row = @ + 1] /\ UNCHANGED errors
    \/ /\ Cardinality(errors) < MaxErrors /\ errors' = errors \cup {current}
       /\ to_client' = to_client \o Status("error") /\ UNCHANGED stmt

Perform(cmd, args) ==
    /\ IF cmd[1] = "step" THEN Step
       ELSE /\ stmt' = CASE cmd[1] = "stmt" -> Prepared(args[1].val[1])
                         [] cmd[1] = "bind" -> Bound(args[1].val, args[2].val)
                         [] OTHER -> stmt
            /\ to_client' = IF cmd[1] = "column"
                            THEN Append(to_client, [type |-> cmd[2], val |-> Cell(args[1].val)])
                            ELSE to_client
            /\ UNCHANGED errors
    /\ done' = (cmd[1] = "exit")

Listen ==
    /\ ~ done /\ to_server # << >>
    /\ to_server' = Tail(to_server)
    /\ LET frames == Append(call, Head(to_server))
       IN IF Len(frames) <= Len(Arguments(frames[1].val))
          THEN call' = frames /\ UNCHANGED <<to_client, done, stmt, errors>>
          ELSE call' = << >> /\ Perform(frames[1].val, Tail(frames))
    /\ UNCHANGED <<script, script_vars>>

Script == Send \/ RecvStatus \/ RecvColumn \/ Return \/ Raise \/ End
Next == Script \/ Listen \/ Die

(* Both processes are scheduled; nothing makes the script die.             *)
Spec == Init /\ [][Next]_vars /\ WF_vars(Script) /\ WF_vars(Listen)

(***************************************************************************)
(* Properties                                                              *)
(***************************************************************************)
Expected == IF call = << >> THEN "text" ELSE Arguments(call[1].val)[Len(call)]
Awaited == IF client = "column" THEN Select.cols[Len(row) + 1] ELSE "int"

(* Every frame that a process takes is of the type that it takes it for,   *)
(* whatever the parameters are and wherever the script ends: no memcpy     *)
(* beyond a number, no argument taken for a command                        *)
(* (vis_adapter.cpp:110-139, ipc.py:20-79).                                *)
Aligned ==
    /\ to_server # << >> => Head(to_server).type = Expected
    /\ to_client # << >> /\ client \in {"status", "column"} => Head(to_client).type = Awaited

(* A select returns the rows of its own statement with its own parameters, *)
(* all, each once, in order and with their columns in theirs; if a step    *)
(* failed, those before it (ipc.py:14-89, vis_adapter.cpp:27-97).          *)
SelectGivesRows ==
    \A i \in DOMAIN returned :
        LET select == script[i]
            bound == [k \in DOMAIN select.params |-> select.params[k].val]
            rows == [r \in 1 .. NumRows[select.sql] |-> [c \in DOMAIN select.cols |->
                       [sql |-> select.sql, bound |-> bound, row |-> r, col |-> c - 1]]]
        IN IF i \in errors THEN IsPrefix(returned[i], rows) ELSE returned[i] = rows

(* The program gets out of listen and goes on to its next run, or its      *)
(* script ended without an exit and it waits forever for a frame: there is *)
(* no other way for the two to wait for each other                         *)
(* (vis_adapter.cpp:24-104, graph.py:43-46).                               *)
ListensUntilExit == <>done \/ <>[](client = "dead" /\ to_server = << >>)
=============================================================================
