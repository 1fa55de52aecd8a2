------------------------------ MODULE LispWorker ------------------------------
(***************************************************************************)
(* The evaluation of one program (fitness_fcn.cpp, program.cpp,            *)
(* lisp_worker.cpp): for every test a clisp process runs the program with  *)
(* its two output streams redirected into pipes; the evaluation waits for  *)
(* that process and only then reads the pipes, first stdout, then stderr.  *)
(*                                                                         *)
(* A text is its length and whether it is the expected answer; the process *)
(* writes a character at a time, in any order of the two streams, and may  *)
(* die in between.  (X_Fault is X, defined after it, as a plausible bug    *)
(* would have it.)                                                         *)
(***************************************************************************)
EXTENDS Integers, FiniteSets

CONSTANTS
    PipeCapacity,   \* characters that a pipe holds
    ChunkSize,      \* CHUNK_SIZE
    AnswerLength,   \* characters of the expected answer with its newline
    MaxOut, MaxErr, \* bounds: characters a process writes to each stream
    MaxSize         \* bound: nodes of the program

(* An expected answer is a number and a newline.                           *)
ASSUME LispWorkerAssumption ==
    /\ {PipeCapacity, ChunkSize} \subseteq Nat \ {0}
    /\ AnswerLength \in Nat \ {0, 1}
    /\ {MaxOut, MaxErr, MaxSize} \subseteq Nat

VARIABLES
    size, empty_nodes,   \* of the phenotype that is evaluated
    pc,        \* where the evaluation is
    test,      \* which test of test_pgm runs
    passed,    \* test_pgm's count
    ends,      \* the pipe ends that this process has open
    alive,     \* whether the clisp process runs
    to_write,  \* what it still writes, per stream
    answers,   \* whether its stdout is the expected answer
    pipe,      \* characters in each pipe
    count, buf_size, allocated,   \* read_stream's buffer
    output,    \* LispWorker::output
    solved     \* history: the tests whose process gave the expected answer alone

reader == <<count, buf_size, allocated>>
vars == <<size, empty_nodes, pc, test, passed, ends, alive, to_write, answers, pipe,
          reader, output, solved>>

Streams == {"out", "err"}
NumTests == 2
Ends == Streams \X {"read", "write"}
Empty == [s \in Streams |-> 0]

Init ==
    /\ size \in 0 .. MaxSize /\ empty_nodes \in 0 .. size
    /\ pc = IF empty_nodes = 0 THEN "fork" ELSE "done"
    /\ test = 1 /\ passed = 0 /\ solved = 0
    /\ ends = {} /\ alive = FALSE /\ to_write = Empty /\ answers = FALSE /\ pipe = Empty
    /\ count = 0 /\ buf_size = 0 /\ allocated = 0
    /\ output = "none"

(***************************************************************************)
(* LispWorker::run                                                         *)
(***************************************************************************)
(* The write ends are closed here once the process has its own.            *)
EndsAfterFork_Fault == Ends
EndsAfterFork == {<<s, "read">> : s \in Streams}

Fork ==
    /\ pc = "fork"
    /\ \E out \in 0 .. MaxOut, err \in 0 .. MaxErr, right \in BOOLEAN :
         /\ right => out = AnswerLength
         /\ to_write' = [out |-> out, err |-> err]
         /\ answers' = right
    /\ ends' = EndsAfterFork
    /\ alive' = TRUE /\ output' = "none" /\ pc' = "wait"
    /\ UNCHANGED <<size, empty_nodes, test, passed, pipe, reader, solved>>

(* malloc leaves a slot beyond buf_size for the terminating 0.             *)
NewBuffer == count' = 0 /\ buf_size' = ChunkSize /\ allocated' = ChunkSize + 1

Wait ==
    /\ pc = "wait" /\ ~ alive
    /\ pc' = "out" /\ NewBuffer
    /\ UNCHANGED <<size, empty_nodes, test, passed, ends, alive, to_write, answers, pipe,
                   output, solved>>

(* realloc, to a size without that slot, when the buffer is full.          *)
IsFull_Fault(n) == n > buf_size
IsFull(n) == n = buf_size

ReadChar ==
    /\ pc \in Streams /\ pipe[pc] > 0
    /\ pipe' = [pipe EXCEPT ![pc] = @ - 1]
    /\ count' = count + 1
    /\ buf_size' = IF IsFull(count + 1) THEN buf_size + ChunkSize ELSE buf_size
    /\ allocated' = IF IsFull(count + 1) THEN buf_size + ChunkSize ELSE allocated
    /\ UNCHANGED <<size, empty_nodes, pc, test, passed, ends, alive, to_write, answers,
                   output, solved>>

(* A pipe ends when it is empty and no process has its write end.          *)
AtEof(s) == pipe[s] = 0 /\ ~ alive /\ <<s, "write">> \notin ends

(* What a stream gave replaces the output, if it gave anything; the answer *)
(* is recognised with or without its newline.                              *)
IsAnswer(n) == answers /\ n \in {AnswerLength - 1, AnswerLength}
AfterStdout == IF count = 0 THEN output ELSE IF IsAnswer(count) THEN "answer" ELSE "other"
AfterStderr_Fault == output
AfterStderr == IF count = 0 THEN output ELSE "other"

EndStdout ==
    /\ pc = "out" /\ AtEof("out")
    /\ output' = AfterStdout
    /\ pc' = "err" /\ NewBuffer
    /\ UNCHANGED <<size, empty_nodes, test, passed, ends, alive, to_write, answers, pipe,
                   solved>>

(* The read ends are closed, and test_pgm counts and goes on.              *)
EndsAfterRun == ends \ {<<s, "read">> : s \in Streams}

EndStderr ==
    /\ pc = "err" /\ AtEof("err")
    /\ output' = AfterStderr
    /\ passed' = IF output' = "answer" THEN passed + 1 ELSE passed
    /\ ends' = EndsAfterRun
    /\ test' = test + 1
    /\ pc' = IF test < NumTests THEN "fork" ELSE "done"
    /\ UNCHANGED <<size, empty_nodes, alive, to_write, answers, pipe, reader, solved>>

(***************************************************************************)
(* The clisp process: a write waits for room in the pipe.                  *)
(***************************************************************************)
Write(s) ==
    /\ alive /\ to_write[s] > 0 /\ pipe[s] < PipeCapacity
    /\ to_write' = [to_write EXCEPT ![s] = @ - 1]
    /\ pipe' = [pipe EXCEPT ![s] = @ + 1]
    /\ UNCHANGED <<size, empty_nodes, pc, test, passed, ends, alive, answers, reader,
                   output, solved>>

Leave ==
    /\ alive' = FALSE /\ to_write' = Empty
    /\ solved' = IF IsAnswer(pipe["out"]) /\ pipe["err"] = 0 THEN solved + 1 ELSE solved
    /\ UNCHANGED <<size, empty_nodes, pc, test, passed, ends, answers, pipe, reader, output>>
Exit == alive /\ to_write = Empty /\ Leave
Die == alive /\ to_write # Empty /\ Leave

Evaluation == Fork \/ Wait \/ ReadChar \/ EndStdout \/ EndStderr
Clisp == (\E s \in Streams : Write(s)) \/ Exit
Next == Evaluation \/ Clisp \/ Die

(* Both processes are scheduled; the program that clisp runs has no loops  *)
(* and ends, and nothing makes it die.                                     *)
Spec == Init /\ [][Next]_vars /\ WF_vars(Evaluation) /\ WF_vars(Clisp)

(* FitnessFcn::eval                                                        *)
Distance(n) == IF n < 3 THEN 3 - n ELSE n - 3
Fitness ==
    80 * Distance(size) + 40 * empty_nodes
        + IF empty_nodes = 0 THEN (10 * (NumTests - passed)) \div NumTests ELSE 0

(***************************************************************************)
(* Properties                                                              *)
(***************************************************************************)
(* Everything read_stream stores, the terminating 0 that trim_newline      *)
(* relies on too, lies in the buffer, although realloc does not keep the   *)
(* slot reserved for it (lisp_worker.cpp:91-117).                          *)
StoresInBuffer == pc \in Streams => count < allocated

Blocked ==
    /\ pc = "wait" /\ alive
    /\ \E s \in Streams : to_write[s] > 0 /\ pipe[s] = PipeCapacity
    /\ \A s \in Streams : to_write[s] > 0 => pipe[s] = PipeCapacity

(* The evaluation ends, or it waits forever for a process that waits for   *)
(* room in a pipe which nobody reads (lisp_worker.cpp:52).                 *)
EndsOrBlocks == <>(pc = "done") \/ <>[]Blocked

(* A fitness of 0 means that the program has three nodes, all filled, and  *)
(* that it gave both expected answers, and nothing on stderr with them,    *)
(* whatever else its processes wrote or when they died                     *)
(* (fitness_fcn.cpp:3-26, lisp_worker.cpp:54-65).                          *)
ZeroMeansSolved ==
    pc = "done" => (Fitness = 0 <=> size = 3 /\ empty_nodes = 0 /\ solved = NumTests)
=============================================================================
