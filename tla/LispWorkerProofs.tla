--------------------------- MODULE LispWorkerProofs ---------------------------
(***************************************************************************)
(* Theorems about LispWorker, for every capacity of the pipes, every size  *)
(* of a chunk and every text that a process may write.                     *)
(*                                                                         *)
(* What a test gave is spread over the pipes and the buffer while it is    *)
(* read.  Earned says, at every place of the evaluation, whether the test  *)
(* will be counted; the history variable and test_pgm's count differ by    *)
(* just that.                                                              *)
(***************************************************************************)
EXTENDS LispWorker, TLAPS

TypesOK ==
    /\ size \in Nat /\ empty_nodes \in Nat
    /\ pc \in {"fork", "wait", "out", "err", "done"}
    /\ test \in Nat /\ passed \in Nat /\ solved \in Nat
    /\ pipe \in [Streams -> Nat]
    /\ count \in Nat /\ buf_size \in Nat /\ allocated \in Nat

(* A full buffer is enlarged at once.                                      *)
BufferOK == pc \in Streams => count < buf_size /\ buf_size <= allocated

(* The pipes are read out one after the other, when nobody writes.         *)
PipesOK ==
    /\ alive => pc = "wait"
    /\ pc \in {"wait", "out"} => output = "none"
    /\ pc = "err" => pipe["out"] = 0
    /\ pc = "fork" => pipe["out"] = 0 /\ pipe["err"] = 0

Earned ==
    \/ /\ pc = "wait" /\ ~ alive
       /\ IsAnswer(pipe["out"]) /\ pipe["err"] = 0
    \/ /\ pc = "out"
       /\ IsAnswer(count + pipe["out"]) /\ pipe["err"] = 0
    \/ /\ pc = "err"
       /\ output = "answer" /\ count = 0 /\ pipe["err"] = 0

CountOK ==
    /\ solved = IF Earned THEN passed + 1 ELSE passed
    /\ pc = "done" => passed <= NumTests
    /\ pc # "done" => passed < test /\ test <= NumTests
    /\ empty_nodes > 0 => pc = "done"

IInv == TypesOK /\ BufferOK /\ PipesOK /\ CountOK

LEMMA InitInv == Init => IInv
<1> SUFFICES ASSUME Init PROVE IInv
  OBVIOUS
<1> USE LispWorkerAssumption DEF Init
<1>1. pipe["out"] = 0 /\ pipe["err"] = 0 /\ pipe \in [Streams -> Nat]
  BY DEF Empty, Streams
<1>2. TypesOK
  BY <1>1 DEF TypesOK
<1>3. BufferOK /\ PipesOK
  BY <1>1 DEF BufferOK, PipesOK, Streams
<1>4. ~ Earned
  BY DEF Earned
<1>5. CountOK
  BY <1>2, <1>4 DEF CountOK, TypesOK, NumTests
<1> QED BY <1>2, <1>3, <1>5 DEF IInv
-----------------------------------------------------------------------------
LEMMA ForkInv == IInv /\ Fork => IInv'
<1> SUFFICES ASSUME IInv, Fork PROVE IInv'
  OBVIOUS
<1> USE DEF IInv, Fork, reader
<1>1. TypesOK' /\ BufferOK' /\ PipesOK'
  BY DEF TypesOK, BufferOK, PipesOK, Streams
<1>2. ~ Earned /\ ~ Earned'
  BY DEF Earned
<1>3. CountOK'
  BY <1>2 DEF CountOK
<1> QED BY <1>1, <1>3

LEMMA WaitInv == IInv /\ Wait => IInv'
<1> SUFFICES ASSUME IInv, Wait PROVE IInv'
  OBVIOUS
<1> USE LispWorkerAssumption DEF IInv, Wait, NewBuffer
<1>1. TypesOK' /\ BufferOK' /\ PipesOK'
  BY DEF TypesOK, BufferOK, PipesOK, Streams
<1>2. pipe["out"] \in Nat /\ 0 + pipe["out"] = pipe["out"]
  BY DEF TypesOK, Streams
<1>3. Earned' <=> Earned
  BY <1>2 DEF Earned, IsAnswer
<1>4. CountOK'
  BY <1>3 DEF CountOK
<1> QED BY <1>1, <1>4

LEMMA ReadCharInv == IInv /\ ReadChar => IInv'
<1> SUFFICES ASSUME IInv, ReadChar PROVE IInv'
  OBVIOUS
<1> USE LispWorkerAssumption DEF IInv, ReadChar
<1>1. /\ pc \in Streams /\ pipe[pc] \in Nat \ {0}
      /\ pipe' = [pipe EXCEPT ![pc] = pipe[pc] - 1]
  BY DEF TypesOK
<1>2. /\ pipe' \in [Streams -> Nat]
      /\ \A s \in Streams : pipe'[s] = IF s = pc THEN pipe[s] - 1 ELSE pipe[s]
  BY <1>1 DEF TypesOK
<1>3. TypesOK'
  BY <1>2 DEF TypesOK
<1>4. BufferOK'
  BY <1>1 DEF TypesOK, BufferOK, IsFull
<1>5. PipesOK'
  BY <1>1, <1>2 DEF PipesOK, Streams
<1>6. Earned' <=> Earned
  <2>1. CASE pc = "out"
    <3>1. pipe'["err"] = pipe["err"] /\ count' + pipe'["out"] = count + pipe["out"]
      BY <1>1, <1>2, <2>1 DEF TypesOK, Streams
    <3> QED BY <2>1, <3>1 DEF Earned, IsAnswer
  <2>2. CASE pc = "err"
    <3>1. count' # 0 /\ pipe["err"] # 0
      BY <1>1, <2>2 DEF TypesOK
    <3> QED BY <2>2, <3>1 DEF Earned
  <2> QED BY <1>1, <2>1, <2>2 DEF Streams
<1>7. CountOK'
  BY <1>6 DEF CountOK
<1> QED BY <1>3, <1>4, <1>5, <1>7

(* An answer is recognised only if there is one.                           *)
LEMMA EndStdoutInv == IInv /\ EndStdout => IInv'
<1> SUFFICES ASSUME IInv, EndStdout PROVE IInv'
  OBVIOUS
<1> USE LispWorkerAssumption DEF IInv, EndStdout, NewBuffer, AtEof
<1>1. TypesOK' /\ BufferOK' /\ PipesOK'
  BY DEF TypesOK, BufferOK, PipesOK, Streams
<1>2. count + pipe["out"] = count /\ output = "none"
  BY DEF TypesOK, PipesOK
<1>3. output' = "answer" <=> IsAnswer(count)
  <2>1. CASE count = 0
    BY <1>2, <2>1 DEF AfterStdout, IsAnswer
  <2>2. CASE count # 0
    BY <2>2 DEF AfterStdout
  <2> QED BY <2>1, <2>2
<1>4. Earned' <=> Earned
  BY <1>2, <1>3 DEF Earned
<1>5. CountOK'
  BY <1>4 DEF CountOK
<1> QED BY <1>1, <1>5

LEMMA EndStderrInv == IInv /\ EndStderr => IInv'
<1> SUFFICES ASSUME IInv, EndStderr PROVE IInv'
  OBVIOUS
<1> USE DEF IInv, EndStderr, AtEof, reader
<1>1. /\ pc = "err" /\ pipe["out"] = 0 /\ pipe["err"] = 0
      /\ pc' \in {"fork", "done"} /\ pipe' = pipe
  BY DEF PipesOK
<1>2. TypesOK' /\ BufferOK' /\ PipesOK'
  BY <1>1 DEF TypesOK, BufferOK, PipesOK, Streams
<1>3. output' = "answer" <=> Earned
  BY <1>1 DEF AfterStderr, Earned, TypesOK
<1>4. ~ Earned'
  BY <1>1 DEF Earned
<1>5. CountOK'
  BY <1>1, <1>3, <1>4 DEF CountOK, TypesOK, NumTests
<1> QED BY <1>2, <1>5
-----------------------------------------------------------------------------
(* While the process lives, nothing is earned.                             *)
LEMMA ClispInv == IInv /\ ((\E s \in Streams : Write(s)) \/ (Leave /\ alive)) => IInv'
<1> SUFFICES ASSUME IInv, (\E s \in Streams : Write(s)) \/ (Leave /\ alive) PROVE IInv'
  OBVIOUS
<1> USE DEF IInv, reader
<1>1. CASE \E s \in Streams : Write(s)
  <2>1. PICK s \in Streams : Write(s)
    BY <1>1
  <2>2. /\ alive /\ alive' = alive /\ pc' = pc /\ pc = "wait"
        /\ pipe' \in [Streams -> Nat]
    BY <2>1 DEF Write, PipesOK, TypesOK
  <2>3. TypesOK' /\ BufferOK' /\ PipesOK'
    BY <2>1, <2>2 DEF Write, TypesOK, BufferOK, PipesOK, Streams
  <2>4. ~ Earned /\ ~ Earned'
    BY <2>2 DEF Earned
  <2>5. CountOK'
    BY <2>1, <2>2, <2>4 DEF Write, CountOK
  <2> QED BY <2>3, <2>5
<1>2. CASE Leave /\ alive
  <2>1. pc = "wait" /\ pc' = pc /\ ~ alive' /\ pipe' = pipe /\ answers' = answers
    BY <1>2 DEF Leave, PipesOK
  <2>2. TypesOK' /\ BufferOK' /\ PipesOK'
    BY <1>2, <2>1 DEF Leave, TypesOK, BufferOK, PipesOK, Streams
  <2>3. ~ Earned /\ (Earned' <=> IsAnswer(pipe["out"]) /\ pipe["err"] = 0)
    BY <1>2, <2>1 DEF Earned, IsAnswer
  <2>4. CountOK'
    BY <1>2, <2>1, <2>3 DEF Leave, CountOK
  <2> QED BY <2>2, <2>4
<1> QED BY <1>1, <1>2

LEMMA NextInv == IInv /\ [Next]_vars => IInv'
<1> SUFFICES ASSUME IInv, [Next]_vars PROVE IInv'
  OBVIOUS
<1>1. CASE Clisp \/ Die
  <2>1. (\E s \in Streams : Write(s)) \/ (Leave /\ alive)
    BY <1>1 DEF Clisp, Exit, Die
  <2> QED BY <2>1, ClispInv
<1>2. CASE UNCHANGED vars
  BY <1>2 DEF vars, reader, IInv, TypesOK, BufferOK, PipesOK, CountOK, Earned, IsAnswer
<1> QED BY <1>1, <1>2, ForkInv, WaitInv, ReadCharInv, EndStdoutInv, EndStderrInv
        DEF Next, Evaluation

LEMMA SpecInv == Spec => []IInv
<1> QED BY InitInv, NextInv, PTL DEF Spec

(* The terminating 0 always has its place, for every length of the output  *)
(* and every size of a chunk (lisp_worker.cpp:91-117).                     *)
THEOREM BufferHolds == Spec => []StoresInBuffer
<1>1. IInv => StoresInBuffer
  BY DEF IInv, TypesOK, BufferOK, StoresInBuffer
<1> QED BY <1>1, SpecInv, PTL

(* A fitness of 0 is earned: three nodes, all filled, both answers given   *)
(* and nothing else (fitness_fcn.cpp:3-26).                                *)
THEOREM ZeroIsEarned == Spec => []ZeroMeansSolved
<1>1. IInv => ZeroMeansSolved
  <2> SUFFICES ASSUME IInv, pc = "done"
               PROVE  Fitness = 0 <=> size = 3 /\ empty_nodes = 0 /\ solved = NumTests
    BY DEF ZeroMeansSolved
  <2>1. /\ solved = passed /\ passed \in 0 .. 2
        /\ size \in Nat /\ empty_nodes \in Nat
    BY DEF IInv, TypesOK, CountOK, Earned, NumTests
  <2>2. Distance(size) \in Nat /\ (Distance(size) = 0 <=> size = 3)
    BY <2>1 DEF Distance
  <2>3. (10 * (2 - passed)) \div 2 = 5 * (2 - passed)
    BY <2>1
  <2>4. CASE empty_nodes = 0
    <3>1. Fitness = 80 * Distance(size) + 5 * (2 - passed)
      BY <2>1, <2>2, <2>3, <2>4 DEF Fitness, NumTests
    <3> QED BY <2>1, <2>2, <2>4, <3>1 DEF NumTests
  <2>5. CASE empty_nodes # 0
    <3>1. Fitness = 80 * Distance(size) + 40 * empty_nodes
      BY <2>1, <2>2, <2>5 DEF Fitness
    <3> QED BY <2>1, <2>2, <2>5, <3>1
  <2> QED BY <2>4, <2>5
<1> QED BY <1>1, SpecInv, PTL
=============================================================================
