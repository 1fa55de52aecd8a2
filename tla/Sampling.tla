------------------------------- MODULE Sampling -------------------------------
(* The steps of the genetic algorithm that the Logger takes note of.       *)
EXTENDS Integers

CONSTANTS
    GaSteps,             \* run->ga_steps
    FitnessLogInterval   \* run->fitness_log_interval

ASSUME SamplingAssumption == GaSteps \in Nat /\ FitnessLogInterval \in Nat \ {0}

(* The first and the last step, and every fitness_log_interval-th one.     *)
ShouldSample(step) ==
    \/ step <= 0
    \/ step = GaSteps - 1
    \/ (step + 1) % FitnessLogInterval = 0
=============================================================================
