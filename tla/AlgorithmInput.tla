--------------------------- MODULE AlgorithmInput ---------------------------
(* The input that the properties of Algorithms and TreeAlgorithms are      *)
(* about: a record of its kind and of what an input of that kind has.      *)
VARIABLE input

Is(kind) == input.kind = kind
=============================================================================
