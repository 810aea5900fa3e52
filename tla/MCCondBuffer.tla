------------------------------ MODULE MCCondBuffer ------------------------------
(* Instances of CondBuffer for TLC. *)
EXTENDS CondBuffer, TLC

CONSTANTS w1, w2, w3, w4

\* All words different, so that every confusion shows.
FourWords == <<w1, w2, w3, w4>>

Symmetry == Permutations(Producer) \cup Permutations(Consumer)
===============================================================================
