------------------------------ MODULE MCSemBuffer ------------------------------
(* Instances of SemBuffer for TLC. *)
EXTENDS SemBuffer

CONSTANTS w1, w2, w3, w4

\* More words than slots, all different, so that every confusion shows.
FourWords == <<w1, w2, w3, w4>>
===============================================================================
