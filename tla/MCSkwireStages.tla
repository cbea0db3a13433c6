--------------------------- MODULE MCSkwireStages ---------------------------
(* A small instance of SkwireStages for TLC. *)
EXTENDS SkwireStages, TLC
CONSTANTS r1, r2, resolve, mint, wire

RunSymmetry == Permutations(Run)
ThreeStages == <<resolve, mint, wire>>
=============================================================================
