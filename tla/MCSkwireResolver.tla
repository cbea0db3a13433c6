-------------------------- MODULE MCSkwireResolver --------------------------
(* SkwireResolver on every graph of up to MaxNodes nodes, for TLC. *)
EXTENDS SkwireResolver
CONSTANT MaxNodes
Names == 1 .. MaxNodes
=============================================================================
