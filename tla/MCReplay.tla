------------------------------ MODULE MCReplay ------------------------------
(* TLC instances of Replay.                                                *)
EXTENDS Replay

CONSTANTS a, b

\* Texts only matter through equality.
Symmetry == Permutations(Text)
=============================================================================
