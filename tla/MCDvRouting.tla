---------------------------- MODULE MCDvRouting ----------------------------
(* Instances of DvRouting for TLC.                                         *)
EXTENDS DvRouting, TLC

Symmetry == Permutations(Node)
=============================================================================
