------------------------------ MODULE MCAlarms ------------------------------
(* Instances of Alarms for TLC.                                            *)
EXTENDS Alarms, TLC

Symmetry == Permutations(Alarm)
=============================================================================
