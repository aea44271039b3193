------------------------------ MODULE MCWatcher ------------------------------
(* Small instances of Watcher for TLC.                                     *)
EXTENDS Watcher, TLC

CONSTANTS p1, p2, k1, k2

ProcessSymmetry == Permutations(Processes)
=============================================================================
