------------------------------ MODULE MCVolume --------------------------------
(* Small instances of Volume for TLC: days of three units, the third of      *)
(* which is longer, and months of two days.                                  *)
EXTENDS Volume, TLC

CONSTANTS p1, p2

LongDay == {0, 3, 6, 10, 13, 16, 19}
TwoDays == {0, 6, 13, 19}
AnyItems == {NoCount, 2}
DriftProblems == (-1 .. End) \X DriftType
ProcessSymmetry == Permutations(Processes)
=============================================================================
