---------------------------- MODULE MCHashTable ----------------------------
(* Four keys in two of three buckets, so that chains of three form and one  *)
(* key has a chain of its own.                                              *)
EXTENDS HashTable, TLC

CONSTANTS k1, k2, k3, k4

MCHash == (k1 :> 0) @@ (k2 :> 0) @@ (k3 :> 0) @@ (k4 :> 2)

\* The code never looks into the data, so the objects are interchangeable.
DataSymmetry == Permutations(Data)
=============================================================================
