--------------------------- MODULE MCDeclarations ---------------------------
(* Constants for checking Declarations: nothing tells the names apart.      *)
EXTENDS Declarations, TLC

CONSTANTS a, b, f

MCSymmetry == Permutations(Name)
=============================================================================
