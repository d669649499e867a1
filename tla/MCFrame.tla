------------------------------ MODULE MCFrame ------------------------------
(* Constants for checking Frame: a function without locals, one with more   *)
(* than its frame covers, and main.                                         *)
EXTENDS Frame

MCNLocals == <<0, NREG + 2, 1>>
=============================================================================
