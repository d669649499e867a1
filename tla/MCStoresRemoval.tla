--------------------------- MODULE MCStoresRemoval ---------------------------
(* Values for checking StoresRemoval: a local and a global with one name,   *)
(* a variable with a name of its own, and a temporary.                      *)
EXTENDS StoresRemoval, TLC

CONSTANTS local, global, var, temp

MCNameOf == local :> "n" @@ global :> "n" @@ var :> "var" @@ temp :> ""
=============================================================================
