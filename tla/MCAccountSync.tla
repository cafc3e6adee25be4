--------------------------- MODULE MCAccountSync ---------------------------
(* Small instances of AccountSync. *)
EXTENDS AccountSync, TLC

CONSTANTS d1, d2, f1, f2

\* Sound while no field tells the devices apart.
MCSymmetry == Permutations(Devices) \cup Permutations(Aliases)

\* Each device's host model knows one field the other does not.
MCOwned == (d1 :> {f1} \cap Fields) @@ (d2 :> {f2} \cap Fields)
============================================================================
