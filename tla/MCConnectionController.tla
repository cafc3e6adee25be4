----------------------- MODULE MCConnectionController -----------------------
(* Small instances of ConnectionController. *)
EXTENDS ConnectionController, TLC

MCSymmetry == Permutations(Calls) \cup Permutations(Gens)
============================================================================
