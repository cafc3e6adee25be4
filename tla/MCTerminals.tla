----------------------------- MODULE MCTerminals -----------------------------
(* Small instances of Terminals. *)
EXTENDS Terminals, TLC

MCSymmetry == Permutations(Recs) \cup Permutations(Chans) \cup Permutations(Calls)
              \cup Permutations(Sessions)
=============================================================================
