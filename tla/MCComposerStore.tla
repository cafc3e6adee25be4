------------------------- MODULE MCComposerStore -------------------------
(* The instance TLC checks of the composer store. *)
EXTENDS ComposerStore
==========================================================================
