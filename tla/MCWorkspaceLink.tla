------------------------- MODULE MCWorkspaceLink -------------------------
(* The instances TLC checks of the connection store. *)
EXTENDS WorkspaceLink
==========================================================================
