-------------------------- MODULE MCLinkCapability --------------------------
(* The instances TLC checks of the link transport. *)
EXTENDS LinkCapability
=============================================================================
