---------------------------- MODULE MCPortForwards ----------------------------
(* Small instances of PortForwards: an ordinary port, an automatic port, and *)
(* one of the SSH configuration.                                             *)
EXTENDS PortForwards
=============================================================================
