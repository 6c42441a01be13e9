---------------------------- MODULE MCMobileLan ----------------------------
(***************************************************************************)
(* Two ports, and as many changes of the settings as it takes to ask for   *)
(* one port, for the other and for none.                                   *)
(***************************************************************************)
EXTENDS MobileLan, TLC

CONSTANTS p1, p2

MCPorts == {p1, p2}
=============================================================================
