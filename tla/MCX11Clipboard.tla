--------------------------- MODULE MCX11Clipboard ---------------------------
(* The applications are interchangeable.                                     *)
EXTENDS X11Clipboard, TLC

Symmetry == Permutations(Apps)
=============================================================================
