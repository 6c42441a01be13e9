--------------------------- MODULE MCInstanceLock ---------------------------
(***************************************************************************)
(* Three runs of the daemon: two of the same version and a newer one.       *)
(***************************************************************************)
EXTENDS InstanceLock, TLC

CONSTANTS a, b, c

MCProc == {a, b, c}
MCVersion == a :> 1 @@ b :> 1 @@ c :> 2
MCPid == a :> 2 @@ b :> 1 @@ c :> 3

\* Two ids for three runs: b is given the id of a, once a is dead.
MCRecycledPid == a :> 1 @@ b :> 1 @@ c :> 3

=============================================================================
