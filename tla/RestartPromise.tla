--------------------------- MODULE RestartPromise ---------------------------
(***************************************************************************)
(* What a daemon's restart coordinator and its exit promise together: one   *)
(* restart is pending at a time and no restart is accepted twice; the       *)
(* pending one may be given up, until it is handed over to the successor,   *)
(* which happens once and for good.  Nothing is said of leases, of who asks  *)
(* or of when the daemon ends.                                               *)
(***************************************************************************)
EXTENDS Naturals

CONSTANTS
  Target,    \* residencies a daemon can be promoted to
  None       \* no restart

VARIABLES
  pending,   \* the restart that was accepted last and still stands
  last,      \* the generation of the last restart accepted
  record     \* what the successor will find

Init == pending = None /\ last = 0 /\ record = None

Accept(t) ==
  /\ pending = None
  /\ last' = last + 1
  /\ pending' = [target |-> t, generation |-> last + 1]
  /\ UNCHANGED record

GiveUp ==
  /\ pending # None /\ record = None
  /\ pending' = None
  /\ UNCHANGED <<last, record>>

HandOver ==
  /\ pending # None /\ record = None
  /\ record' = pending
  /\ UNCHANGED <<pending, last>>

Next == (\E t \in Target : Accept(t)) \/ GiveUp \/ HandOver

Spec == Init /\ [][Next]_<<pending, last, record>>

=============================================================================
