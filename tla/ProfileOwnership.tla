-------------------------- MODULE ProfileOwnership --------------------------
(***************************************************************************)
(* What the daemon's single-instance rule promises its callers: a run asks  *)
(* for a profile and is made its owner only while nobody owns it, or is     *)
(* denied; ownership ends for good, and never passes directly from one run  *)
(* to another.  Nothing is said of how an owner is made to leave.           *)
(***************************************************************************)
CONSTANT Run        \* runs of the daemon binary on one profile

VARIABLE standing   \* how each run stands to the profile

Init == standing = [r \in Run |-> "absent"]

Becomes(r, s) == standing' = [standing EXCEPT ![r] = s]

Ask(r) == standing[r] = "absent" /\ Becomes(r, "asking")

Own(r) ==
  /\ standing[r] = "asking"
  /\ \A q \in Run : standing[q] # "owner"
  /\ Becomes(r, "owner")

Deny(r) == standing[r] = "asking" /\ Becomes(r, "denied")

\* The owner stops, or any run ends.
Leave(r) == standing[r] \in {"asking", "owner", "denied"} /\ Becomes(r, "gone")

Next == \E r \in Run : Ask(r) \/ Own(r) \/ Deny(r) \/ Leave(r)

Spec == Init /\ [][Next]_standing

=============================================================================
