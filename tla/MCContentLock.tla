--------------------------- MODULE MCContentLock ---------------------------
(***************************************************************************)
(* Instances of ContentLock: calls of given kinds around the watcher.       *)
(***************************************************************************)
EXTENDS ContentLock, TLC

CONSTANTS c1, c2, c3, c4

\* A reader, what opens a session or decides on content, and what ends it.
MCCall == {c1, c2, c3}
MCKind ==
  (c1 :> {"read"}) @@ (c2 :> {"unlock", "revoke", "resume", "setup"}) @@ (c3 :> {"lock", "reset", "recovery"})

\* Whose failure matters to others: a decision that cannot be told, and a lost
\* session the watcher cannot learn of.
MCFailing == {"unlock", "revoke", "watch"}

\* A profile that is not in recovery when the daemon starts.
MCOpened == {f \in Facts : (f.session => f.initialized) /\ f.background}

\* A reader, and a session that is closed, opened and closed again.
MCStaleCall == {c1, c2, c3, c4}
MCStaleKind ==
  (c1 :> {"read"}) @@ (c2 :> {"lock"}) @@ (c3 :> {"resume"}) @@ (c4 :> {"lock"})

\* The session is unlocked by one request and locked by another.
MCPairCall == {c1, c2}
MCPairKind == (c1 :> {"unlock"}) @@ (c2 :> {"lock"})

=============================================================================
