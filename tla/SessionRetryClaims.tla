------------------------- MODULE SessionRetryClaims -------------------------
(***************************************************************************)
(* What a comment of agent-session.ts says of the retry, for a run that    *)
(* shows where the code does otherwise.                                    *)
(***************************************************************************)
EXTENDS SessionRetry

\* "Ensure only one promise exists (avoid orphaned promises from concurrent calls)": the
\* promise of a live chain always has something under way that can resolve it, in
\* whatever order the extensions are through with the events of the runs.
NeverOrphaned == chain => EndInSight

=============================================================================
