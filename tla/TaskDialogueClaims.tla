------------------------- MODULE TaskDialogueClaims -------------------------
(***************************************************************************)
(* What comments say of foreground batches, for a run that shows where the *)
(* code does otherwise.                                                    *)
(***************************************************************************)
EXTENDS TaskDialogue

\* task/index.ts, after `await scheduleBatch`: "All runners finished: unpark any
\* still-blocking asks so workers don't hang."
AllRunnersFinished == loop = "over" => Running = {}

=============================================================================
