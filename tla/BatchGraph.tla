----------------------------- MODULE BatchGraph -----------------------------
(***************************************************************************)
(* packages/coding-agent/src/task/batch-scheduler.ts, buildBatchGraph: who *)
(* waits for whom in a batch of tasks.  Both schedulers, of background and *)
(* of foreground tasks, run over this graph.  A task is its place in the   *)
(* call; a declared path is the set of files under it, so that a directory *)
(* overlaps its contents.                                                  *)
(***************************************************************************)
EXTENDS Integers, FiniteSets

CONSTANTS
    N,      \* how many tasks the call has
    Files   \* files the tasks may declare

ASSUME BatchAssumption == N \in Nat \ {0} /\ IsFiniteSet(Files)

Tasks == 1..N

Overlap(files, t, u) == files[t] \cap files[u] # {}

\* Mutant: what a task declares to change is left to chance.
ExplicitOnly(explicit, files) == explicit

\* Of two tasks that touch the same file the later one waits.
WithImplicit(explicit, files) ==
    [t \in Tasks |-> explicit[t] \cup {u \in Tasks : u < t /\ Overlap(files, u, t)}]

\* A batch with a cycle, an implicit blocker against an explicit one included, is refused.
Acyclic(graph) == \A S \in (SUBSET Tasks) \ {{}} : \E t \in S : graph[t] \cap S = {}

=============================================================================
