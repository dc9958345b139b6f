------------------------------ MODULE TaskPump ------------------------------
(***************************************************************************)
(* packages/coding-agent/src/task/batch-scheduler.ts, scheduleBatch, over  *)
(* swarm-scheduler.ts, pump: a batch of foreground tasks, which the tool   *)
(* call waits for.  Two accounts are kept of the tasks: status, in the     *)
(* nodes of the scheduler, and results, which the call returns.            *)
(*                                                                         *)
(* A step is the code from one await to the next.  The work of a task ends *)
(* together with the few continuations that take it off the lists; the     *)
(* loop that waits for the first to end may see several of them at once.   *)
(***************************************************************************)
EXTENDS BatchGraph

CONSTANT MaxConcurrency   \* the setting task.maxConcurrency; 0 is no limit

ASSUME PumpAssumption == MaxConcurrency \in Nat

VARIABLES
    filesDeps,  \* the files each task declares
    blockers,   \* blockersById, which the scheduler's own graph is built from
    status,     \* node.status; a task that runs is still "pending" in it
    results,    \* what became of each task for the call
    body,       \* where runNode is; one that is under way is in running and inFlight
    loop,       \* the loop of pump: waiting, woken by the end of a task, or over
    aborted     \* the signal of the tool call

pumpVars == <<filesDeps, blockers, status, results, body, loop, aborted>>

\* Mutant: the number of tasks is the limit.
NoLimit == N

\* clampConcurrency.
Limit == IF MaxConcurrency \in 1..N THEN MaxConcurrency ELSE N

Running == {t \in Tasks : body[t] \in {"stagger", "work"}}

\* The first k of a set of tasks, in the order of the call.
FirstOf(k, S) == {t \in S : Cardinality({u \in S : u < t}) < k}

\* Mutant: the first blocker that completes is enough.
ReadyAfterFirst(st) ==
    {t \in Tasks : st[t] = "pending" /\ (blockers[t] = {} \/ \E b \in blockers[t] : st[b] = "completed")}

\* getReadyNodeIds.
ReadyIds(st) ==
    {t \in Tasks : st[t] = "pending" /\ \A b \in blockers[t] : st[b] = "completed"}

\* pump: start what is ready, as far as the limit goes; all but the first wait their turn.
Launch(st, b) ==
    LET idle  == {t \in ReadyIds(st) : b[t] = "none"}
        busy  == Cardinality({t \in Tasks : b[t] \in {"stagger", "work"}})
        chosen == FirstOf(Limit - busy, idle)
        first == \A t \in Tasks : b[t] = "none"
    IN  [t \in Tasks |->
            IF t \notin chosen THEN b[t]
            ELSE IF first /\ t \in FirstOf(1, chosen) THEN "work" ELSE "stagger"]

\* scheduleBatch once pump has returned: who has no result was cancelled before its start.
FillIn == [t \in Tasks |-> IF results[t] = "none" THEN "cancelled" ELSE results[t]]

\* cascadePendingAbort: those that wait; the running ones are left to themselves.
CascadeAbort ==
    [t \in Tasks |-> IF status[t] = "pending" /\ t \notin Running THEN "aborted" ELSE status[t]]

Undecided == [t \in Tasks |-> "pending"]

Unstarted == [t \in Tasks |-> "none"]

\* A call that is aborted beforehand gets no further than a first look at the signal.
Init ==
    /\ filesDeps \in [Tasks -> SUBSET Files]
    /\ \E explicit \in [Tasks -> SUBSET Tasks] :
          blockers = WithImplicit(explicit, filesDeps)
    /\ Acyclic(blockers)
    /\ \/ /\ aborted = FALSE
          /\ status = Undecided
          /\ results = Unstarted
          /\ body = Launch(Undecided, Unstarted)
          /\ loop = "waiting"
       \/ /\ aborted = TRUE
          /\ status = [t \in Tasks |-> "aborted"]
          /\ results = [t \in Tasks |-> "cancelled"]
          /\ body = Unstarted
          /\ loop = "over"

-----------------------------------------------------------------------------
\* The loop turns: it looks at the signal, starts what has become ready, and is over
\* when nothing is under way.
LoopTurns ==
    /\ loop = "woken"
    /\ \/ /\ aborted
          /\ status' = CascadeAbort
          /\ results' = FillIn
          /\ loop' = "over"
          /\ UNCHANGED body
       \/ /\ ~aborted
          /\ body' = Launch(status, body)
          /\ \/ /\ Running' # {}
                /\ loop' = "waiting"
                /\ UNCHANGED results
             \/ /\ Running' = {}
                /\ loop' = "over"
                /\ results' = FillIn
          /\ UNCHANGED status
    /\ UNCHANGED <<filesDeps, blockers, aborted>>

\* Mutant: only a task that changed its node wakes the loop.
WakeOnChange == loop' = IF loop = "waiting" /\ status' # status THEN "woken" ELSE loop

\* Promise.race over the promises of inFlight has settled.
Wake == loop' = IF loop = "waiting" THEN "woken" ELSE loop

\* Mutant: only the node is marked, its dependents stay.
NodeFails(t) == [status EXCEPT ![t] = "failed"]

\* markFailed with #cascadeFailure: whoever waits for t, directly or through others.
NodesFail(t) ==
    LET open == {d \in Tasks : status[d] = "pending"}
        Closed(S) == \A d \in open : blockers[d] \cap (S \cup {t}) # {} => d \in S
    IN  [d \in Tasks |->
            IF d = t \/ (d \in open /\ \A S \in SUBSET open : Closed(S) => d \in S)
            THEN "failed" ELSE status[d]]

\* failDependents, the same for the results.
ResultsFail(t) ==
    LET open == {d \in Tasks : results[d] = "none"}
        Closed(S) == \A d \in open : blockers[d] \cap (S \cup {t}) # {} => d \in S
    IN  [d \in Tasks |->
            IF d \in open /\ (d = t \/ \A S \in SUBSET open : Closed(S) => d \in S)
            THEN "failed" ELSE results[d]]

\* finish: the first result of a task stays.
Finish(t, how) == [results EXCEPT ![t] = IF @ = "none" THEN how ELSE @]

\* runTask returns a result, which may say that the agent failed or was aborted: for the
\* scheduler the task has completed all the same.
Returns(t) ==
    /\ body[t] = "work"
    /\ \E how \in {"success", "failure"} : results' = Finish(t, how)
    /\ status' = [status EXCEPT ![t] = "completed"]

\* runTask throws, or the stagger sleep ends in an aborted call.
Throws(t) ==
    \/ /\ aborted
       /\ results' = Finish(t, "aborted")
       /\ UNCHANGED status
    \/ /\ ~aborted
       /\ results' = ResultsFail(t)
       /\ status' = NodesFail(t)

WorkEnds(t) ==
    /\ \/ Returns(t)
       \/ body[t] = "work" /\ Throws(t)
    /\ body' = [body EXCEPT ![t] = "over"]
    /\ Wake
    /\ UNCHANGED <<filesDeps, blockers, aborted>>

SleepEnds(t) ==
    /\ body[t] = "stagger"
    /\ \/ /\ ~aborted
          /\ body' = [body EXCEPT ![t] = "work"]
          /\ UNCHANGED <<status, results, loop>>
       \/ /\ aborted
          /\ Throws(t)
          /\ body' = [body EXCEPT ![t] = "over"]
          /\ Wake
    /\ UNCHANGED <<filesDeps, blockers, aborted>>

\* The user interrupts the run that made the call.
AbortCall ==
    /\ aborted' = TRUE
    /\ UNCHANGED <<filesDeps, blockers, status, results, body, loop>>

Next ==
    \/ LoopTurns \/ AbortCall
    \/ \E t \in Tasks : WorkEnds(t) \/ SleepEnds(t)

Spec == Init /\ [][Next]_pumpVars

-----------------------------------------------------------------------------
(***************************************************************************)
(* Properties.                                                             *)
(***************************************************************************)

\* Every variable stays in its domain, and no more tasks run than the setting allows.
TypeOK ==
    /\ filesDeps \in [Tasks -> SUBSET Files]
    /\ blockers \in [Tasks -> SUBSET Tasks]
    /\ status \in [Tasks -> {"pending", "completed", "failed", "aborted"}]
    /\ results \in [Tasks -> {"none", "success", "failure", "failed", "aborted", "cancelled"}]
    /\ body \in [Tasks -> {"none", "stagger", "work", "over"}]
    /\ MaxConcurrency \in 1..N => Cardinality(Running) <= MaxConcurrency
    /\ loop \in {"waiting", "woken", "over"}
    /\ aborted \in BOOLEAN

\* The two accounts agree until the call is interrupted: the scheduler's cascade over its
\* nodes and the one over the results fail the same tasks, and complete the same.
AccountsAgree ==
    ~aborted => \A t \in Tasks :
        /\ status[t] = "failed" <=> results[t] = "failed"
        /\ status[t] = "completed" <=> results[t] \in {"success", "failure"}

\* A task starts only when every task it waits for has returned.
WaitsForBlockers ==
    \A t \in Tasks : body[t] # "none" =>
        \A b \in blockers[t] : results[b] \in {"success", "failure"}

=============================================================================
