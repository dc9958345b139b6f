----------------------------- MODULE TaskBatch -----------------------------
(***************************************************************************)
(* packages/coding-agent/src/task/index.ts, execute with background tasks: *)
(* a batch of subagent tasks that block each other, run as jobs of the     *)
(* session's job manager.  One JavaScript thread: a step is the code from  *)
(* one await to the next, except that scheduleReadyTasks, which does not   *)
(* wait, is one step per task it looks at; nothing else happens meanwhile  *)
(* (pumping).                                                              *)
(*                                                                         *)
(* Of the manager only what the batch sees of it is here: which jobs it    *)
(* counts as running, and whose signal it has aborted.                     *)
(***************************************************************************)
EXTENDS BatchGraph, Sequences

CONSTANTS
    MaxConcurrency, \* the setting task.maxConcurrency
    MaxRunning      \* the manager's maxRunningJobs

ASSUME LimitsAssumption == MaxConcurrency \in Nat /\ MaxRunning \in Nat \ {0}

VARIABLES
    filesDeps,  \* the files each task declares
    blockers,   \* batchGraph.blockersById, implicit blockers included
    outcome,    \* progress.status once the task is in completedTaskIds
    slots,      \* runningTaskIds
    waits,      \* remainingBlockers
    ready,      \* readyQueue
    pumping,    \* scheduleReadyTasks is running
    body,       \* where the job of a task is
    counted,    \* jobs the manager counts as running
    signalled,  \* jobs whose own signal is aborted
    others,     \* while pumping: how many other jobs the manager runs (a disposed one is full)
    aborted     \* the signal of the tool call

graphVars == <<filesDeps, blockers>>
jobVars == <<body, counted, signalled>>
vars == <<graphVars, outcome, slots, waits, ready, pumping, jobVars, others, aborted>>

-----------------------------------------------------------------------------
\* Sequences without repetition that list the set S.
Listings(S) ==
    {q \in [1..Cardinality(S) -> S] : \A i, j \in 1..Cardinality(S) : q[i] = q[j] => i = j}

\* The tasks nobody has to wait for, in the order of the call.
Roots(graph) ==
    {q \in Listings({t \in Tasks : graph[t] = {}}) : \A i, j \in DOMAIN q : i < j => q[i] < q[j]}

Init ==
    /\ filesDeps \in [Tasks -> SUBSET Files]
    /\ \E explicit \in [Tasks -> SUBSET Tasks] :
          blockers = WithImplicit(explicit, filesDeps)
    /\ Acyclic(blockers)
    /\ outcome = [t \in Tasks |-> "pending"]
    /\ slots = {}
    /\ waits = [t \in Tasks |-> Cardinality(blockers[t])]
    /\ ready \in Roots(blockers)
    /\ pumping = TRUE
    /\ body = [t \in Tasks |-> "none"]
    /\ counted = {}
    /\ signalled = {}
    /\ others \in 0..MaxRunning
    /\ aborted \in BOOLEAN

-----------------------------------------------------------------------------
(***************************************************************************)
(* Terminal outcomes.                                                      *)
(***************************************************************************)

\* markTaskTerminal: the first outcome of a task stays.
Mark(S, result, how) ==
    [t \in Tasks |-> IF t \in S /\ result[t] = "pending" THEN how ELSE result[t]]

\* Mutant: only those who wait for the failed task itself.
DirectDependents(t) == {d \in Tasks \ slots : outcome[d] = "pending" /\ t \in blockers[d]}

\* failDependents: who waits for t, directly or through others that fail with it.
Dependents(t) ==
    LET open == {d \in Tasks \ slots : outcome[d] = "pending"}
        Closed(S) == \A d \in open : blockers[d] \cap (S \cup {t}) # {} => d \in S
    IN  {d \in open : \A S \in SUBSET open : Closed(S) => d \in S}

\* The task t fails, and with it those that wait for it.
Failed(t) == Mark(Dependents(t), Mark({t}, outcome, "failed"), "failed")

\* abortPendingTasks.
NeverStarted == Mark(Tasks \ slots, outcome, "aborted")

-----------------------------------------------------------------------------
(***************************************************************************)
(* scheduleReadyTasks.                                                     *)
(***************************************************************************)

GiveUp ==
    /\ pumping /\ aborted
    /\ outcome' = NeverStarted
    /\ pumping' = FALSE
    /\ others' = 0
    /\ UNCHANGED <<graphVars, slots, waits, ready, jobVars, aborted>>

\* Mutant: the limit is looked at once too often.
MayPumpOneMore ==
    pumping /\ ~aborted /\ Cardinality(slots) <= MaxConcurrency /\ ready # <<>>

MayPump == pumping /\ ~aborted /\ Cardinality(slots) < MaxConcurrency /\ ready # <<>>

\* A task that has an outcome or a slot already would be passed over.  None ever waits
\* in the queue: the step would be stuck with it at its head, and BatchEnds fail.
Startable(t) == outcome[t] = "pending" /\ t \notin slots

ManagerHasRoom == Cardinality(counted) + others < MaxRunning

\* register runs the job up to its first await; all but the first wait their turn.
StartNext ==
    /\ MayPump
    /\ Startable(Head(ready))
    /\ ManagerHasRoom
    /\ LET t == Head(ready)
           first == \A u \in Tasks : body[u] = "none"
       IN  /\ slots' = slots \cup {t}
           /\ counted' = counted \cup {t}
           /\ body' = [body EXCEPT ![t] = IF first THEN "work" ELSE "stagger"]
    /\ ready' = Tail(ready)
    /\ UNCHANGED <<graphVars, outcome, waits, pumping, signalled, others, aborted>>

\* register throws: the task has failed.
StartThrows ==
    /\ MayPump
    /\ Startable(Head(ready))
    /\ ~ManagerHasRoom
    /\ outcome' = Failed(Head(ready))
    /\ ready' = Tail(ready)
    /\ UNCHANGED <<graphVars, slots, waits, pumping, jobVars, others, aborted>>

PumpEnds ==
    /\ pumping /\ ~aborted /\ ~MayPump
    /\ pumping' = FALSE
    /\ others' = 0
    /\ UNCHANGED <<graphVars, outcome, slots, waits, ready, jobVars, aborted>>

-----------------------------------------------------------------------------
(***************************************************************************)
(* The job of a task.                                                      *)
(***************************************************************************)

\* The stagger sleep is over.  A job that was aborted in it throws outside the block
\* that accounts for the task.
WakeUp(t) ==
    /\ ~pumping
    /\ body[t] = "stagger"
    /\ \/ /\ t \in signalled
          /\ body' = [body EXCEPT ![t] = "over"]
          /\ counted' = counted \ {t}
       \/ /\ t \notin signalled
          /\ body' = [body EXCEPT ![t] = "work"]
          /\ UNCHANGED counted
    /\ UNCHANGED <<graphVars, outcome, slots, waits, ready, pumping, signalled, others, aborted>>

\* Mutant: one blocker less is as good as none.
UnblockedEarly(t) == {d \in Tasks : outcome[d] = "pending" /\ t \in blockers[d]}

\* Mutant: the count is read before it is reduced.
UnblockedLate(t) == {d \in Tasks : outcome[d] = "pending" /\ t \in blockers[d] /\ waits[d] = 0}

\* Those for whom t was the last blocker.
Unblocked(t) == {d \in Tasks : outcome[d] = "pending" /\ t \in blockers[d] /\ waits[d] = 1}

\* Mutant: a task that failed keeps its slot.
KeptIfFailed(t) == IF outcome'[t] = "failed" THEN slots ELSE slots \ {t}

Released(t) == slots \ {t}

\* What every way out of the job's work does in the end.
Leave(t) ==
    /\ slots' = Released(t)
    /\ pumping' = TRUE
    /\ others' \in 0..MaxRunning
    /\ body' = [body EXCEPT ![t] = "report"]
    /\ UNCHANGED <<graphVars, counted, signalled, aborted>>

Working(t) == ~pumping /\ body[t] = "work"

Succeeds(t) ==
    /\ Working(t)
    /\ outcome' = Mark({t}, outcome, "completed")
    /\ \/ /\ ~aborted
          /\ waits' = [d \in Tasks |-> IF outcome[d] = "pending" /\ t \in blockers[d]
                                       THEN waits[d] - 1 ELSE waits[d]]
          /\ \E q \in Listings(Unblocked(t)) : ready' = ready \o q
       \/ /\ aborted
          /\ UNCHANGED <<waits, ready>>
    /\ Leave(t)

\* A result that says so, none at all, or an exception: the same, but that an exception
\* under an aborted call counts as an abort.
Fails(t) ==
    /\ Working(t)
    /\ \/ outcome' = Failed(t)
       \/ aborted /\ outcome' = Mark({t}, outcome, "aborted")
    /\ UNCHANGED <<waits, ready>>
    /\ Leave(t)

\* The subagent heeded the signal of its job, or submits of itself that it aborts.  Those
\* that wait for it are left alone.
IsAborted(t) ==
    /\ Working(t)
    /\ outcome' = Mark({t}, outcome, "aborted")
    /\ UNCHANGED <<waits, ready>>
    /\ Leave(t)

WorkEnds(t) == Succeeds(t) \/ Fails(t) \/ IsAborted(t)

\* The job has made its last report; until here the manager counts it.
Returns(t) ==
    /\ ~pumping
    /\ body[t] = "report"
    /\ body' = [body EXCEPT ![t] = "over"]
    /\ counted' = counted \ {t}
    /\ UNCHANGED <<graphVars, outcome, slots, waits, ready, pumping, signalled, others, aborted>>

-----------------------------------------------------------------------------
(***************************************************************************)
(* What comes from outside.                                                *)
(***************************************************************************)

\* The job is cancelled: it counts no more, though its work may go on.
Cancel(t) ==
    /\ ~pumping
    /\ t \in counted
    /\ signalled' = signalled \cup {t}
    /\ counted' = counted \ {t}
    /\ UNCHANGED <<graphVars, outcome, slots, waits, ready, pumping, body, others, aborted>>

\* The watchdog aborts the job, which counts until it returns or is given up.
Watchdog(t) ==
    /\ ~pumping
    /\ t \in counted
    /\ signalled' = signalled \cup {t}
    /\ UNCHANGED <<graphVars, outcome, slots, waits, ready, pumping, body, counted, others, aborted>>

\* The user interrupts the run that made the call; nothing listens until a task ends.
AbortCall ==
    /\ ~pumping
    /\ aborted' = TRUE
    /\ UNCHANGED <<graphVars, outcome, slots, waits, ready, pumping, jobVars, others>>

Pump == GiveUp \/ StartNext \/ StartThrows \/ PumpEnds

TaskStep(t) == WakeUp(t) \/ WorkEnds(t) \/ Returns(t) \/ Cancel(t) \/ Watchdog(t)

Next == Pump \/ (\E t \in Tasks : TaskStep(t)) \/ AbortCall

Spec == Init /\ [][Next]_vars

(***************************************************************************)
(* scheduleReadyTasks runs through, sleeps end, and so do the reports of a *)
(* job.  The work of a subagent owes nothing.                              *)
(***************************************************************************)
Fairness == WF_vars(Pump) /\ \A t \in Tasks : WF_vars(WakeUp(t)) /\ WF_vars(Returns(t))

FairSpec == Spec /\ Fairness

\* The work of every subagent ends.
WorkReturns == \A t \in Tasks : WF_vars(WorkEnds(t))

-----------------------------------------------------------------------------
(***************************************************************************)
(* Properties.                                                             *)
(***************************************************************************)

\* Every variable stays in its domain, and no more tasks hold a slot than the setting
\* allows.
TypeOK ==
    /\ filesDeps \in [Tasks -> SUBSET Files]
    /\ blockers \in [Tasks -> SUBSET Tasks]
    /\ outcome \in [Tasks -> {"pending", "completed", "failed", "aborted"}]
    /\ slots \subseteq Tasks /\ Cardinality(slots) <= MaxConcurrency
    /\ waits \in [Tasks -> Nat]
    /\ ready \in Seq(Tasks)
    /\ body \in [Tasks -> {"none", "stagger", "work", "report", "over"}]
    /\ counted \cup signalled \subseteq Tasks
    /\ others \in 0..MaxRunning
    /\ {pumping, aborted} \subseteq BOOLEAN

\* A task starts only when every task it waits for has completed, whatever failed, was
\* cancelled, refused by the manager or interrupted meanwhile.
BlockersFirst ==
    \A t \in Tasks : body[t] # "none" => \A b \in blockers[t] : outcome[b] = "completed"

\* Two tasks that declare the same file never work at the same time, not even when one
\* of them was cancelled and has not noticed yet.
FilesApart ==
    \A t, u \in Tasks : t # u /\ Overlap(filesDeps, t, u) =>
        ~ {body[t], body[u]} \subseteq {"stagger", "work"}

\* A slot is given back by every way out of a job but one: an abort in the stagger sleep.
SlotsHeld ==
    \A t \in slots : body[t] \in {"stagger", "work"} \/ (body[t] = "over" /\ t \in signalled)

\* Nobody goes on waiting for a task that failed, through however many others.
FailureReaches ==
    \A t, b \in Tasks : b \in blockers[t] /\ outcome[b] = "failed" => outcome[t] # "pending"

\* The first outcome of a task is its last: a failure of a blocker, an interrupt and the
\* task's own result never overrule each other.
OutcomeStays ==
    [][\A t \in Tasks : outcome[t] # "pending" => outcome'[t] = outcome[t]]_vars

Settled == \A t \in Tasks : outcome[t] # "pending"

\* The two ways a batch can be left hanging: a task waits for one that was aborted, or
\* was itself aborted in its stagger sleep.
Stranded ==
    \/ \E t, d \in Tasks : t \in blockers[d] /\ outcome[t] = "aborted" /\ outcome[d] = "pending"
    \/ \E t \in slots : body[t] = "over"

\* If the work of its subagents ends, every task of a batch gets an outcome, or the
\* batch is left hanging in one of the two ways above for ever: there is no third.
BatchEnds == WorkReturns => <>[](Settled \/ Stranded)

=============================================================================
