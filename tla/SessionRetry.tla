---------------------------- MODULE SessionRetry ----------------------------
(***************************************************************************)
(* The automatic retry of a session of the coding agent                    *)
(* (coding-agent/src/session/agent-session.ts): prompts, the runs of the   *)
(* agent they start, the handlers of the events of those runs, the backoff *)
(* after a transient error, the deferred continuation, and abort().        *)
(*                                                                         *)
(* The code runs on one JavaScript thread: an action is the code between   *)
(* two awaits.  A handler of an event first awaits the extensions          *)
(* (#emitSessionEvent), for as long as they like and in any order: a run   *)
(* may end, and its agent_end be handled, before its message_end is.       *)
(*                                                                         *)
(* A run is named by its number and stands for its last assistant message  *)
(* too.  Compaction, stream rules, handoff, usage-limit fallbacks and the  *)
(* mode that retries for ever are left out; a run has one assistant        *)
(* message.                                                                *)
(***************************************************************************)
EXTENDS Integers, FiniteSets

CONSTANTS
    Prompts,      \* calls of prompt() the user may make
    MaxRetries,   \* settings: retry.maxRetries
    MaxRuns,      \* bound: runs of the agent
    MaxFailures,  \* bound: runs that end in an error
    MaxAborts,    \* bound: calls of abort() and abortRetry()
    MaxUnseen     \* bound: messages that extensions are not through with, as a run answers

ASSUME RetryAssumption ==
    /\ MaxUnseen \in Nat
    /\ MaxRetries \in Nat /\ MaxRuns \in Nat /\ MaxFailures \in Nat /\ MaxAborts \in Nat

VARIABLES
    generation,  \* #promptGeneration
    attempt,     \* #retryAttempt
    bounded,     \* #boundedRetryAttempt
    chain,       \* #retryPromise is there
    sleeper,     \* the run whose handler owns #retryAbortController, or 0
    signalled,   \* runs whose handler's controller has been aborted
    runs,        \* runs of the agent so far
    running,     \* the run that streams, or 0
    stopping,    \* its abort signal
    outcome,     \* how the message of a run ended
    tail,        \* the run whose answer is last in agent.state.messages, 0: no answer is
    last,        \* #lastAssistantMessage, or 0
    message,     \* the handler of each run's message_end
    end,         \* the handler of each run's agent_end
    captured,    \* the generation that handler read
    astray,      \* history: such a handler has judged the message of an earlier run
    task,        \* the continuation it scheduled
    cancelled,   \* continuations scheduled under an aborted controller
    tracked,     \* #postPromptTaskIds
    forced,      \* continuations whose #forceEndRetryChain is under way
    pc,          \* where each prompt is
    asked,       \* the generation each prompt read
    inFlight,    \* #promptInFlightCount
    starter,     \* who awaits each run: a prompt, or the run whose handler retries
    aborting,    \* an abort() waits for the agent to become idle
    aborts       \* calls of abort() and abortRetry() so far

retryVars == <<attempt, bounded, chain, sleeper, signalled>>
agentVars == <<runs, running, stopping, outcome, starter>>
handlerVars == <<last, message, end, captured, astray>>
taskVars == <<task, cancelled, tracked, forced>>
promptVars == <<pc, asked, inFlight>>
abortVars == <<generation, aborting, aborts>>
vars == <<retryVars, agentVars, tail, handlerVars, taskVars, promptVars, abortVars>>

Runs == 1..MaxRuns
Outcomes == {"ok", "transient", "fatal", "aborted"}

Init ==
    /\ generation = 0 /\ attempt = 0 /\ bounded = 0 /\ chain = FALSE
    /\ sleeper = 0 /\ signalled = {}
    /\ runs = 0 /\ running = 0 /\ stopping = FALSE /\ tail = 0 /\ last = 0
    /\ outcome = [r \in Runs |-> "none"]
    /\ starter = [r \in Runs |-> 0]
    /\ message = [r \in Runs |-> "none"] /\ end = [r \in Runs |-> "none"]
    /\ captured = [r \in Runs |-> 0] /\ astray = FALSE
    /\ task = [r \in Runs |-> "none"] /\ cancelled = {} /\ tracked = {} /\ forced = {}
    /\ pc = [p \in Prompts |-> "idle"] /\ asked = [p \in Prompts |-> 0] /\ inFlight = 0
    /\ aborting = FALSE /\ aborts = 0

(***************************************************************************)
(* The chain of retries                                                    *)
(***************************************************************************)
\* #resolveRetry: whoever waits for the chain is released.
Resolve == chain' = FALSE /\ bounded' = 0

\* The abort of the controller that is installed, if one is.
Signalled == IF sleeper = 0 THEN signalled ELSE signalled \cup {sleeper}

ChainIsLive == attempt > 0 \/ chain

\* The part of #forceEndRetryChain before its await.
ForceEnd == signalled' = Signalled /\ sleeper' = 0 /\ attempt' = 0

(***************************************************************************)
(* Runs of the agent                                                       *)
(***************************************************************************)
Start(who) ==
    /\ runs < MaxRuns
    /\ runs' = runs + 1
    /\ running' = runs + 1
    /\ stopping' = FALSE
    /\ starter' = [starter EXCEPT ![runs + 1] = who]
    /\ UNCHANGED outcome

\* The assistant message of the run is complete.
Answer ==
    /\ running # 0 /\ outcome[running] = "none"
    /\ Cardinality({r \in Runs : message[r] = "emitting"}) < MaxUnseen
    /\ \E o \in Outcomes :
          /\ (o = "aborted") <=> stopping
          /\ o \in {"transient", "fatal"} =>
                Cardinality({r \in Runs : outcome[r] \in {"transient", "fatal"}}) < MaxFailures
          /\ outcome' = [outcome EXCEPT ![running] = o]
    /\ tail' = running
    /\ message' = [message EXCEPT ![running] = "emitting"]
    /\ UNCHANGED <<runs, running, stopping, starter, last, end, captured, astray,
                   retryVars, taskVars, promptVars, abortVars>>

\* The run is over: its agent_end is emitted, and whoever awaited it goes on.
RunEnds ==
    /\ running # 0 /\ outcome[running] # "none"
    /\ running' = 0
    /\ stopping' = FALSE
    /\ end' = [end EXCEPT ![running] = "emitting"]
    /\ IF starter[running] \in Prompts
       THEN /\ pc' = [pc EXCEPT ![starter[running]] = "recovering"]
            /\ UNCHANGED taskVars
       ELSE /\ task' = [task EXCEPT ![starter[running]] = "over"]
            /\ tracked' = tracked \ {starter[running]}
            /\ UNCHANGED <<cancelled, forced, pc>>
    /\ UNCHANGED <<runs, outcome, starter, tail, last, message, captured, astray, asked, inFlight,
                   retryVars, abortVars>>

(***************************************************************************)
(* The handler of message_end                                              *)
(***************************************************************************)
MessageSeen(r) ==
    /\ message[r] = "emitting"
    /\ last' = r
    /\ message' = [message EXCEPT ![r] =
           IF outcome[r] = "ok" /\ attempt > 0 THEN "succeeding" ELSE "over"]
    /\ UNCHANGED <<end, captured, astray, agentVars, tail, retryVars, taskVars, promptVars, abortVars>>

SuccessTold(r) ==
    /\ message[r] = "succeeding"
    /\ message' = [message EXCEPT ![r] = "over"]
    /\ attempt' = 0
    /\ Resolve
    /\ UNCHANGED <<sleeper, signalled, last, end, captured, astray, agentVars, tail,
                   taskVars, promptVars, abortVars>>

(***************************************************************************)
(* The handler of agent_end                                                *)
(***************************************************************************)
\* The message the handler judges: the last one seen, or else the run's own.
Judged(r) == IF last # 0 THEN last ELSE r

\* It is taken off #lastAssistantMessage.
Taken(r) == last' = 0 /\ astray' = (astray \/ (last # 0 /\ last < r))

\* #handleRetryableError up to its first await: the attempt is counted, and the chain is
\* given up when the limit is passed.
Transient(r) ==
    /\ end[r] = "emitting" /\ outcome[Judged(r)] = "transient"
    /\ Taken(r)
    /\ captured' = [captured EXCEPT ![r] = generation]
    /\ attempt' = attempt + 1
    /\ bounded' = bounded + 1
    /\ chain' = TRUE
    /\ end' = [end EXCEPT ![r] = IF bounded + 1 > MaxRetries THEN "giving" ELSE "starting"]
    /\ UNCHANGED <<sleeper, signalled, message, agentVars, tail, taskVars, promptVars, abortVars>>

\* An error that is not retried ends the chain that is live.
Fatal(r) ==
    /\ end[r] = "emitting" /\ outcome[Judged(r)] = "fatal" /\ ChainIsLive
    /\ Taken(r)
    /\ ForceEnd
    /\ end' = [end EXCEPT ![r] = "forcing"]
    /\ UNCHANGED <<bounded, chain, message, captured, agentVars, tail,
                   taskVars, promptVars, abortVars>>

NothingToRetry(r) ==
    /\ end[r] = "emitting"
    /\ \/ outcome[Judged(r)] \in {"ok", "aborted"}
       \/ outcome[Judged(r)] = "fatal" /\ ~ChainIsLive
    /\ Taken(r)
    /\ end' = [end EXCEPT ![r] = "over"]
    /\ UNCHANGED <<message, captured, retryVars, agentVars, tail, taskVars, promptVars, abortVars>>

\* auto_retry_start has been told: the last answer leaves the agent's state, the
\* controller that is installed is aborted, and the handler sleeps under its own.
BackOff(r) ==
    /\ end[r] = "starting"
    /\ tail' = 0
    /\ signalled' = Signalled
    /\ sleeper' = r
    /\ end' = [end EXCEPT ![r] = "sleeping"]
    /\ UNCHANGED <<attempt, bounded, chain, last, message, captured, astray, agentVars,
                   taskVars, promptVars, abortVars>>

\* The sleep is over: the continuation is scheduled.
WakeUp(r) ==
    /\ end[r] = "sleeping" /\ r \notin signalled
    /\ sleeper' = 0
    /\ end' = [end EXCEPT ![r] = "over"]
    /\ task' = [task EXCEPT ![r] = "delayed"]
    /\ tracked' = tracked \cup {r}
    /\ UNCHANGED <<attempt, bounded, chain, signalled, last, message, captured, astray, cancelled,
                   forced, agentVars, tail, promptVars, abortVars>>

SleepCancelled(r) ==
    /\ end[r] = "sleeping" /\ r \in signalled
    /\ attempt' = 0
    /\ sleeper' = 0
    /\ end' = [end EXCEPT ![r] = "cancelling"]
    /\ UNCHANGED <<bounded, chain, signalled, last, message, captured, astray, agentVars, tail,
                   taskVars, promptVars, abortVars>>

\* auto_retry_end has been told: the handler resolves the chain that is live now.
ChainEnds(r) ==
    /\ end[r] \in {"giving", "cancelling", "forcing"}
    /\ attempt' = IF end[r] = "giving" THEN 0 ELSE attempt
    /\ Resolve
    /\ end' = [end EXCEPT ![r] = "over"]
    /\ UNCHANGED <<sleeper, signalled, last, message, captured, astray, agentVars, tail,
                   taskVars, promptVars, abortVars>>

(***************************************************************************)
(* The deferred continuation                                               *)
(***************************************************************************)

\* Mutant: the task stays among those that prompts wait for.
StaysTracked(r) == task' = [task EXCEPT ![r] = "over"] /\ UNCHANGED tracked

TaskOver(r) == task' = [task EXCEPT ![r] = "over"] /\ tracked' = tracked \ {r}

\* A continuation cancelled in its delay tells nobody.
TaskDropped(r) ==
    /\ task[r] = "delayed" /\ r \in cancelled
    /\ TaskOver(r)
    /\ UNCHANGED <<cancelled, forced, retryVars, agentVars, tail, handlerVars,
                   promptVars, abortVars>>

MayContinue(r) == captured[r] = generation /\ running = 0 /\ tail = 0

Continue(r) ==
    /\ task[r] = "delayed" /\ r \notin cancelled /\ MayContinue(r)
    /\ Start(r)
    /\ task' = [task EXCEPT ![r] = "running"]
    /\ UNCHANGED <<cancelled, tracked, forced, retryVars, tail, handlerVars,
                   promptVars, abortVars>>

\* Mutant: nobody hears of a continuation that is skipped or fails.
SkipsSilently(r) ==
    /\ task[r] = "delayed" /\ r \notin cancelled /\ ~MayContinue(r)
    /\ TaskOver(r)
    /\ UNCHANGED <<cancelled, forced, retryVars, agentVars, tail, handlerVars,
                   promptVars, abortVars>>

\* The generation has moved on (onSkip), or continue() throws: the agent is busy, or an
\* answer is last in its messages (onError).
CannotContinue(r) ==
    /\ task[r] = "delayed" /\ r \notin cancelled /\ ~MayContinue(r)
    /\ TaskOver(r)
    /\ IF ChainIsLive
       THEN ForceEnd /\ forced' = forced \cup {r}
       ELSE UNCHANGED <<attempt, sleeper, signalled, forced>>
    /\ UNCHANGED <<bounded, chain, cancelled, agentVars, tail, handlerVars,
                   promptVars, abortVars>>

ForcedEnd(r) ==
    /\ r \in forced
    /\ forced' = forced \ {r}
    /\ Resolve
    /\ UNCHANGED <<attempt, sleeper, signalled, task, cancelled, tracked, agentVars, tail,
                   handlerVars, promptVars, abortVars>>

(***************************************************************************)
(* prompt()                                                                *)
(***************************************************************************)
\* Mutant: the count is not held at zero after an abort has cleared it.
OneLess(n) == n - 1

\* Math.max(0, n - 1): an abort may have cleared the count already.
Fewer(n) == IF n > 0 THEN n - 1 ELSE 0

Leave(p) == pc' = [pc EXCEPT ![p] = "over"] /\ inFlight' = Fewer(inFlight)

\* A prompt is taken while the session does not stream; its set-up awaits the key, a
\* check for compaction and the extensions.
Prompt(p) ==
    /\ pc[p] = "idle" /\ running = 0 /\ inFlight = 0
    /\ pc' = [pc EXCEPT ![p] = "preparing"]
    /\ asked' = [asked EXCEPT ![p] = generation]
    /\ inFlight' = inFlight + 1
    /\ UNCHANGED <<retryVars, agentVars, tail, handlerVars, taskVars, abortVars>>

Superseded(p) ==
    /\ pc[p] = "preparing" /\ asked[p] # generation
    /\ Leave(p)
    /\ UNCHANGED <<asked, retryVars, agentVars, tail, handlerVars, taskVars, abortVars>>

\* The messages of the prompt are appended and its run starts; a prompt that waited for
\* the agent to become idle does not read the generation again.
Send(p) ==
    /\ \/ pc[p] = "preparing" /\ asked[p] = generation
       \/ pc[p] = "waiting"
    /\ running = 0
    /\ Start(p)
    /\ tail' = 0
    /\ pc' = [pc EXCEPT ![p] = "running"]
    /\ UNCHANGED <<asked, inFlight, retryVars, handlerVars, taskVars, abortVars>>

AgentBusy(p) ==
    /\ pc[p] = "preparing" /\ asked[p] = generation /\ running # 0
    /\ pc' = [pc EXCEPT ![p] = "waiting"]
    /\ UNCHANGED <<asked, inFlight, retryVars, agentVars, tail, handlerVars, taskVars, abortVars>>

\* The agent is still busy after thirty seconds: prompt() throws.
WaitExpires(p) ==
    /\ pc[p] = "waiting" /\ running # 0
    /\ Leave(p)
    /\ UNCHANGED <<asked, retryVars, agentVars, tail, handlerVars, taskVars, abortVars>>

\* #waitForPostPromptRecovery finds nothing left to wait for.
Recovered(p) ==
    /\ pc[p] = "recovering" /\ ~chain /\ tracked = {} /\ running = 0
    /\ Leave(p)
    /\ UNCHANGED <<asked, retryVars, agentVars, tail, handlerVars, taskVars, abortVars>>

(***************************************************************************)
(* abort()                                                                 *)
(***************************************************************************)
CancelRetry == signalled' = Signalled /\ Resolve /\ UNCHANGED <<attempt, sleeper>>

AbortRetry ==
    /\ aborts < MaxAborts
    /\ aborts' = aborts + 1
    /\ CancelRetry
    /\ UNCHANGED <<generation, aborting, agentVars, tail, handlerVars, taskVars, promptVars>>

Abort ==
    /\ aborts < MaxAborts /\ ~aborting
    /\ aborts' = aborts + 1
    /\ CancelRetry
    /\ generation' = generation + 1
    /\ cancelled' = cancelled \cup {r \in Runs : task[r] = "delayed"}
    /\ tracked' = {}
    /\ stopping' = (running # 0)
    /\ aborting' = TRUE
    /\ UNCHANGED <<runs, running, outcome, starter, tail, handlerVars, task, forced, promptVars>>

AbortReturns ==
    /\ aborting /\ running = 0
    /\ aborting' = FALSE
    /\ inFlight' = 0
    /\ UNCHANGED <<generation, aborts, pc, asked, retryVars, agentVars, tail,
                   handlerVars, taskVars>>

(***************************************************************************)
(* The specification                                                       *)
(***************************************************************************)
Handle(r) ==
    \/ MessageSeen(r) \/ SuccessTold(r)
    \/ Transient(r) \/ Fatal(r) \/ NothingToRetry(r)
    \/ BackOff(r) \/ WakeUp(r) \/ SleepCancelled(r) \/ ChainEnds(r)

RunTask(r) == TaskDropped(r) \/ Continue(r) \/ CannotContinue(r) \/ ForcedEnd(r)

Go(p) == Superseded(p) \/ Send(p) \/ AgentBusy(p) \/ WaitExpires(p) \/ Recovered(p)

Next ==
    \/ Answer \/ RunEnds
    \/ \E r \in Runs : Handle(r) \/ RunTask(r)
    \/ \E p \in Prompts : Prompt(p) \/ Go(p)
    \/ AbortRetry \/ Abort \/ AbortReturns

Spec == Init /\ [][Next]_vars

\* The model answers or its stream stalls out, extensions return, timers fire: every
\* step but a new prompt or an abort is taken at last.
FairSpec ==
    /\ Spec
    /\ WF_vars(Answer) /\ WF_vars(RunEnds) /\ WF_vars(AbortReturns)
    /\ \A r \in Runs : WF_vars(Handle(r)) /\ WF_vars(RunTask(r))
    /\ \A p \in Prompts : WF_vars(Go(p))

-----------------------------------------------------------------------------
(***************************************************************************)
(* Properties.                                                             *)
(***************************************************************************)

FlagsOK == astray \in BOOLEAN /\ chain \in BOOLEAN /\ stopping \in BOOLEAN /\ aborting \in BOOLEAN

DomainsOK ==
    /\ generation \in Nat /\ attempt \in Nat /\ bounded \in Nat /\ aborts \in Nat
    /\ runs \in 0..MaxRuns /\ running \in 0..MaxRuns /\ sleeper \in 0..MaxRuns
    /\ tail \in 0..MaxRuns /\ last \in 0..MaxRuns
    /\ signalled \subseteq Runs /\ cancelled \subseteq Runs
    /\ tracked \subseteq Runs /\ forced \subseteq Runs
    /\ outcome \in [Runs -> Outcomes \cup {"none"}]
    /\ starter \in [Runs -> Prompts \cup 0..MaxRuns]
    /\ message \in [Runs -> {"none", "emitting", "succeeding", "over"}]
    /\ end \in [Runs -> {"none", "emitting", "starting", "sleeping", "giving",
                         "cancelling", "forcing", "over"}]
    /\ captured \in [Runs -> Nat]
    /\ task \in [Runs -> {"none", "delayed", "running", "over"}]
    /\ pc \in [Prompts -> {"idle", "preparing", "waiting", "running", "recovering", "over"}]
    /\ asked \in [Prompts -> Nat]
    /\ inFlight \in 0..1

\* Every variable stays in its domain, and the session never counts more than one
\* prompt in flight, nor fewer than none, however aborts and late returns interleave.
\* The upper bound is this module's: compaction and handoff, which it leaves out, start
\* prompts inside a prompt and make the count two.
TypeOK == FlagsOK /\ DomainsOK

\* What is still to come of a run's handlers and its continuation.
Pending(r) ==
    \/ message[r] \notin {"none", "over"} \/ end[r] \notin {"none", "over"}
    \/ task[r] \notin {"none", "over"} \/ r \in forced

EndInSight == running # 0 \/ \E r \in Runs : Pending(r)

\* A chain of retries is not orphaned as long as no agent_end handler has judged the
\* message of an earlier run: while the chain is live something is under way that can
\* end it, whichever other handlers, continuations and aborts overtook which.
NoOrphanedChain == chain /\ ~astray => EndInSight

\* prompt() returns: no retry, cancelled, skipped or failed, keeps its caller for ever,
\* unless an agent_end handler judges the message of an earlier run.
PromptReturns == \A p \in Prompts : pc[p] = "preparing" ~> pc[p] = "over" \/ astray

=============================================================================
