---------------------------- MODULE TaskDialogue ----------------------------
(***************************************************************************)
(* Interactive tasks: the workers of a foreground batch (TaskPump) ask the *)
(* orchestrator questions while its tool call waits for them.              *)
(*   packages/coding-agent/src/task/ask-broker.ts    the questions          *)
(*   packages/coding-agent/src/task/answer-pump.ts   a fork of the          *)
(*       orchestrator's context answers each question                      *)
(*   packages/coding-agent/src/task/ask-tools.ts     the worker's tool      *)
(*   packages/coding-agent/src/task/executor.ts      the worker's session   *)
(* The batch owns one broker, which it closes when scheduleBatch returns.  *)
(***************************************************************************)
EXTENDS TaskPump

CONSTANTS
    Asks,       \* questions the workers may ask, each once
    MaxPrompts  \* bound: prompts of one session, the task and the reminders

ASSUME AskAssumption == MaxPrompts \in Nat \ {0}

VARIABLES
    session,    \* none, ready (its delivery function is registered), streaming, gone
    prompts,    \* how often the session was prompted
    asker,      \* who asked a question, 0 before
    waiting,    \* the broker's #pending
    parked,     \* questions whose tool call waits for the promise of raise
    fork,       \* the answer pump's fork for a question
    got,        \* how often an answer has reached a task
    closed      \* the broker's #closed

askVars == <<asker, waiting, parked, fork, got, closed>>
sessionVars == <<session, prompts>>
vars == <<pumpVars, sessionVars, askVars>>

DialogueInit ==
    /\ Init
    /\ session = [t \in Tasks |-> "none"]
    /\ prompts = [t \in Tasks |-> 0]
    /\ asker = [q \in Asks |-> 0]
    /\ waiting = {}
    /\ parked = {}
    /\ fork = [q \in Asks |-> "none"]
    /\ got = [q \in Asks |-> [t \in Tasks |-> 0]]
    /\ closed = (loop = "over")

-----------------------------------------------------------------------------
(***************************************************************************)
(* The worker: runSubprocess.                                              *)
(***************************************************************************)

\* The session is there, and answers can be delivered to it.
OpenSession(t) ==
    /\ body[t] = "work" /\ session[t] = "none"
    /\ session' = [session EXCEPT ![t] = "ready"]
    /\ UNCHANGED <<pumpVars, prompts, askVars>>

Prompt(t) ==
    /\ session[t] = "ready" /\ prompts[t] < MaxPrompts
    /\ session' = [session EXCEPT ![t] = "streaming"]
    /\ prompts' = [prompts EXCEPT ![t] = @ + 1]
    /\ UNCHANGED <<pumpVars, askVars>>

\* A run waits for its tool calls; an abort does not reach into ask_orchestrator.
Idle(t) ==
    /\ session[t] = "streaming"
    /\ \A q \in parked : asker[q] # t
    /\ session' = [session EXCEPT ![t] = "ready"]
    /\ UNCHANGED <<pumpVars, prompts, askVars>>

\* The subprocess takes its delivery function back and returns to the batch.
WorkerEnds(t) ==
    /\ session[t] # "streaming"
    /\ WorkEnds(t)
    /\ session' = [session EXCEPT ![t] = "gone"]
    /\ UNCHANGED <<prompts, askVars>>

-----------------------------------------------------------------------------
(***************************************************************************)
(* The broker and the answer pump.                                         *)
(***************************************************************************)

\* raise: a blocking call parks.  A closed broker declines, which changes nothing but
\* that the question has been put.
Raise(t, q) ==
    /\ session[t] = "streaming"
    /\ asker[q] = 0
    /\ asker' = [asker EXCEPT ![q] = t]
    /\ \/ /\ closed
          /\ UNCHANGED <<waiting, parked, fork>>
       \/ /\ ~closed
          /\ waiting' = waiting \cup {q}
          /\ parked' \in {parked, parked \cup {q}}
          /\ fork' = [fork EXCEPT ![q] = "running"]
    /\ UNCHANGED <<pumpVars, sessionVars, got, closed>>

\* Mutant: whoever is named gets the answer, the parked worker once more.
ReachedTwice(q, R) == {t \in R : session[t] = "streaming"}

\* Whom an answer reaches out of band: a worker that asked without waiting and the other
\* recipients, those of them that stream just then.
Reached(q, R) == {t \in R : session[t] = "streaming" /\ ~ (q \in parked /\ t = asker[q])}

\* answer: an unknown or answered question is left alone.
Answer(q, R) ==
    \/ /\ q \notin waiting
       /\ UNCHANGED <<waiting, parked, got>>
    \/ /\ q \in waiting
       /\ waiting' = waiting \ {q}
       /\ parked' = parked \ {q}
       /\ LET promised(t)  == IF q \in parked /\ t = asker[q] THEN 1 ELSE 0
              delivered(t) == IF t \in Reached(q, R \cup {asker[q]}) THEN 1 ELSE 0
          IN  got' = [got EXCEPT ![q] =
                        [t \in Tasks |-> got[q][t] + promised(t) + delivered(t)]]

\* Mutant: a fork that fails tells nobody.
SilentFailure(q) == UNCHANGED <<waiting, parked, got>>

\* No usable answer: the asking worker is told to decide by itself.
EmptyAnswer(q) == Answer(q, {})

\* The fork has an answer for some tasks, or has failed or thrown.
ForkEnds(q) ==
    /\ fork[q] = "running"
    /\ fork' = [fork EXCEPT ![q] = "over"]
    /\ (\E R \in SUBSET Tasks : Answer(q, R)) \/ EmptyAnswer(q)
    /\ UNCHANGED <<pumpVars, sessionVars, asker, closed>>

\* Mutant: the questions are cleared and nobody is told.
ClearOnly == parked

\* close resolves the parked calls as cancelled.
Unparked == parked \ waiting

\* The batch goes on, and closes the broker when it returns.
BatchTurns ==
    /\ LoopTurns
    /\ \/ /\ loop' = "over"
          /\ closed' = TRUE
          /\ waiting' = {}
          /\ parked' = Unparked
       \/ /\ loop' # "over"
          /\ UNCHANGED <<closed, waiting, parked>>
    /\ UNCHANGED <<sessionVars, asker, fork, got>>

WorkerStep(t) ==
    \/ OpenSession(t) \/ Prompt(t) \/ Idle(t) \/ WorkerEnds(t)
    \/ SleepEnds(t) /\ UNCHANGED <<sessionVars, askVars>>

DialogueNext ==
    \/ BatchTurns
    \/ AbortCall /\ UNCHANGED <<sessionVars, askVars>>
    \/ \E t \in Tasks : WorkerStep(t) \/ \E q \in Asks : Raise(t, q)
    \/ \E q \in Asks : ForkEnds(q)

DialogueSpec == DialogueInit /\ [][DialogueNext]_vars

(***************************************************************************)
(* The loop turns and sleeps end.  A model stream ends, a worker's and a   *)
(* fork's alike; a worker that idles is prompted again or returns.         *)
(***************************************************************************)
FairDialogue ==
    /\ DialogueSpec
    /\ WF_vars(BatchTurns)
    /\ \A t \in Tasks : WF_vars(WorkerStep(t))
    /\ \A q \in Asks : WF_vars(ForkEnds(q))

-----------------------------------------------------------------------------
(***************************************************************************)
(* Properties.                                                             *)
(***************************************************************************)

\* A parked worker never waits for nobody: its question is open, and a fork is at work
\* on it, whatever failed, was interrupted or closed meanwhile.
ParkedIsPending == \A q \in parked : q \in waiting /\ fork[q] = "running"

\* An answer reaches a task once at most: through the promise or the delivery, never both.
ReachesOnce == \A q \in Asks, t \in Tasks : got[q][t] <= 1

\* A worker that waits is resumed, by the answer or by the end of the batch, though an
\* interrupt does not reach it.
WorkersResume == \A q \in Asks : q \in parked ~> q \notin parked

\* The call of the orchestrator returns though workers wait for the orchestrator in it.
CallReturns == <>(loop = "over")

=============================================================================
