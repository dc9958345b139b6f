------------------------- MODULE SessionRetryProofs -------------------------
(***************************************************************************)
(* Proofs about SessionRetry, for every number of prompts, runs, failures, *)
(* aborts and retries.                                                     *)
(***************************************************************************)
EXTENDS SessionRetry, TLAPS

\* A step of a handler, or a continuation, that ends the chain or hands it on.
Carrying(r) ==
    \/ end[r] \in {"starting", "sleeping", "giving", "cancelling", "forcing"}
    \/ message[r] = "succeeding"
    \/ r \in forced
    \/ task[r] = "delayed" /\ r \notin cancelled

\* The run that streams has not answered yet, and will not be aborted before it does.
Unanswered == running # 0 /\ ~stopping /\ outcome[running] = "none"

\* The last run failed, and its own agent_end has not been handled.
ErrorDue ==
    runs # 0 /\ outcome[runs] \in {"transient", "fatal"} /\ end[runs] \in {"none", "emitting"}

\* The last run succeeded, and its message_end has not been handled.
SuccessDue == runs # 0 /\ outcome[runs] = "ok" /\ message[runs] = "emitting"

Carried ==
    chain /\ ~astray => Unanswered \/ ErrorDue \/ SuccessDue \/ \E r \in Runs : Carrying(r)

\* While a run is being aborted a chain can only come from a handler that was late.
CarriedThroughAbort == chain /\ stopping => \E r \in Runs : Carrying(r)

\* Whoever has reset the attempt of a live chain is about to end it.
ResetEndsChain ==
    chain /\ attempt = 0 => \E r \in Runs : end[r] \in {"cancelling", "forcing"} \/ r \in forced

\* The messages, runs, handlers and continuations follow one another.
InTurn ==
    /\ running # 0 => running = runs /\ end[running] = "none"
    /\ \A r \in Runs : r > runs => outcome[r] = "none"
    /\ \A r \in Runs : outcome[r] = "none" => message[r] = "none" /\ end[r] = "none"
    /\ \A r \in Runs : outcome[r] # "none" /\ end[r] = "none" => r = running
    /\ last # 0 => outcome[last] # "none"
    /\ \A r \in Runs : task[r] # "none" => end[r] = "over"
    /\ \A r \in cancelled : task[r] # "none"
    /\ running # 0 /\ starter[running] \notin Prompts =>
          \A r \in Runs : starter[running] = r => task[r] = "running"

IInv == TypeOK /\ InTurn /\ Carried /\ CarriedThroughAbort /\ ResetEndsChain

\* A number that is not zero is the number of a run.
LEMMA RunNumber ==
    ASSUME NEW n \in 0..MaxRuns, n # 0 PROVE n \in Runs
  BY RetryAssumption DEF Runs

\* An abort of the controller reaches a run.
LEMMA SignalledRuns ==
    ASSUME DomainsOK PROVE Signalled \subseteq Runs
  BY RetryAssumption DEF DomainsOK, Signalled, Runs

\* Every step keeps the flags Boolean.
LEMMA FlagsKept ==
    ASSUME FlagsOK, Next
    PROVE  FlagsOK'
<1>1. CASE Answer
  BY <1>1 DEF Answer, FlagsOK, retryVars, taskVars, promptVars, abortVars
<1>2. CASE RunEnds
  BY <1>2 DEF RunEnds, FlagsOK, retryVars, taskVars, abortVars
<1>3. CASE AbortRetry
  BY <1>3 DEF AbortRetry, CancelRetry, Resolve, Signalled, FlagsOK, agentVars,
     handlerVars, taskVars, promptVars
<1>4. CASE Abort
  BY <1>4 DEF Abort, CancelRetry, Resolve, Signalled, FlagsOK, handlerVars, promptVars
<1>5. CASE AbortReturns
  BY <1>5 DEF AbortReturns, FlagsOK, retryVars, agentVars, handlerVars, taskVars
<1>6. ASSUME NEW r \in Runs, MessageSeen(r) PROVE FlagsOK'
  BY <1>6 DEF MessageSeen, FlagsOK, retryVars, agentVars, taskVars, promptVars, abortVars
<1>7. ASSUME NEW r \in Runs, SuccessTold(r) PROVE FlagsOK'
  BY <1>7 DEF SuccessTold, Resolve, FlagsOK, agentVars, taskVars, promptVars, abortVars
<1>8. ASSUME NEW r \in Runs, Transient(r) PROVE FlagsOK'
  BY <1>8 DEF Transient, Taken, FlagsOK, agentVars, taskVars, promptVars, abortVars
<1>9. ASSUME NEW r \in Runs, Fatal(r) PROVE FlagsOK'
  BY <1>9 DEF Fatal, Taken, ForceEnd, Signalled, ChainIsLive, FlagsOK, agentVars, taskVars,
     promptVars, abortVars
<1>10. ASSUME NEW r \in Runs, NothingToRetry(r) PROVE FlagsOK'
  BY <1>10 DEF NothingToRetry, Taken, ChainIsLive, FlagsOK, retryVars, agentVars, taskVars,
     promptVars, abortVars
<1>11. ASSUME NEW r \in Runs, BackOff(r) PROVE FlagsOK'
  BY <1>11 DEF BackOff, Signalled, FlagsOK, agentVars, taskVars, promptVars, abortVars
<1>12. ASSUME NEW r \in Runs, WakeUp(r) PROVE FlagsOK'
  BY <1>12 DEF WakeUp, FlagsOK, agentVars, promptVars, abortVars
<1>13. ASSUME NEW r \in Runs, SleepCancelled(r) PROVE FlagsOK'
  BY <1>13 DEF SleepCancelled, FlagsOK, agentVars, taskVars, promptVars, abortVars
<1>14. ASSUME NEW r \in Runs, ChainEnds(r) PROVE FlagsOK'
  BY <1>14 DEF ChainEnds, Resolve, FlagsOK, agentVars, taskVars, promptVars, abortVars
<1>15. ASSUME NEW r \in Runs, TaskDropped(r) PROVE FlagsOK'
  BY <1>15 DEF TaskDropped, TaskOver, FlagsOK, retryVars, agentVars, handlerVars,
     promptVars, abortVars
<1>16. ASSUME NEW r \in Runs, Continue(r) PROVE FlagsOK'
  BY <1>16 DEF Continue, Start, FlagsOK, retryVars, handlerVars, promptVars, abortVars
<1>17. ASSUME NEW r \in Runs, CannotContinue(r) PROVE FlagsOK'
  BY <1>17 DEF CannotContinue, ForceEnd, Signalled, ChainIsLive, TaskOver, FlagsOK,
     agentVars, handlerVars, promptVars, abortVars
<1>18. ASSUME NEW r \in Runs, ForcedEnd(r) PROVE FlagsOK'
  BY <1>18 DEF ForcedEnd, Resolve, FlagsOK, agentVars, handlerVars, promptVars, abortVars
<1>19. ASSUME NEW p \in Prompts, Prompt(p) PROVE FlagsOK'
  BY <1>19 DEF Prompt, FlagsOK, retryVars, agentVars, handlerVars, taskVars, abortVars
<1>20. ASSUME NEW p \in Prompts, Superseded(p) PROVE FlagsOK'
  BY <1>20 DEF Superseded, Leave, Fewer, FlagsOK, retryVars, agentVars, handlerVars,
     taskVars, abortVars
<1>21. ASSUME NEW p \in Prompts, Send(p) PROVE FlagsOK'
  BY <1>21 DEF Send, Start, FlagsOK, retryVars, handlerVars, taskVars, abortVars
<1>22. ASSUME NEW p \in Prompts, AgentBusy(p) PROVE FlagsOK'
  BY <1>22 DEF AgentBusy, FlagsOK, retryVars, agentVars, handlerVars, taskVars, abortVars
<1>23. ASSUME NEW p \in Prompts, WaitExpires(p) PROVE FlagsOK'
  BY <1>23 DEF WaitExpires, Leave, Fewer, FlagsOK, retryVars, agentVars, handlerVars,
     taskVars, abortVars
<1>24. ASSUME NEW p \in Prompts, Recovered(p) PROVE FlagsOK'
  BY <1>24 DEF Recovered, Leave, Fewer, FlagsOK, retryVars, agentVars, handlerVars,
     taskVars, abortVars
<1>. QED
  BY <1>1, <1>2, <1>3, <1>4, <1>5, <1>6, <1>7, <1>8, <1>9, <1>10, <1>11, <1>12, <1>13,
     <1>14, <1>15, <1>16, <1>17, <1>18, <1>19, <1>20, <1>21, <1>22, <1>23, <1>24 DEF Next,
     Handle, RunTask, Go

\* Every step keeps the variables in their domains.
LEMMA TypesKept ==
    ASSUME DomainsOK, Next
    PROVE  DomainsOK'
<1>. USE DEF Outcomes
<1>1. CASE Answer
  BY <1>1 DEF Answer, DomainsOK, retryVars, taskVars, promptVars, abortVars
<1>2. CASE RunEnds
  <2>1. running \in Runs
    BY <1>2, RunNumber DEF RunEnds, DomainsOK
  <2>2. 0 \in 0..MaxRuns
    BY RetryAssumption
  <2>3. running' \in 0..MaxRuns
    BY <1>2, <2>1, <2>2 DEF RunEnds, DomainsOK, taskVars
  <2>4. end' \in [Runs -> {"none", "emitting", "starting", "sleeping",
                      "giving", "cancelling", "forcing", "over"}]
    BY <1>2, <2>1, <2>2 DEF RunEnds, DomainsOK, taskVars
  <2>5. pc' \in [Prompts -> {"idle", "preparing", "waiting", "running", "recovering", "over"}]
    BY <1>2, <2>1, <2>2 DEF RunEnds, DomainsOK, taskVars
  <2>6. task' \in [Runs -> {"none", "delayed", "running", "over"}]
    BY <1>2, <2>1, <2>2 DEF RunEnds, DomainsOK, taskVars
  <2>7. tracked' \subseteq Runs
    BY <1>2, <2>1, <2>2 DEF RunEnds, DomainsOK, taskVars
  <2>. QED
    BY <1>2, <2>3, <2>4, <2>5, <2>6, <2>7 DEF RunEnds, DomainsOK, retryVars, taskVars,
       abortVars
<1>3. CASE AbortRetry
  BY <1>3, SignalledRuns DEF AbortRetry, CancelRetry, Resolve, DomainsOK, agentVars,
     handlerVars, taskVars, promptVars
<1>4. CASE Abort
  BY <1>4, SignalledRuns DEF Abort, CancelRetry, Resolve, DomainsOK, handlerVars, promptVars
<1>5. CASE AbortReturns
  BY <1>5 DEF AbortReturns, DomainsOK, retryVars, agentVars, handlerVars, taskVars
<1>6. ASSUME NEW r \in Runs, MessageSeen(r) PROVE DomainsOK'
  <2>1. r \in 0..MaxRuns
    BY <1>6 DEF Runs
  <2>2. 0 \in 0..MaxRuns
    BY RetryAssumption
  <2>3. last' \in 0..MaxRuns
    BY <1>6, <2>1, <2>2 DEF MessageSeen, DomainsOK
  <2>4. message' \in [Runs -> {"none", "emitting", "succeeding", "over"}]
    BY <1>6, <2>1, <2>2 DEF MessageSeen, DomainsOK
  <2>. QED
    BY <1>6, <2>3, <2>4 DEF MessageSeen, DomainsOK, retryVars, agentVars, taskVars,
       promptVars, abortVars
<1>7. ASSUME NEW r \in Runs, SuccessTold(r) PROVE DomainsOK'
  BY <1>7 DEF SuccessTold, Resolve, DomainsOK, agentVars, taskVars, promptVars, abortVars
<1>8. ASSUME NEW r \in Runs, Transient(r) PROVE DomainsOK'
  <2>1. r \in 0..MaxRuns
    BY <1>8 DEF Runs
  <2>2. 0 \in 0..MaxRuns
    BY RetryAssumption
  <2>3. last' \in 0..MaxRuns
    BY <1>8, <2>1, <2>2 DEF Transient, Taken, DomainsOK
  <2>4. captured' \in [Runs -> Nat]
    BY <1>8, <2>1, <2>2 DEF Transient, Taken, DomainsOK
  <2>5. attempt' \in Nat
    BY <1>8, <2>1, <2>2 DEF Transient, Taken, DomainsOK
  <2>6. bounded' \in Nat
    BY <1>8, <2>1, <2>2 DEF Transient, Taken, DomainsOK
  <2>7. end' \in [Runs -> {"none", "emitting", "starting", "sleeping",
                      "giving", "cancelling", "forcing", "over"}]
    BY <1>8, <2>1, <2>2 DEF Transient, Taken, DomainsOK
  <2>. QED
    BY <1>8, <2>3, <2>4, <2>5, <2>6, <2>7 DEF Transient, Taken, DomainsOK, agentVars, taskVars,
       promptVars, abortVars
<1>9. ASSUME NEW r \in Runs, Fatal(r) PROVE DomainsOK'
  <2>1. r \in 0..MaxRuns
    BY <1>9 DEF Runs
  <2>2. 0 \in 0..MaxRuns
    BY RetryAssumption
  <2>3. last' \in 0..MaxRuns
    BY <1>9, <2>1, <2>2 DEF Fatal, Taken, ForceEnd, Signalled, ChainIsLive, DomainsOK
  <2>4. signalled' \subseteq Runs
    BY <1>9, <2>1, <2>2, SignalledRuns DEF Fatal, Taken, ForceEnd, ChainIsLive, DomainsOK
  <2>5. sleeper' \in 0..MaxRuns
    BY <1>9, <2>1, <2>2 DEF Fatal, Taken, ForceEnd, Signalled, ChainIsLive, DomainsOK
  <2>6. attempt' \in Nat
    BY <1>9, <2>1, <2>2 DEF Fatal, Taken, ForceEnd, Signalled, ChainIsLive, DomainsOK
  <2>7. end' \in [Runs -> {"none", "emitting", "starting", "sleeping",
                      "giving", "cancelling", "forcing", "over"}]
    BY <1>9, <2>1, <2>2 DEF Fatal, Taken, ForceEnd, Signalled, ChainIsLive, DomainsOK
  <2>. QED
    BY <1>9, <2>3, <2>4, <2>5, <2>6, <2>7 DEF Fatal, Taken, ForceEnd, Signalled, ChainIsLive,
       DomainsOK, agentVars, taskVars, promptVars, abortVars
<1>10. ASSUME NEW r \in Runs, NothingToRetry(r) PROVE DomainsOK'
  <2>1. r \in 0..MaxRuns
    BY <1>10 DEF Runs
  <2>2. 0 \in 0..MaxRuns
    BY RetryAssumption
  <2>3. last' \in 0..MaxRuns
    BY <1>10, <2>1, <2>2 DEF NothingToRetry, Taken, ChainIsLive, DomainsOK
  <2>4. end' \in [Runs -> {"none", "emitting", "starting", "sleeping",
                      "giving", "cancelling", "forcing", "over"}]
    BY <1>10, <2>1, <2>2 DEF NothingToRetry, Taken, ChainIsLive, DomainsOK
  <2>. QED
    BY <1>10, <2>3, <2>4 DEF NothingToRetry, Taken, ChainIsLive, DomainsOK, retryVars, agentVars,
       taskVars, promptVars, abortVars
<1>11. ASSUME NEW r \in Runs, BackOff(r) PROVE DomainsOK'
  <2>1. r \in 0..MaxRuns
    BY <1>11 DEF Runs
  <2>2. 0 \in 0..MaxRuns
    BY RetryAssumption
  <2>3. tail' \in 0..MaxRuns
    BY <1>11, <2>1, <2>2 DEF BackOff, Signalled, DomainsOK
  <2>4. signalled' \subseteq Runs
    BY <1>11, <2>1, <2>2, SignalledRuns DEF BackOff, DomainsOK
  <2>5. sleeper' \in 0..MaxRuns
    BY <1>11, <2>1, <2>2 DEF BackOff, Signalled, DomainsOK
  <2>6. end' \in [Runs -> {"none", "emitting", "starting", "sleeping",
                      "giving", "cancelling", "forcing", "over"}]
    BY <1>11, <2>1, <2>2 DEF BackOff, Signalled, DomainsOK
  <2>. QED
    BY <1>11, <2>3, <2>4, <2>5, <2>6 DEF BackOff, Signalled, DomainsOK, agentVars,
       taskVars, promptVars, abortVars
<1>12. ASSUME NEW r \in Runs, WakeUp(r) PROVE DomainsOK'
  <2>1. r \in 0..MaxRuns
    BY <1>12 DEF Runs
  <2>2. 0 \in 0..MaxRuns
    BY RetryAssumption
  <2>3. sleeper' \in 0..MaxRuns
    BY <1>12, <2>1, <2>2 DEF WakeUp, DomainsOK
  <2>4. end' \in [Runs -> {"none", "emitting", "starting", "sleeping",
                      "giving", "cancelling", "forcing", "over"}]
    BY <1>12, <2>1, <2>2 DEF WakeUp, DomainsOK
  <2>5. task' \in [Runs -> {"none", "delayed", "running", "over"}]
    BY <1>12, <2>1, <2>2 DEF WakeUp, DomainsOK
  <2>6. tracked' \subseteq Runs
    BY <1>12, <2>1, <2>2 DEF WakeUp, DomainsOK
  <2>. QED
    BY <1>12, <2>3, <2>4, <2>5, <2>6 DEF WakeUp, DomainsOK, agentVars, promptVars, abortVars
<1>13. ASSUME NEW r \in Runs, SleepCancelled(r) PROVE DomainsOK'
  <2>1. r \in 0..MaxRuns
    BY <1>13 DEF Runs
  <2>2. 0 \in 0..MaxRuns
    BY RetryAssumption
  <2>3. attempt' \in Nat
    BY <1>13, <2>1, <2>2 DEF SleepCancelled, DomainsOK
  <2>4. sleeper' \in 0..MaxRuns
    BY <1>13, <2>1, <2>2 DEF SleepCancelled, DomainsOK
  <2>5. end' \in [Runs -> {"none", "emitting", "starting", "sleeping",
                      "giving", "cancelling", "forcing", "over"}]
    BY <1>13, <2>1, <2>2 DEF SleepCancelled, DomainsOK
  <2>. QED
    BY <1>13, <2>3, <2>4, <2>5 DEF SleepCancelled, DomainsOK, agentVars, taskVars,
       promptVars, abortVars
<1>14. ASSUME NEW r \in Runs, ChainEnds(r) PROVE DomainsOK'
  BY <1>14 DEF ChainEnds, Resolve, DomainsOK, agentVars, taskVars, promptVars, abortVars
<1>15. ASSUME NEW r \in Runs, TaskDropped(r) PROVE DomainsOK'
  BY <1>15 DEF TaskDropped, TaskOver, DomainsOK, retryVars, agentVars, handlerVars,
     promptVars, abortVars
<1>16. ASSUME NEW r \in Runs, Continue(r) PROVE DomainsOK'
  <2>1. r \in 0..MaxRuns
    BY <1>16 DEF Runs
  <2>2. runs + 1 \in Runs /\ runs + 1 \in 0..MaxRuns
    BY <1>16, RetryAssumption DEF Continue, Start, DomainsOK, Runs
  <2>3. 0 \in 0..MaxRuns
    BY RetryAssumption
  <2>4. runs' \in 0..MaxRuns
    BY <1>16, <2>1, <2>2, <2>3 DEF Continue, Start, DomainsOK
  <2>5. running' \in 0..MaxRuns
    BY <1>16, <2>1, <2>2, <2>3 DEF Continue, Start, DomainsOK
  <2>6. starter' \in [Runs -> Prompts \cup 0..MaxRuns]
    BY <1>16, <2>1, <2>2, <2>3 DEF Continue, Start, DomainsOK
  <2>7. outcome' \in [Runs -> Outcomes \cup {"none"}]
    BY <1>16, <2>1, <2>2, <2>3 DEF Continue, Start, DomainsOK
  <2>8. task' \in [Runs -> {"none", "delayed", "running", "over"}]
    BY <1>16, <2>1, <2>2, <2>3 DEF Continue, Start, DomainsOK
  <2>. QED
    BY <1>16, <2>4, <2>5, <2>6, <2>7, <2>8 DEF Continue, Start, DomainsOK, retryVars,
       handlerVars, promptVars, abortVars
<1>17. ASSUME NEW r \in Runs, CannotContinue(r) PROVE DomainsOK'
  <2>1. r \in 0..MaxRuns
    BY <1>17 DEF Runs
  <2>2. 0 \in 0..MaxRuns
    BY RetryAssumption
  <2>3. task' \in [Runs -> {"none", "delayed", "running", "over"}]
    BY <1>17, <2>1, <2>2 DEF CannotContinue, ForceEnd, Signalled, ChainIsLive, TaskOver,
       DomainsOK
  <2>4. tracked' \subseteq Runs
    BY <1>17, <2>1, <2>2 DEF CannotContinue, ForceEnd, Signalled, ChainIsLive, TaskOver,
       DomainsOK
  <2>5. signalled' \subseteq Runs
    BY <1>17, <2>1, <2>2, SignalledRuns DEF CannotContinue, ForceEnd, ChainIsLive,
       TaskOver, DomainsOK
  <2>6. sleeper' \in 0..MaxRuns
    BY <1>17, <2>1, <2>2 DEF CannotContinue, ForceEnd, Signalled, ChainIsLive, TaskOver,
       DomainsOK
  <2>7. attempt' \in Nat
    BY <1>17, <2>1, <2>2 DEF CannotContinue, ForceEnd, Signalled, ChainIsLive, TaskOver,
       DomainsOK
  <2>8. forced' \subseteq Runs
    BY <1>17, <2>1, <2>2 DEF CannotContinue, ForceEnd, Signalled, ChainIsLive, TaskOver,
       DomainsOK
  <2>. QED
    BY <1>17, <2>3, <2>4, <2>5, <2>6, <2>7, <2>8 DEF CannotContinue, ForceEnd, Signalled,
       ChainIsLive, TaskOver, DomainsOK, agentVars, handlerVars, promptVars, abortVars
<1>18. ASSUME NEW r \in Runs, ForcedEnd(r) PROVE DomainsOK'
  BY <1>18 DEF ForcedEnd, Resolve, DomainsOK, agentVars, handlerVars, promptVars, abortVars
<1>19. ASSUME NEW p \in Prompts, Prompt(p) PROVE DomainsOK'
  BY <1>19 DEF Prompt, DomainsOK, retryVars, agentVars, handlerVars, taskVars, abortVars
<1>20. ASSUME NEW p \in Prompts, Superseded(p) PROVE DomainsOK'
  BY <1>20 DEF Superseded, Leave, Fewer, DomainsOK, retryVars, agentVars, handlerVars,
     taskVars, abortVars
<1>21. ASSUME NEW p \in Prompts, Send(p) PROVE DomainsOK'
  <2>1. runs + 1 \in Runs /\ runs + 1 \in 0..MaxRuns
    BY <1>21, RetryAssumption DEF Send, Start, DomainsOK, Runs
  <2>2. 0 \in 0..MaxRuns
    BY RetryAssumption
  <2>3. runs' \in 0..MaxRuns
    BY <1>21, <2>1, <2>2 DEF Send, Start, DomainsOK
  <2>4. running' \in 0..MaxRuns
    BY <1>21, <2>1, <2>2 DEF Send, Start, DomainsOK
  <2>5. starter' \in [Runs -> Prompts \cup 0..MaxRuns]
    BY <1>21, <2>1, <2>2 DEF Send, Start, DomainsOK
  <2>6. outcome' \in [Runs -> Outcomes \cup {"none"}]
    BY <1>21, <2>1, <2>2 DEF Send, Start, DomainsOK
  <2>7. tail' \in 0..MaxRuns
    BY <1>21, <2>1, <2>2 DEF Send, Start, DomainsOK
  <2>8. pc' \in [Prompts -> {"idle", "preparing", "waiting", "running", "recovering", "over"}]
    BY <1>21, <2>1, <2>2 DEF Send, Start, DomainsOK
  <2>. QED
    BY <1>21, <2>3, <2>4, <2>5, <2>6, <2>7, <2>8 DEF Send, Start, DomainsOK, retryVars,
       handlerVars, taskVars, abortVars
<1>22. ASSUME NEW p \in Prompts, AgentBusy(p) PROVE DomainsOK'
  BY <1>22 DEF AgentBusy, DomainsOK, retryVars, agentVars, handlerVars, taskVars, abortVars
<1>23. ASSUME NEW p \in Prompts, WaitExpires(p) PROVE DomainsOK'
  BY <1>23 DEF WaitExpires, Leave, Fewer, DomainsOK, retryVars, agentVars, handlerVars,
     taskVars, abortVars
<1>24. ASSUME NEW p \in Prompts, Recovered(p) PROVE DomainsOK'
  BY <1>24 DEF Recovered, Leave, Fewer, DomainsOK, retryVars, agentVars, handlerVars,
     taskVars, abortVars
<1>. QED
  BY <1>1, <1>2, <1>3, <1>4, <1>5, <1>6, <1>7, <1>8, <1>9, <1>10, <1>11, <1>12, <1>13,
     <1>14, <1>15, <1>16, <1>17, <1>18, <1>19, <1>20, <1>21, <1>22, <1>23, <1>24 DEF Next,
     Handle, RunTask, Go

\* Every step keeps the order of messages, runs, handlers and continuations.
LEMMA TurnsKept ==
    ASSUME DomainsOK, InTurn, Next
    PROVE  InTurn'
<1>1. CASE Answer
  <2>1. running \in Runs /\ running \in 0..MaxRuns /\ running = runs /\ ~(running > runs)
    BY <1>1, RunNumber DEF Answer, InTurn, DomainsOK
  <2>2. UNCHANGED <<runs, running, stopping, end, last, task, cancelled, starter>>
    BY <1>1 DEF Answer, retryVars, taskVars, promptVars, abortVars
  <2>4. outcome'[running] # "none"
    BY <1>1, <2>1 DEF Answer, DomainsOK, Outcomes
  <2>5. \A q \in Runs : q # running => outcome'[q] = outcome[q] /\ message'[q] = message[q]
    BY <1>1, <2>1 DEF Answer, DomainsOK
  <2>6. outcome[running] = "none" /\ end[running] = "none"
    BY <1>1 DEF Answer, InTurn
  <2>7. \A q \in Runs : outcome'[q] = "none" => outcome[q] = "none" /\ message'[q] = message[q]
    BY <2>4, <2>5
  <2>8. \A q \in Runs : q > runs => outcome'[q] = "none"
    BY <2>1, <2>5 DEF InTurn
  <2>9. \A q \in Runs : outcome'[q] = "none" => message'[q] = "none" /\ end[q] = "none"
    BY <2>7 DEF InTurn
  <2>10. \A q \in Runs : outcome'[q] # "none" /\ end[q] = "none" => q = running
    BY <2>5 DEF InTurn
  <2>11. last # 0 => outcome'[last] # "none"
    BY <2>4, <2>5, RunNumber DEF InTurn, DomainsOK
  <2>. QED
    BY <2>2, <2>8, <2>9, <2>10, <2>11 DEF InTurn
<1>2. CASE RunEnds
  BY <1>2, RunNumber DEF RunEnds, DomainsOK, InTurn, retryVars, taskVars, abortVars
<1>3. CASE AbortRetry
  BY <1>3 DEF AbortRetry, CancelRetry, Resolve, Signalled, DomainsOK, InTurn, agentVars,
     handlerVars, taskVars, promptVars
<1>4. CASE Abort
  BY <1>4 DEF Abort, CancelRetry, Resolve, Signalled, DomainsOK, InTurn, handlerVars,
     promptVars
<1>5. CASE AbortReturns
  BY <1>5 DEF AbortReturns, DomainsOK, InTurn, retryVars, agentVars, handlerVars, taskVars
<1>6. ASSUME NEW r \in Runs, MessageSeen(r) PROVE InTurn'
  BY <1>6 DEF MessageSeen, DomainsOK, InTurn, retryVars, agentVars, taskVars, promptVars,
     abortVars
<1>7. ASSUME NEW r \in Runs, SuccessTold(r) PROVE InTurn'
  BY <1>7 DEF SuccessTold, Resolve, DomainsOK, InTurn, agentVars, taskVars, promptVars,
     abortVars
<1>8. ASSUME NEW r \in Runs, Transient(r) PROVE InTurn'
  BY <1>8 DEF Transient, Taken, DomainsOK, InTurn, agentVars, taskVars, promptVars, abortVars
<1>9. ASSUME NEW r \in Runs, Fatal(r) PROVE InTurn'
  BY <1>9 DEF Fatal, Taken, ForceEnd, Signalled, ChainIsLive, DomainsOK, InTurn, agentVars,
     taskVars, promptVars, abortVars
<1>10. ASSUME NEW r \in Runs, NothingToRetry(r) PROVE InTurn'
  BY <1>10 DEF NothingToRetry, Taken, ChainIsLive, DomainsOK, InTurn, retryVars, agentVars,
     taskVars, promptVars, abortVars
<1>11. ASSUME NEW r \in Runs, BackOff(r) PROVE InTurn'
  BY <1>11 DEF BackOff, Signalled, DomainsOK, InTurn, agentVars, taskVars, promptVars,
     abortVars
<1>12. ASSUME NEW r \in Runs, WakeUp(r) PROVE InTurn'
  BY <1>12 DEF WakeUp, DomainsOK, InTurn, agentVars, promptVars, abortVars
<1>13. ASSUME NEW r \in Runs, SleepCancelled(r) PROVE InTurn'
  BY <1>13 DEF SleepCancelled, DomainsOK, InTurn, agentVars, taskVars, promptVars, abortVars
<1>14. ASSUME NEW r \in Runs, ChainEnds(r) PROVE InTurn'
  BY <1>14 DEF ChainEnds, Resolve, DomainsOK, InTurn, agentVars, taskVars, promptVars,
     abortVars
<1>15. ASSUME NEW r \in Runs, TaskDropped(r) PROVE InTurn'
  BY <1>15 DEF TaskDropped, TaskOver, DomainsOK, InTurn, retryVars, agentVars,
     handlerVars, promptVars, abortVars
<1>16. ASSUME NEW r \in Runs, Continue(r) PROVE InTurn'
  <2>1. runs + 1 \in Runs
    BY <1>16, RetryAssumption DEF Continue, Start, DomainsOK, Runs
  <2>2. runs + 1 > runs /\ \A q \in Runs : q > runs + 1 => q > runs
    BY RetryAssumption DEF DomainsOK, Runs
  <2>3. runs' = runs + 1 /\ running' = runs + 1 /\ outcome' = outcome /\ message' = message
        /\ end' = end /\ last' = last /\ cancelled' = cancelled
    BY <1>16 DEF Continue, Start, retryVars, handlerVars, promptVars, abortVars
  <2>4. running' # 0 /\ running' = runs'
    BY <2>1, <2>3 DEF Runs, DomainsOK
  <2>5. end'[running'] = "none" /\ running = 0 /\ outcome'[running'] = "none"
    BY <1>16, <2>1, <2>2, <2>3 DEF InTurn, Continue, MayContinue
  <2>6. \A q \in Runs : ~(outcome'[q] # "none" /\ end'[q] = "none")
    BY <2>3, <2>5, RetryAssumption DEF InTurn, Runs
  <2>8. /\ \A q \in Runs : task'[q] # "none" => end'[q] = "over"
        /\ \A q \in cancelled' : task'[q] # "none"
        /\ starter'[running'] \notin Prompts =>
              \A q \in Runs : starter'[running'] = q => task'[q] = "running"
    BY <1>16, <2>1, <2>3 DEF Continue, Start, InTurn, DomainsOK, retryVars, handlerVars,
       promptVars, abortVars
  <2>. QED
    BY <2>2, <2>3, <2>4, <2>5, <2>6, <2>8 DEF InTurn
<1>17. ASSUME NEW r \in Runs, CannotContinue(r) PROVE InTurn'
  BY <1>17 DEF CannotContinue, ForceEnd, Signalled, ChainIsLive, TaskOver, DomainsOK,
     InTurn, agentVars, handlerVars, promptVars, abortVars
<1>18. ASSUME NEW r \in Runs, ForcedEnd(r) PROVE InTurn'
  BY <1>18 DEF ForcedEnd, Resolve, DomainsOK, InTurn, agentVars, handlerVars, promptVars,
     abortVars
<1>19. ASSUME NEW p \in Prompts, Prompt(p) PROVE InTurn'
  BY <1>19 DEF Prompt, DomainsOK, InTurn, retryVars, agentVars, handlerVars, taskVars,
     abortVars
<1>20. ASSUME NEW p \in Prompts, Superseded(p) PROVE InTurn'
  BY <1>20 DEF Superseded, Leave, Fewer, DomainsOK, InTurn, retryVars, agentVars,
     handlerVars, taskVars, abortVars
<1>21. ASSUME NEW p \in Prompts, Send(p) PROVE InTurn'
  <2>1. runs + 1 \in Runs
    BY <1>21, RetryAssumption DEF Send, Start, DomainsOK, Runs
  <2>2. runs + 1 > runs /\ \A q \in Runs : q > runs + 1 => q > runs
    BY RetryAssumption DEF DomainsOK, Runs
  <2>3. runs' = runs + 1 /\ running' = runs + 1 /\ outcome' = outcome /\ message' = message
        /\ end' = end /\ last' = last /\ cancelled' = cancelled
    BY <1>21 DEF Send, Start, retryVars, handlerVars, taskVars, abortVars
  <2>4. running' # 0 /\ running' = runs'
    BY <2>1, <2>3 DEF Runs, DomainsOK
  <2>5. end'[running'] = "none" /\ running = 0 /\ outcome'[running'] = "none"
    BY <1>21, <2>1, <2>2, <2>3 DEF InTurn, Send
  <2>6. \A q \in Runs : ~(outcome'[q] # "none" /\ end'[q] = "none")
    BY <2>3, <2>5, RetryAssumption DEF InTurn, Runs
  <2>8. /\ \A q \in Runs : task'[q] # "none" => end'[q] = "over"
        /\ \A q \in cancelled' : task'[q] # "none"
        /\ starter'[running'] \notin Prompts =>
              \A q \in Runs : starter'[running'] = q => task'[q] = "running"
    BY <1>21, <2>1, <2>3 DEF Send, Start, InTurn, DomainsOK, retryVars, handlerVars,
       taskVars, abortVars
  <2>. QED
    BY <2>2, <2>3, <2>4, <2>5, <2>6, <2>8 DEF InTurn
<1>22. ASSUME NEW p \in Prompts, AgentBusy(p) PROVE InTurn'
  BY <1>22 DEF AgentBusy, DomainsOK, InTurn, retryVars, agentVars, handlerVars, taskVars,
     abortVars
<1>23. ASSUME NEW p \in Prompts, WaitExpires(p) PROVE InTurn'
  BY <1>23 DEF WaitExpires, Leave, Fewer, DomainsOK, InTurn, retryVars, agentVars,
     handlerVars, taskVars, abortVars
<1>24. ASSUME NEW p \in Prompts, Recovered(p) PROVE InTurn'
  BY <1>24 DEF Recovered, Leave, Fewer, DomainsOK, InTurn, retryVars, agentVars,
     handlerVars, taskVars, abortVars
<1>. QED
  BY <1>1, <1>2, <1>3, <1>4, <1>5, <1>6, <1>7, <1>8, <1>9, <1>10, <1>11, <1>12, <1>13,
     <1>14, <1>15, <1>16, <1>17, <1>18, <1>19, <1>20, <1>21, <1>22, <1>23, <1>24 DEF Next,
     Handle, RunTask, Go

\* Every step that lets a carrier of the chain go hands the chain on or ends it.
LEMMA CarriersKept ==
    ASSUME DomainsOK, InTurn, Carried, CarriedThroughAbort,
           ResetEndsChain, Next
    PROVE  Carried' /\ CarriedThroughAbort' /\ ResetEndsChain'
<1>1. CASE Answer
  <2>1. running \in Runs /\ running = runs /\ end[running] = "none"
    BY <1>1, RunNumber DEF Answer, InTurn, DomainsOK
  <2>2. UNCHANGED <<chain, stopping, attempt, runs, running, end, task, cancelled, forced>>
    BY <1>1 DEF Answer, retryVars, taskVars, promptVars, abortVars
  <2>3. \A q \in Runs : message[q] = "succeeding" => message'[q] = "succeeding"
    BY <1>1, <2>1 DEF Answer, DomainsOK, InTurn
  <2>4. \A q \in Runs : Carrying(q) => Carrying(q)'
    BY <2>2, <2>3 DEF Carrying
  <2>5. CarriedThroughAbort' /\ ResetEndsChain'
    BY <2>2, <2>4 DEF CarriedThroughAbort, ResetEndsChain
  <2>6. CASE stopping
    BY <2>2, <2>4, <2>5, <2>6 DEF Carried, CarriedThroughAbort
  <2>7. CASE ~stopping
    <3>1. outcome'[running] \in {"ok", "transient", "fatal"} /\ message'[running] = "emitting"
      BY <1>1, <2>1, <2>7 DEF Answer, DomainsOK, Outcomes
    <3>2. runs # 0
      BY <1>1, <2>1 DEF Answer
    <3>3. ErrorDue' \/ SuccessDue'
      BY <2>1, <2>2, <3>1, <3>2 DEF ErrorDue, SuccessDue
    <3>. QED
      BY <2>5, <3>3 DEF Carried
  <2>. QED
    BY <2>6, <2>7
<1>2. CASE RunEnds
  <2>1. running \in Runs
    BY <1>2, RunNumber DEF RunEnds, DomainsOK
  <2>2. ~stopping' /\ UNCHANGED <<chain, attempt, last, outcome, message, forced, cancelled>>
    BY <1>2 DEF RunEnds, retryVars, taskVars, abortVars
  <2>3. \A q \in Runs : end[q] # "none" => end'[q] = end[q]
    BY <1>2, <2>1 DEF RunEnds, DomainsOK, InTurn
  <2>4. \A q \in Runs : task[q] = "delayed" => task'[q] = "delayed"
    BY <1>2, <2>1 DEF RunEnds, DomainsOK, InTurn, taskVars
  <2>5. \A q \in Runs : Carrying(q) => Carrying(q)'
    BY <2>2, <2>3, <2>4 DEF Carrying
  <2>6. Carried'
    <3>1. UNCHANGED <<runs, astray>>
      BY <1>2 DEF RunEnds
    <3>2. ~Unanswered
      BY <1>2 DEF RunEnds, Unanswered
    <3>3. running = runs
      BY <1>2 DEF RunEnds, InTurn
    <3>4. ErrorDue => ErrorDue'
      BY <1>2, <2>1, <2>2, <3>1, <3>3 DEF RunEnds, ErrorDue, DomainsOK
    <3>5. SuccessDue => SuccessDue'
      BY <2>2, <3>1 DEF SuccessDue
    <3>. QED
      BY <2>2, <2>5, <3>1, <3>2, <3>4, <3>5 DEF Carried
  <2>7. ResetEndsChain'
    BY <2>2, <2>3 DEF ResetEndsChain
  <2>. QED
    BY <2>2, <2>6, <2>7 DEF CarriedThroughAbort
<1>3. CASE AbortRetry
  BY <1>3 DEF AbortRetry, CancelRetry, Resolve, Signalled, DomainsOK, InTurn, Carried,
     CarriedThroughAbort, ResetEndsChain, Carrying, Unanswered, ErrorDue, SuccessDue, agentVars,
     handlerVars, taskVars, promptVars
<1>4. CASE Abort
  BY <1>4 DEF Abort, CancelRetry, Resolve, Signalled, DomainsOK, InTurn, Carried,
     CarriedThroughAbort, ResetEndsChain, Carrying, Unanswered, ErrorDue, SuccessDue, handlerVars,
     promptVars
<1>5. CASE AbortReturns
  BY <1>5 DEF AbortReturns, DomainsOK, InTurn, Carried, CarriedThroughAbort,
     ResetEndsChain, Carrying, Unanswered, ErrorDue, SuccessDue, retryVars, agentVars, handlerVars,
     taskVars
<1>6. ASSUME NEW r \in Runs, MessageSeen(r)
      PROVE Carried' /\ CarriedThroughAbort' /\ ResetEndsChain'
  <2>1. outcome[r] # "none"
    BY <1>6 DEF MessageSeen, InTurn
  <2>2. UNCHANGED <<chain, stopping, attempt, outcome, runs, running, forced, end, task,
                    cancelled, astray>>
    BY <1>6 DEF MessageSeen, retryVars, agentVars, taskVars, promptVars, abortVars
  <2>3. message' = [message EXCEPT ![r] =
            IF outcome[r] = "ok" /\ attempt > 0 THEN "succeeding" ELSE "over"]
    BY <1>6 DEF MessageSeen
  <2>4. \A q \in Runs : Carrying(q) => Carrying(q)'
    BY <1>6, <2>2, <2>3 DEF Carrying, MessageSeen, DomainsOK
  <2>5. CarriedThroughAbort' /\ ResetEndsChain'
    BY <2>2, <2>4 DEF CarriedThroughAbort, ResetEndsChain
  <2>6. (Unanswered => Unanswered') /\ (ErrorDue => ErrorDue')
    BY <2>2 DEF Unanswered, ErrorDue
  <2>7. ASSUME SuccessDue, chain PROVE SuccessDue' \/ \E q \in Runs : Carrying(q)'
    <3>1. runs \in Runs
      BY <2>7, RunNumber DEF SuccessDue, DomainsOK
    <3>2. CASE runs # r
      BY <2>2, <2>3, <2>7, <3>1, <3>2 DEF SuccessDue, DomainsOK
    <3>3. CASE runs = r /\ attempt > 0
      BY <2>3, <2>7, <3>3 DEF SuccessDue, Carrying, DomainsOK
    <3>4. CASE attempt = 0
      BY <2>4, <2>7, <3>4 DEF ResetEndsChain, Carrying
    <3>. QED
      BY <3>2, <3>3, <3>4 DEF DomainsOK
  <2>. QED
    BY <2>2, <2>4, <2>5, <2>6, <2>7 DEF Carried
<1>7. ASSUME NEW r \in Runs, SuccessTold(r)
      PROVE Carried' /\ CarriedThroughAbort' /\ ResetEndsChain'
  BY <1>7 DEF SuccessTold, Resolve, DomainsOK, InTurn, Carried, CarriedThroughAbort,
     ResetEndsChain, Carrying, Unanswered, ErrorDue, SuccessDue, agentVars, taskVars, promptVars,
     abortVars
<1>8. ASSUME NEW r \in Runs, Transient(r)
      PROVE Carried' /\ CarriedThroughAbort' /\ ResetEndsChain'
  BY <1>8 DEF Transient, Taken, DomainsOK, InTurn, Carried, CarriedThroughAbort, ResetEndsChain,
     Carrying, Unanswered, ErrorDue, SuccessDue, Judged, agentVars, taskVars, promptVars, abortVars
<1>9. ASSUME NEW r \in Runs, Fatal(r)
      PROVE Carried' /\ CarriedThroughAbort' /\ ResetEndsChain'
  BY <1>9 DEF Fatal, Taken, ForceEnd, Signalled, ChainIsLive, DomainsOK, InTurn, Carried,
     CarriedThroughAbort, ResetEndsChain, Carrying, Unanswered, ErrorDue, SuccessDue, Judged, agentVars,
     taskVars, promptVars, abortVars
<1>10. ASSUME NEW r \in Runs, NothingToRetry(r)
      PROVE Carried' /\ CarriedThroughAbort' /\ ResetEndsChain'
  <2>1. UNCHANGED <<chain, stopping, attempt, outcome, runs, running, forced, message, task,
                    cancelled>>
    BY <1>10 DEF NothingToRetry, retryVars, agentVars, taskVars, promptVars, abortVars
  <2>2. end[r] = "emitting" /\ end' = [end EXCEPT ![r] = "over"]
    BY <1>10 DEF NothingToRetry
  <2>3. \A q \in Runs : Carrying(q) => Carrying(q)'
    BY <2>1, <2>2 DEF Carrying, DomainsOK
  <2>4. ResetEndsChain'
    BY <2>1, <2>2 DEF ResetEndsChain, DomainsOK
  <2>5. CarriedThroughAbort'
    BY <2>1, <2>3 DEF CarriedThroughAbort
  <2>6. (Unanswered => Unanswered') /\ (SuccessDue => SuccessDue')
    BY <2>1 DEF Unanswered, SuccessDue
  <2>7. ASSUME ErrorDue, chain, ~astray' PROVE ErrorDue'
    <3>1. runs \in Runs /\ last \in 0..MaxRuns
      BY <2>7, RunNumber DEF ErrorDue, DomainsOK
    <3>2. ~astray /\ (last = 0 \/ ~(last < r))
      BY <1>10, <2>7 DEF NothingToRetry, Taken
    <3>3. outcome[Judged(r)] \notin {"transient", "fatal"}
      BY <1>10, <2>7 DEF NothingToRetry, ChainIsLive
    <3>4. last # 0 => last \in Runs /\ ~(last > runs)
      BY <3>1, RunNumber DEF InTurn
    <3>5. r # runs
      BY <2>7, <3>1, <3>2, <3>3, <3>4 DEF ErrorDue, Judged, Runs
    <3>. QED
      BY <2>1, <2>2, <2>7, <3>1, <3>5 DEF ErrorDue, DomainsOK
  <2>8. astray => astray'
    BY <1>10 DEF NothingToRetry, Taken
  <2>. QED
    BY <2>1, <2>3, <2>4, <2>5, <2>6, <2>7, <2>8 DEF Carried
<1>11. ASSUME NEW r \in Runs, BackOff(r)
      PROVE Carried' /\ CarriedThroughAbort' /\ ResetEndsChain'
  BY <1>11 DEF BackOff, Signalled, DomainsOK, InTurn, Carried, CarriedThroughAbort,
     ResetEndsChain, Carrying, Unanswered, ErrorDue, SuccessDue, agentVars, taskVars, promptVars,
     abortVars
<1>12. ASSUME NEW r \in Runs, WakeUp(r)
      PROVE Carried' /\ CarriedThroughAbort' /\ ResetEndsChain'
  BY <1>12 DEF WakeUp, DomainsOK, InTurn, Carried, CarriedThroughAbort, ResetEndsChain,
     Carrying, Unanswered, ErrorDue, SuccessDue, agentVars, promptVars, abortVars
<1>13. ASSUME NEW r \in Runs, SleepCancelled(r)
      PROVE Carried' /\ CarriedThroughAbort' /\ ResetEndsChain'
  BY <1>13 DEF SleepCancelled, DomainsOK, InTurn, Carried, CarriedThroughAbort,
     ResetEndsChain, Carrying, Unanswered, ErrorDue, SuccessDue, agentVars, taskVars, promptVars,
     abortVars
<1>14. ASSUME NEW r \in Runs, ChainEnds(r)
      PROVE Carried' /\ CarriedThroughAbort' /\ ResetEndsChain'
  BY <1>14 DEF ChainEnds, Resolve, DomainsOK, InTurn, Carried, CarriedThroughAbort,
     ResetEndsChain, Carrying, Unanswered, ErrorDue, SuccessDue, agentVars, taskVars, promptVars,
     abortVars
<1>15. ASSUME NEW r \in Runs, TaskDropped(r)
      PROVE Carried' /\ CarriedThroughAbort' /\ ResetEndsChain'
  BY <1>15 DEF TaskDropped, TaskOver, DomainsOK, InTurn, Carried, CarriedThroughAbort,
     ResetEndsChain, Carrying, Unanswered, ErrorDue, SuccessDue, retryVars, agentVars, handlerVars,
     promptVars, abortVars
<1>16. ASSUME NEW r \in Runs, Continue(r)
      PROVE Carried' /\ CarriedThroughAbort' /\ ResetEndsChain'
  <2>1. runs + 1 \in Runs /\ runs + 1 > runs /\ runs + 1 # 0
    BY <1>16, RetryAssumption DEF Continue, Start, DomainsOK, Runs
  <2>2. running' = runs + 1 /\ ~stopping'
        /\ UNCHANGED <<chain, attempt, outcome, end, forced>>
    BY <1>16 DEF Continue, Start, retryVars, handlerVars, promptVars, abortVars
  <2>3. Unanswered'
    BY <2>1, <2>2 DEF Unanswered, InTurn
  <2>. QED
    BY <2>2, <2>3 DEF Carried, CarriedThroughAbort, ResetEndsChain
<1>17. ASSUME NEW r \in Runs, CannotContinue(r)
      PROVE Carried' /\ CarriedThroughAbort' /\ ResetEndsChain'
  <2>1. UNCHANGED <<chain, stopping, runs, running, outcome, end, message, astray, cancelled>>
    BY <1>17 DEF CannotContinue, agentVars, handlerVars, promptVars, abortVars
  <2>2. CASE ChainIsLive
    <3>1. r \in forced'
      BY <1>17, <2>2 DEF CannotContinue
    <3>. QED
      BY <3>1 DEF Carried, CarriedThroughAbort, ResetEndsChain, Carrying
  <2>3. CASE ~ChainIsLive
    BY <2>1, <2>3 DEF Carried, CarriedThroughAbort, ResetEndsChain, ChainIsLive
  <2>. QED
    BY <2>2, <2>3
<1>18. ASSUME NEW r \in Runs, ForcedEnd(r)
      PROVE Carried' /\ CarriedThroughAbort' /\ ResetEndsChain'
  BY <1>18 DEF ForcedEnd, Resolve, DomainsOK, InTurn, Carried, CarriedThroughAbort,
     ResetEndsChain, Carrying, Unanswered, ErrorDue, SuccessDue, agentVars, handlerVars, promptVars,
     abortVars
<1>19. ASSUME NEW p \in Prompts, Prompt(p)
      PROVE Carried' /\ CarriedThroughAbort' /\ ResetEndsChain'
  BY <1>19 DEF Prompt, DomainsOK, InTurn, Carried, CarriedThroughAbort, ResetEndsChain,
     Carrying, Unanswered, ErrorDue, SuccessDue, retryVars, agentVars, handlerVars, taskVars, abortVars
<1>20. ASSUME NEW p \in Prompts, Superseded(p)
      PROVE Carried' /\ CarriedThroughAbort' /\ ResetEndsChain'
  BY <1>20 DEF Superseded, Leave, Fewer, DomainsOK, InTurn, Carried, CarriedThroughAbort,
     ResetEndsChain, Carrying, Unanswered, ErrorDue, SuccessDue, retryVars, agentVars, handlerVars,
     taskVars, abortVars
<1>21. ASSUME NEW p \in Prompts, Send(p)
      PROVE Carried' /\ CarriedThroughAbort' /\ ResetEndsChain'
  <2>1. runs + 1 \in Runs /\ runs + 1 > runs /\ runs + 1 # 0
    BY <1>21, RetryAssumption DEF Send, Start, DomainsOK, Runs
  <2>2. running' = runs + 1 /\ ~stopping'
        /\ UNCHANGED <<chain, attempt, outcome, end, forced>>
    BY <1>21 DEF Send, Start, retryVars, handlerVars, taskVars, abortVars
  <2>3. Unanswered'
    BY <2>1, <2>2 DEF Unanswered, InTurn
  <2>. QED
    BY <2>2, <2>3 DEF Carried, CarriedThroughAbort, ResetEndsChain
<1>22. ASSUME NEW p \in Prompts, AgentBusy(p)
      PROVE Carried' /\ CarriedThroughAbort' /\ ResetEndsChain'
  BY <1>22 DEF AgentBusy, DomainsOK, InTurn, Carried, CarriedThroughAbort, ResetEndsChain,
     Carrying, Unanswered, ErrorDue, SuccessDue, retryVars, agentVars, handlerVars, taskVars, abortVars
<1>23. ASSUME NEW p \in Prompts, WaitExpires(p)
      PROVE Carried' /\ CarriedThroughAbort' /\ ResetEndsChain'
  BY <1>23 DEF WaitExpires, Leave, Fewer, DomainsOK, InTurn, Carried, CarriedThroughAbort,
     ResetEndsChain, Carrying, Unanswered, ErrorDue, SuccessDue, retryVars, agentVars, handlerVars,
     taskVars, abortVars
<1>24. ASSUME NEW p \in Prompts, Recovered(p)
      PROVE Carried' /\ CarriedThroughAbort' /\ ResetEndsChain'
  BY <1>24 DEF Recovered, Leave, Fewer, DomainsOK, InTurn, Carried, CarriedThroughAbort,
     ResetEndsChain, Carrying, Unanswered, ErrorDue, SuccessDue, retryVars, agentVars, handlerVars,
     taskVars, abortVars
<1>. QED
  BY <1>1, <1>2, <1>3, <1>4, <1>5, <1>6, <1>7, <1>8, <1>9, <1>10, <1>11, <1>12, <1>13,
     <1>14, <1>15, <1>16, <1>17, <1>18, <1>19, <1>20, <1>21, <1>22, <1>23, <1>24 DEF Next,
     Handle, RunTask, Go

\* The invariant holds at first, and every step keeps it.
LEMMA Inductive == Spec => []IInv
<1>1. Init => IInv
  <2>1. Init => FlagsOK
    BY DEF Init, FlagsOK
  <2>2. Init => DomainsOK
    BY RetryAssumption DEF Init, DomainsOK
  <2>3. Init => InTurn
    BY RetryAssumption DEF Init, InTurn, Runs
  <2>4. Init => Carried /\ CarriedThroughAbort /\ ResetEndsChain
    BY DEF Init, Carried, CarriedThroughAbort, ResetEndsChain
  <2>. QED
    BY <2>1, <2>2, <2>3, <2>4 DEF IInv, TypeOK
<1>2. IInv /\ [Next]_vars => IInv'
  <2>. SUFFICES ASSUME IInv, [Next]_vars PROVE IInv'
    OBVIOUS
  <2>1. CASE Next
    BY <2>1, FlagsKept, TypesKept, TurnsKept, CarriersKept DEF IInv, TypeOK
  <2>2. CASE UNCHANGED vars
    <3>. USE <2>2 DEF IInv, TypeOK, vars, retryVars, agentVars, handlerVars, taskVars,
           promptVars, abortVars
    <3>1. FlagsOK'
      BY DEF FlagsOK
    <3>2. DomainsOK'
      BY DEF DomainsOK
    <3>3. InTurn'
      BY DEF InTurn
    <3>4. Carried' /\ CarriedThroughAbort' /\ ResetEndsChain'
      BY DEF Carried, CarriedThroughAbort, ResetEndsChain, Carrying, Unanswered, ErrorDue, SuccessDue
    <3>. QED
      BY <3>1, <3>2, <3>3, <3>4
  <2>. QED
    BY <2>1, <2>2
<1>. QED
  BY <1>1, <1>2, PTL DEF Spec

\* The state of the retry keeps its types, and never more than one prompt is counted in
\* flight (#promptInFlightCount), whatever the extensions do and in whatever order; the
\* prompts that compaction and handoff nest in a prompt are not part of the model.
THEOREM RetryTypeOK == Spec => []TypeOK
<1>1. Init => TypeOK
  <2>1. Init => FlagsOK
    BY DEF Init, FlagsOK
  <2>2. Init => DomainsOK
    BY RetryAssumption DEF Init, DomainsOK
  <2>. QED
    BY <2>1, <2>2 DEF TypeOK
<1>2. TypeOK /\ [Next]_vars => TypeOK'
  <2>. SUFFICES ASSUME TypeOK, [Next]_vars PROVE TypeOK'
    OBVIOUS
  <2>1. CASE Next
    BY <2>1, FlagsKept, TypesKept DEF TypeOK
  <2>2. CASE UNCHANGED vars
    <3>. USE <2>2 DEF TypeOK, vars, retryVars, agentVars, handlerVars, taskVars,
           promptVars, abortVars
    <3>1. FlagsOK'
      BY DEF FlagsOK
    <3>2. DomainsOK'
      BY DEF DomainsOK
    <3>. QED
      BY <3>1, <3>2
  <2>. QED
    BY <2>1, <2>2
<1>. QED
  BY <1>1, <1>2, PTL DEF Spec

\* As long as no agent_end handler has judged the message of an earlier run, a live
\* #retryPromise has something under way that can resolve it: the prompts that wait for
\* it never wait for nothing, for any number of prompts, errors and aborts and whatever
\* order the extensions are through with the events in.
THEOREM ChainNeverOrphaned == Spec => []NoOrphanedChain
<1>1. IInv => NoOrphanedChain
  <2>. SUFFICES ASSUME IInv, chain, ~astray PROVE EndInSight
    BY DEF NoOrphanedChain
  <2>1. CASE Unanswered
    BY <2>1 DEF Unanswered, EndInSight
  <2>2. CASE ErrorDue
    <3>1. runs \in Runs
      BY <2>2, RunNumber DEF ErrorDue, IInv, TypeOK, DomainsOK
    <3>2. end[runs] = "none" => running = runs /\ running # 0
      BY <2>2, <3>1 DEF ErrorDue, IInv, InTurn
    <3>3. end[runs] = "emitting" => Pending(runs)
      BY DEF Pending
    <3>. QED
      BY <2>2, <3>1, <3>2, <3>3 DEF ErrorDue, EndInSight
  <2>3. CASE SuccessDue
    <3>1. runs \in Runs
      BY <2>3, RunNumber DEF SuccessDue, IInv, TypeOK, DomainsOK
    <3>. QED
      BY <2>3, <3>1 DEF SuccessDue, EndInSight, Pending
  <2>4. CASE \E r \in Runs : Carrying(r)
    BY <2>4 DEF Carrying, EndInSight, Pending
  <2>. QED
    BY <2>1, <2>2, <2>3, <2>4 DEF IInv, Carried
<1>. QED
  BY <1>1, Inductive, PTL

=============================================================================
