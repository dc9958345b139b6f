----------------------------- MODULE AgentLoop -----------------------------
(***************************************************************************)
(* The agent loop of packages/agent: the Agent object with its steering    *)
(* and follow-up queues (agent.ts) driving one run of the loop             *)
(* (agent-loop.ts: runLoop, streamAssistantResponse, executeToolCalls).    *)
(*                                                                         *)
(* The code runs on one JavaScript thread: an action is the code between   *)
(* two points where the thread may be given away (an await on a model      *)
(* event, on a tool, on a queue poll).  The user, the model and the tools  *)
(* are the environment.  The transcript is Agent.state.messages: an entry  *)
(* is appended when its message_end event is pushed.                       *)
(***************************************************************************)
EXTENDS Integers, Sequences, FiniteSets

CONSTANTS
    Msgs,            \* user messages; each is given to the agent at most once
    MaxRuns,         \* bound: calls of prompt() and continue()
    MaxToolTurns,    \* bound: assistant messages that carry tool calls
    MaxCalls,        \* bound: tool calls in one assistant message
    SteeringMode,    \* "one-at-a-time" or "all"
    FollowUpMode,    \* "one-at-a-time" or "all"
    InterruptMode,   \* "immediate" or "wait"
    EarlyDispatch,   \* earlyDispatchParallelTools = "enforce"
    Barrier,         \* sequentialToolStreamBarrier = "enforce"
    ResolveMayThrow  \* resolveUnknownTool may reject

ASSUME ConfigAssumption ==
    /\ MaxRuns \in Nat /\ MaxToolTurns \in Nat /\ MaxCalls \in Nat
    /\ SteeringMode \in {"one-at-a-time", "all"}
    /\ FollowUpMode \in {"one-at-a-time", "all"}
    /\ InterruptMode \in {"immediate", "wait"}
    /\ EarlyDispatch \in BOOLEAN
    /\ Barrier \in BOOLEAN
    /\ ResolveMayThrow \in BOOLEAN

VARIABLES
    unsent,        \* messages the user has not written yet
    steering,      \* Agent.#steeringQueue
    followUp,      \* Agent.#followUpQueue
    removed,       \* messages the user took back out of a queue
    dropped,       \* messages dequeued by a run that then forgot them
    pc,            \* where the loop is; "idle" between runs
    runs,          \* runs started so far
    skipPoll,      \* skipInitialSteeringPoll
    aborted,       \* the run's abort signal
    pending,       \* pendingMessages
    hasMore,       \* hasMoreToolCalls
    transcript,    \* Agent.state.messages
    turn,          \* model calls so far: names the assistant messages
    toolTurns,     \* assistant messages with tool calls so far
    calls,         \* tool calls of the current assistant message
    orphans,       \* executions that outlived their assistant message
    triggered,     \* interruptState.triggered
    checking,      \* a steering check is in flight
    polled,        \* what that check dequeued
    steeringAfter  \* executeToolCalls' steeringMessages

userVars == <<unsent, steering, followUp, removed>>
runVars  == <<pc, runs, skipPoll, aborted>>
turnVars == <<pending, hasMore, transcript, turn, toolTurns>>
toolVars == <<calls, orphans, triggered, checking, polled, steeringAfter>>
vars     == <<userVars, dropped, runVars, turnVars, toolVars>>

-----------------------------------------------------------------------------
(* The transcript and the calls of the current message.                    *)

UserMsg(m)       == [role |-> "user", msg |-> m]
Assistant(n, st) == [role |-> "assistant", run |-> runs, turn |-> turn,
                     calls |-> n, stop |-> st]
Result(i, out)   == [role |-> "toolResult", run |-> runs, turn |-> turn,
                     call |-> i, outcome |-> out]

Outcomes == {"real", "halt", "skipped", "aborted"}

Entries == [role : {"user"}, msg : Msgs]
           \cup [role : {"assistant"}, run : Nat, turn : Nat, calls : Nat,
                 stop : {"stop", "toolUse", "error", "aborted"}]
           \cup [role : {"toolResult"}, run : Nat, turn : Nat, call : Nat,
                 outcome : Outcomes]

(* tool: how the call's name is found in context.tools; "unknown" until    *)
(* resolveUnknownTool has been asked, "missing" when it found nothing.     *)
(* exec: tool.execute; "halt" is a result with haltsLoop.                  *)
(* step: runTool's position.  result: the tool result emitted for it.      *)
Call == [tool   : {"parallel", "sequential", "unknown", "missing"},
         exec   : {"none", "running", "ok", "halt"},
         step   : {"waiting", "running", "checking", "returned"},
         eager  : BOOLEAN,
         result : Outcomes \cup {"none"}]

UserMsgs(ms) == [i \in DOMAIN ms |-> UserMsg(ms[i])]

(* #dequeueSteeringMessages / #dequeueFollowUpMessages: what a poll takes  *)
(* and what it leaves.                                                     *)
Taken(mode, q) == IF mode = "all" \/ q = <<>> THEN q ELSE <<Head(q)>>
Left(mode, q)  == IF mode = "all" \/ q = <<>> THEN <<>> ELSE Tail(q)

(* wantsSequential: one sequential tool makes the whole batch serial.      *)
FirstIsSerial(cs) == cs # <<>> /\ cs[1].tool = "sequential"        \* mutant
IsSerial(cs) == \E i \in DOMAIN cs : cs[i].tool = "sequential"

-----------------------------------------------------------------------------
Init ==
    /\ unsent = Msgs
    /\ steering = <<>> /\ followUp = <<>> /\ removed = {} /\ dropped = {}
    /\ pc = "idle" /\ runs = 0 /\ skipPoll = FALSE /\ aborted = FALSE
    /\ pending = <<>> /\ hasMore = FALSE
    /\ transcript = <<>> /\ turn = 0 /\ toolTurns = 0
    /\ calls = <<>> /\ orphans = {}
    /\ triggered = FALSE /\ checking = FALSE
    /\ polled = <<>> /\ steeringAfter = <<>>

-----------------------------------------------------------------------------
(* The user.                                                               *)

Steer(m) ==
    /\ m \in unsent
    /\ unsent' = unsent \ {m}
    /\ steering' = Append(steering, m)
    /\ UNCHANGED <<followUp, removed, dropped, runVars, turnVars, toolVars>>

FollowUp(m) ==
    /\ m \in unsent
    /\ unsent' = unsent \ {m}
    /\ followUp' = Append(followUp, m)
    /\ UNCHANGED <<steering, removed, dropped, runVars, turnVars, toolVars>>

PopLastSteer ==
    /\ steering # <<>>
    /\ removed' = removed \cup {steering[Len(steering)]}
    /\ steering' = SubSeq(steering, 1, Len(steering) - 1)
    /\ UNCHANGED <<unsent, followUp, dropped, runVars, turnVars, toolVars>>

PopLastFollowUp ==
    /\ followUp # <<>>
    /\ removed' = removed \cup {followUp[Len(followUp)]}
    /\ followUp' = SubSeq(followUp, 1, Len(followUp) - 1)
    /\ UNCHANGED <<unsent, steering, dropped, runVars, turnVars, toolVars>>

ClearAllQueues ==
    /\ steering \o followUp # <<>>
    /\ removed' = removed \cup {steering[i] : i \in DOMAIN steering}
                          \cup {followUp[i] : i \in DOMAIN followUp}
    /\ steering' = <<>> /\ followUp' = <<>>
    /\ UNCHANGED <<unsent, dropped, runVars, turnVars, toolVars>>

Abort ==
    /\ pc # "idle" /\ ~aborted
    /\ aborted' = TRUE
    /\ UNCHANGED <<userVars, dropped, pc, runs, skipPoll, turnVars, toolVars>>

(* #runLoop: a run opens with the messages ms already in the transcript.   *)
StartRun(ms, skip) ==
    /\ runs < MaxRuns
    /\ runs' = runs + 1
    /\ pc' = "firstPoll"
    /\ skipPoll' = skip
    /\ aborted' = FALSE
    /\ transcript' = transcript \o UserMsgs(ms)
    /\ hasMore' = TRUE
    /\ UNCHANGED <<removed, dropped, pending, turn, toolTurns, toolVars>>

(* prompt() throws AgentBusyError unless the agent is idle.                *)
Prompt(m) ==
    /\ pc = "idle"
    /\ m \in unsent
    /\ unsent' = unsent \ {m}
    /\ StartRun(<<m>>, FALSE)
    /\ UNCHANGED <<steering, followUp>>

EndsWithAssistant ==
    transcript # <<>> /\ transcript[Len(transcript)].role = "assistant"

(* continue(): resumes from a user message or a tool result, otherwise     *)
(* from the first queue that holds something.                              *)
Continue ==
    /\ pc = "idle"
    /\ transcript # <<>>
    /\ UNCHANGED unsent
    /\ \/ /\ ~EndsWithAssistant
          /\ StartRun(<<>>, FALSE)
          /\ UNCHANGED <<steering, followUp>>
       \/ /\ EndsWithAssistant /\ steering # <<>>
          /\ StartRun(Taken(SteeringMode, steering), TRUE)
          /\ steering' = Left(SteeringMode, steering)
          /\ UNCHANGED followUp
       \/ /\ EndsWithAssistant /\ steering = <<>> /\ followUp # <<>>
          /\ StartRun(Taken(FollowUpMode, followUp), FALSE)
          /\ followUp' = Left(FollowUpMode, followUp)
          /\ UNCHANGED steering

-----------------------------------------------------------------------------
(* runLoop.                                                                *)

FirstPoll ==
    /\ pc = "firstPoll"
    /\ pc' = "inner"
    /\ skipPoll' = FALSE
    /\ \/ skipPoll /\ pending' = <<>> /\ UNCHANGED steering
       \/ /\ ~skipPoll
          /\ pending' = Taken(SteeringMode, steering)
          /\ steering' = Left(SteeringMode, steering)
    /\ UNCHANGED <<unsent, followUp, removed, dropped, runs, aborted,
                   hasMore, transcript, turn, toolTurns, toolVars>>

(* Inject the pending messages and prepare the model call.                 *)
StartTurn ==
    /\ pc = "inner"
    /\ hasMore \/ pending # <<>>
    /\ pc' = "request"
    /\ transcript' = transcript \o UserMsgs(pending)
    /\ pending' = <<>>
    /\ UNCHANGED <<userVars, dropped, runs, skipPoll, aborted,
                   hasMore, turn, toolTurns, toolVars>>

(* The inner loop is over: poll the follow-up queue, or end the run.       *)
FollowUpPoll ==
    /\ pc = "inner"
    /\ ~hasMore /\ pending = <<>>
    /\ pending' = Taken(FollowUpMode, followUp)
    /\ followUp' = Left(FollowUpMode, followUp)
    /\ hasMore' = (followUp # <<>>)
    /\ pc' = IF followUp = <<>> THEN "idle" ELSE "inner"
    /\ UNCHANGED <<unsent, steering, removed, dropped, runs, skipPoll, aborted,
                   transcript, turn, toolTurns, toolVars>>

-----------------------------------------------------------------------------
(* streamAssistantResponse.                                                *)

StillRunning == {<<turn, i>> : i \in {j \in DOMAIN calls : calls[j].exec = "running"}}

OpenStream ==
    /\ pc = "request"
    /\ pc' = "streaming"
    /\ turn' = turn + 1
    /\ orphans' = orphans \cup StillRunning
    /\ calls' = <<>>
    /\ triggered' = FALSE /\ steeringAfter' = <<>>
    /\ UNCHANGED <<userVars, dropped, runs, skipPoll, aborted, pending, hasMore,
                   transcript, toolTurns, checking, polled>>

(* transformContext, convertToLlm, getApiKey or the stream function throws:*)
(* the catch of agentLoop ends the run without a message.                  *)
RequestFails ==
    /\ pc = "request"
    /\ pc' = "idle"
    /\ UNCHANGED <<userVars, dropped, runs, skipPoll, aborted, turnVars, toolVars>>

CloseMessage(n, st) == transcript' = Append(transcript, Assistant(n, st))

Dispatched(kind)  == EarlyDispatch /\ kind = "parallel"

(* A toolcall_end event.  A parallel tool of the active set is dispatched  *)
(* at once; a sequential one closes the message.                           *)
ToolCallEnd(kind) ==
    LET dispatch == Dispatched(kind)
        cut      == Barrier /\ kind = "sequential"
        call     == [tool |-> kind, exec |-> IF dispatch THEN "running" ELSE "none",
                     step |-> "waiting", eager |-> dispatch, result |-> "none"]
    IN /\ pc = "streaming" /\ ~aborted
       /\ Len(calls) < MaxCalls
       /\ calls # <<>> \/ toolTurns < MaxToolTurns
       /\ calls' = Append(calls, call)
       /\ toolTurns' = IF calls = <<>> THEN toolTurns + 1 ELSE toolTurns
       /\ \/ cut /\ CloseMessage(Len(calls) + 1, "toolUse") /\ pc' = "resolve"
          \/ ~cut /\ UNCHANGED <<transcript, pc>>
       /\ UNCHANGED <<userVars, dropped, runs, skipPoll, aborted, pending, hasMore,
                      turn, orphans, triggered, checking, polled, steeringAfter>>

(* A done event.                                                           *)
StreamDone ==
    /\ pc = "streaming" /\ ~aborted
    /\ hasMore' = (calls # <<>>)
    /\ \/ calls = <<>> /\ CloseMessage(0, "stop") /\ pc' = "turnEnd"
       \/ calls # <<>> /\ CloseMessage(Len(calls), "toolUse") /\ pc' = "resolve"
    /\ UNCHANGED <<userVars, dropped, runs, skipPoll, aborted, pending, turn,
                   toolTurns, toolVars>>

NoReason   == "partial"                                           \* mutant
StopReason == IF aborted THEN "aborted" ELSE "error"

(* An error event, or any event after an abort: the message is closed as it*)
(* stands, every call it carries gets a placeholder result, the run ends.  *)
StreamFails ==
    /\ pc = "streaming"
    /\ transcript' = Append(transcript, Assistant(Len(calls), StopReason))
                     \o [i \in DOMAIN calls |-> Result(i, "aborted")]
    /\ calls' = [i \in DOMAIN calls |-> [calls[i] EXCEPT !.result = "aborted"]]
    /\ pc' = "idle"
    /\ UNCHANGED <<userVars, dropped, runs, skipPoll, aborted, pending, hasMore,
                   turn, toolTurns, orphans, triggered, checking, polled,
                   steeringAfter>>

-----------------------------------------------------------------------------
(* executeToolCalls.                                                       *)

(* runTool up to its first await: the eager execution is picked up, any    *)
(* other known tool is executed, a missing one fails at once.              *)
Started(c) ==
    [c EXCEPT !.step = "running",
              !.exec = IF c.eager \/ c.tool = "missing" THEN c.exec ELSE "running"]

(* resolveUnknownTool has answered for every unknown name.  A batch without*)
(* a sequential tool starts as a whole.                                    *)
ResolveTools(found) ==
    LET known == [i \in DOMAIN calls |->
                     IF calls[i].tool = "unknown"
                     THEN [calls[i] EXCEPT !.tool = found[i]] ELSE calls[i]]
    IN /\ pc = "resolve"
       /\ pc' = "batch"
       /\ hasMore' = TRUE
       /\ calls' = IF IsSerial(known) THEN known
                   ELSE [i \in DOMAIN known |-> Started(known[i])]
       /\ UNCHANGED <<userVars, dropped, runs, skipPoll, aborted, pending, transcript,
                      turn, toolTurns, orphans, triggered, checking, polled,
                      steeringAfter>>

(* resolveUnknownTool rejects: nothing in executeToolCalls catches it.     *)
ResolveThrows ==
    /\ ResolveMayThrow
    /\ pc = "resolve"
    /\ \E i \in DOMAIN calls : calls[i].tool = "unknown"
    /\ pc' = "idle"
    /\ UNCHANGED <<userVars, dropped, runs, skipPoll, aborted, turnVars, toolVars>>

(* The call a serial batch comes to next, unless a steering message came.  *)
InTurn(i) ==
    /\ calls[i].step = "waiting"
    /\ \A j \in 1..(i - 1) : calls[j].step = "returned"
RunsAnyway(i) == InTurn(i)                                        \* mutant
MayStart(i)   == InTurn(i) /\ ~triggered

StartNext(i) ==
    /\ pc = "batch" /\ IsSerial(calls)
    /\ i \in DOMAIN calls /\ MayStart(i)
    /\ calls' = [calls EXCEPT ![i] = Started(@)]
    /\ UNCHANGED <<userVars, dropped, runVars, turnVars, orphans, triggered,
                   checking, polled, steeringAfter>>

(* The tool itself: its promise settles, whatever became of the run.       *)
ToolFinishes(i) ==
    /\ i \in DOMAIN calls
    /\ calls[i].exec = "running"
    /\ \E out \in {"ok", "halt"} : calls' = [calls EXCEPT ![i].exec = out]
    /\ UNCHANGED <<userVars, dropped, runVars, turnVars, orphans, triggered,
                   checking, polled, steeringAfter>>

OrphanFinishes(o) ==
    /\ o \in orphans
    /\ orphans' = orphans \ {o}
    /\ UNCHANGED <<userVars, dropped, runVars, turnVars, calls, triggered,
                   checking, polled, steeringAfter>>

(* What runTool emits for a finished tool: an eager execution its result,  *)
(* any other one its result unless the batch was interrupted meanwhile.    *)
Emitted(c) ==
    IF triggered /\ ~c.eager THEN "skipped"
    ELSE IF c.exec = "halt" THEN "halt" ELSE "real"

(* checkSteering: whether it waits for a poll, and whether it opens it     *)
(* rather than share the one in flight.                                    *)
ChecksSteering == InterruptMode = "immediate" /\ ~triggered
OpensEach == ChecksSteering                                       \* mutant
OpensPoll == ChecksSteering /\ ~checking

(* runTool emits the result and calls checkSteering, which dequeues in the *)
(* same tick.                                                              *)
EmitResult(i) ==
    /\ pc = "batch"
    /\ i \in DOMAIN calls
    /\ calls[i].step = "running"
    /\ calls[i].exec \in {"ok", "halt"} \/ calls[i].tool = "missing"
    /\ transcript' = Append(transcript, Result(i, Emitted(calls[i])))
    /\ calls' = [calls EXCEPT ![i].result = Emitted(calls[i]),
                              ![i].step = IF ChecksSteering THEN "checking"
                                          ELSE "returned"]
    /\ checking' = (checking \/ ChecksSteering)
    /\ \/ /\ OpensPoll
          /\ polled' = Taken(SteeringMode, steering)
          /\ steering' = Left(SteeringMode, steering)
       \/ ~OpensPoll /\ UNCHANGED <<polled, steering>>
    /\ UNCHANGED <<unsent, followUp, removed, dropped, runVars, pending, hasMore,
                   turn, toolTurns, orphans, triggered, steeringAfter>>

(* The steering check resolves for every tool waiting on it.               *)
CheckReturns ==
    /\ checking
    /\ checking' = FALSE
    /\ polled' = <<>>
    /\ triggered' = (polled # <<>>)
    /\ steeringAfter' = polled
    /\ calls' = [i \in DOMAIN calls |->
                    IF calls[i].step = "checking"
                    THEN [calls[i] EXCEPT !.step = "returned"] ELSE calls[i]]
    /\ UNCHANGED <<userVars, dropped, runVars, turnVars, orphans>>

(* The batch is over: skipped results for the calls that have none, in     *)
(* source order; a halting result ends the run there.                      *)
AllReturned ==                                                    \* mutant
    /\ pc = "batch" /\ ~checking
    /\ \A i \in DOMAIN calls : calls[i].step = "returned"
BatchOver ==
    /\ pc = "batch" /\ ~checking
    /\ \A i \in DOMAIN calls :
          \/ calls[i].step = "returned"
          \/ calls[i].step = "waiting" /\ triggered

NobodySkipped == {}                                               \* mutant
Unanswered == {i \in DOMAIN calls : calls[i].result = "none"}

(* The sequence s lists the set S of call indices in source order.         *)
InSourceOrder(s, S) ==
    /\ {s[k] : k \in DOMAIN s} = S
    /\ \A k, l \in DOMAIN s : k < l => s[k] < s[l]

AllHalted == \A i \in DOMAIN calls : calls[i].result = "halt"     \* mutant
Halted == \E i \in DOMAIN calls : calls[i].result = "halt"

SettleBatch ==
    /\ BatchOver
    /\ \E n \in 0..Len(calls) : \E rest \in [1..n -> DOMAIN calls] :
          /\ InSourceOrder(rest, Unanswered)
          /\ transcript' = transcript \o [k \in 1..n |-> Result(rest[k], "skipped")]
    /\ calls' = [i \in DOMAIN calls |->
                    IF i \in Unanswered
                    THEN [calls[i] EXCEPT !.result = "skipped"] ELSE calls[i]]
    /\ \/ /\ Halted
          /\ pc' = "idle"
          /\ dropped' = dropped \cup {steeringAfter[i] : i \in DOMAIN steeringAfter}
          /\ steeringAfter' = <<>>
       \/ /\ ~Halted
          /\ pc' = "turnEnd"
          /\ UNCHANGED <<dropped, steeringAfter>>
    /\ UNCHANGED <<userVars, runs, skipPoll, aborted, pending, hasMore, turn,
                   toolTurns, orphans, triggered, checking, polled>>

Forgotten    == <<>>                                              \* mutant
Interrupting == steeringAfter

(* After turn_end: the messages that interrupted the batch, else a poll.   *)
TurnEnd ==
    /\ pc = "turnEnd"
    /\ pc' = "inner"
    /\ steeringAfter' = <<>>
    /\ \/ /\ Interrupting # <<>>
          /\ pending' = Interrupting
          /\ UNCHANGED steering
       \/ /\ Interrupting = <<>>
          /\ pending' = Taken(SteeringMode, steering)
          /\ steering' = Left(SteeringMode, steering)
    /\ UNCHANGED <<unsent, followUp, removed, dropped, runs, skipPoll, aborted,
                   hasMore, transcript, turn, toolTurns, calls, orphans,
                   triggered, checking, polled>>

-----------------------------------------------------------------------------
User ==
    \/ \E m \in Msgs : Steer(m) \/ FollowUp(m) \/ Prompt(m)
    \/ PopLastSteer \/ PopLastFollowUp \/ ClearAllQueues
    \/ Abort \/ Continue

Model ==
    \/ \E kind \in {"parallel", "sequential", "unknown"} : ToolCallEnd(kind)
    \/ StreamDone \/ StreamFails

Tools ==
    \/ \E i \in 1..MaxCalls : ToolFinishes(i)
    \/ \E o \in orphans : OrphanFinishes(o)

Loop ==
    \/ FirstPoll \/ StartTurn \/ FollowUpPoll \/ OpenStream \/ RequestFails
    \/ \E found \in [1..MaxCalls -> {"parallel", "sequential", "missing"}] :
          ResolveTools(found)
    \/ ResolveThrows
    \/ \E i \in 1..MaxCalls : StartNext(i) \/ EmitResult(i)
    \/ CheckReturns \/ SettleBatch \/ TurnEnd

Next == User \/ Model \/ Tools \/ Loop

Spec == Init /\ [][Next]_vars

(* The thread runs what is ready, every tool's promise settles and every   *)
(* model stream ends.  Nothing is assumed of the user.                     *)
Fairness ==
    /\ WF_vars(Loop)
    /\ WF_vars(StreamDone \/ StreamFails)
    /\ \A i \in 1..MaxCalls : WF_vars(ToolFinishes(i))

FairSpec == Spec /\ Fairness
-----------------------------------------------------------------------------
(* Type correctness.                                                       *)
TypeOK ==
    /\ unsent \subseteq Msgs /\ removed \subseteq Msgs /\ dropped \subseteq Msgs
    /\ steering \in Seq(Msgs) /\ followUp \in Seq(Msgs)
    /\ pending \in Seq(Msgs) /\ polled \in Seq(Msgs) /\ steeringAfter \in Seq(Msgs)
    /\ pc \in {"idle", "firstPoll", "inner", "request", "streaming", "resolve",
               "batch", "turnEnd"}
    /\ runs \in Nat /\ turn \in Nat /\ toolTurns \in Nat
    /\ skipPoll \in BOOLEAN /\ aborted \in BOOLEAN /\ hasMore \in BOOLEAN
    /\ triggered \in BOOLEAN /\ checking \in BOOLEAN
    /\ transcript \in Seq(Entries)
    /\ calls \in Seq(Call) /\ Len(calls) <= MaxCalls
    /\ orphans \subseteq Nat \X Nat

IsAssistant(k) == transcript[k].role = "assistant"
IsResult(k)    == transcript[k].role = "toolResult"
IsUser(k)      == transcript[k].role = "user"

(* The entries that must answer the assistant message at a.                *)
Answers(a) == (a + 1)..(a + transcript[a].calls)

(* Outside a batch, every assistant message is followed at once by exactly *)
(* one result for each of its tool calls, and there is no other result:    *)
(* the pairing createAbortedToolResult, createSkippedToolResult and the    *)
(* once-only emitToolResult are there to maintain (agent-loop.ts 283-293,  *)
(* 726, 899-904), through steering, errors and aborts.                     *)
ToolResultPairing ==
    pc \notin {"resolve", "batch"} =>
    /\ \A a \in DOMAIN transcript : IsAssistant(a) =>
          /\ Answers(a) \subseteq DOMAIN transcript
          /\ \A k \in Answers(a) : IsResult(k) /\ transcript[k].turn = transcript[a].turn
          /\ {transcript[k].call : k \in Answers(a)} = 1..transcript[a].calls
    /\ \A k \in DOMAIN transcript : IsResult(k) =>
          \E a \in 1..(k - 1) : IsAssistant(a) /\ k \in Answers(a)

(* No user message is lost or said twice: each is unwritten, taken back,   *)
(* forgotten by a halted batch, or in exactly one position of exactly one  *)
(* of the two queues, the three buffers of the run and the transcript, over*)
(* polls that race with each other (agent-loop.ts 680-699, 342-347).       *)
InTransit == pending \o polled \o steeringAfter
Queued    == steering \o followUp \o InTransit
Said      == {k \in DOMAIN transcript : IsUser(k)}

EachMessageOnce ==
    LET queued == {Queued[i] : i \in DOMAIN Queued}
        said   == {transcript[k].msg : k \in Said}
        gone   == removed \cup dropped
    IN /\ \A i, j \in DOMAIN Queued : Queued[i] = Queued[j] => i = j
       /\ \A i, j \in Said : transcript[i].msg = transcript[j].msg => i = j
       /\ Msgs = unsent \cup gone \cup queued \cup said
       /\ unsent \cap (gone \cup queued \cup said) = {}
       /\ gone \cap (queued \cup said) = {}
       /\ queued \cap said = {}
       /\ removed \cap dropped = {}

(* A batch that skipped a call and did not halt is answered by the user    *)
(* message that interrupted it: nothing comes between its last result and  *)
(* that message (types.ts 97-100, agent-loop.ts 342-344).                  *)
SkipIsExplained ==
    \A a \in DOMAIN transcript :
        LET next == a + transcript[a].calls + 1
        IN /\ IsAssistant(a)
           /\ next \in DOMAIN transcript
           /\ \E k \in Answers(a) : transcript[k].outcome = "skipped"
           /\ \A k \in Answers(a) : transcript[k].outcome # "halt"
           => IsUser(next)

(* Once a halting result is in the transcript, the run that recorded it    *)
(* makes no further model call (agent-loop.ts 325-336).                    *)
HaltIsFinal ==
    \A k, a \in DOMAIN transcript :
        /\ k < a /\ IsResult(k) /\ transcript[k].outcome = "halt" /\ IsAssistant(a)
        => transcript[a].run # transcript[k].run

(* A sequential tool shares its execution with no sibling but those after  *)
(* it that were dispatched while the message was still streaming           *)
(* (agent-loop.ts 887-893, types.ts 317-323).                              *)
Executing(i) == calls[i].exec = "running"

SequentialAlone ==
    \A i, j \in DOMAIN calls :
        calls[i].tool = "sequential" /\ Executing(i) /\ Executing(j) /\ i # j
        => j > i /\ calls[j].eager

(* No tool starts once a steering message has interrupted the batch        *)
(* (agent-loop.ts 766-769, 891).                                           *)
NoStartAfterInterrupt ==
    [][triggered =>
          \A i \in DOMAIN calls \cap DOMAIN calls' :
             calls[i].exec = "none" => calls'[i].exec # "running"]_vars

(* Every run comes to an end.                                              *)
RunEnds == pc # "idle" ~> pc = "idle"

(* A message a run has taken off a queue reaches the transcript, unless a  *)
(* halting result ended the run first.                                     *)
TakenIsSaid ==
    \A m \in Msgs :
        (\E i \in DOMAIN InTransit : InTransit[i] = m) ~>
           (m \in dropped \/ \E k \in Said : transcript[k].msg = m)
=============================================================================
