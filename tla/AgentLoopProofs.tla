-------------------------- MODULE AgentLoopProofs --------------------------
(***************************************************************************)
(* Theorems about AgentLoop for every value of its constants.              *)
(***************************************************************************)
EXTENDS AgentLoop, SequenceTheorems, TLAPS

(* What a poll takes and what it leaves are sequences of the same messages.*)
LEMMA PollType ==
    ASSUME NEW S, NEW q \in Seq(S), NEW mode
    PROVE  Taken(mode, q) \in Seq(S) /\ Left(mode, q) \in Seq(S)
<1>1. CASE q = <<>>
  BY <1>1 DEF Taken, Left
<1>2. CASE q # <<>>
  <2>1. Head(q) \in S /\ Tail(q) \in Seq(S)
    BY <1>2, HeadTailProperties
  <2>2. <<Head(q)>> \in Seq(S)
    BY <2>1
  <2>3. <<>> \in Seq(S)
    OBVIOUS
  <2> QED
    BY <1>2, <2>1, <2>2, <2>3 DEF Taken, Left
<1> QED
  BY <1>1, <1>2

(* Injecting messages appends entries to the transcript.                   *)
LEMMA UserMsgsType ==
    ASSUME NEW ms \in Seq(Msgs)
    PROVE  UserMsgs(ms) \in Seq(Entries)
<1>1. Len(ms) \in Nat /\ DOMAIN ms = 1..Len(ms)
  BY LenProperties
<1>2. \A i \in 1..Len(ms) : UserMsg(ms[i]) \in Entries
  BY ElementOfSeq DEF UserMsg, Entries
<1>3. UserMsgs(ms) \in [1..Len(ms) -> Entries]
  BY <1>1, <1>2 DEF UserMsgs
<1> QED
  BY <1>1, <1>3, SeqDef

(* Mapping every call of the current message keeps a sequence of calls.    *)
LEMMA CallsDomain ==
    ASSUME calls \in Seq(Call)
    PROVE  /\ Len(calls) \in Nat
           /\ DOMAIN calls = 1..Len(calls)
           /\ calls \in [1..Len(calls) -> Call]
           /\ \A i \in DOMAIN calls : calls[i] \in Call
BY LenProperties, ElementOfSeq

LEMMA CallsMapType ==
    ASSUME calls \in Seq(Call), NEW cs,
           cs \in [DOMAIN calls -> Call]
    PROVE  cs \in Seq(Call) /\ Len(cs) = Len(calls) /\ DOMAIN cs = DOMAIN calls
<1>1. Len(calls) \in Nat /\ DOMAIN calls = 1..Len(calls)
  BY CallsDomain
<1>2. cs \in Seq(Call)
  BY <1>1, SeqDef
<1> QED
  BY <1>1, <1>2, LenProperties

(* The runTool step of one call is well typed.                             *)
LEMMA StartedType ==
    ASSUME NEW c \in Call
    PROVE  Started(c) \in Call
BY DEF Started, Call

LEMMA EmittedType == ASSUME NEW c PROVE Emitted(c) \in {"real", "halt", "skipped"}
BY DEF Emitted

LEMMA ResultType ==
    ASSUME TypeOK, NEW i \in Nat, NEW out \in Outcomes
    PROVE  Result(i, out) \in Entries
BY DEF TypeOK, Result, Entries

LEMMA AssistantType ==
    ASSUME TypeOK, NEW n \in Nat,
           NEW st \in {"stop", "toolUse", "error", "aborted"}
    PROVE  Assistant(n, st) \in Entries
BY DEF TypeOK, Assistant, Entries

(* What is appended to the transcript keeps it a sequence of entries.      *)
LEMMA TranscriptExtends ==
    ASSUME TypeOK
    PROVE  /\ \A es \in Seq(Entries) : transcript \o es \in Seq(Entries)
           /\ \A e \in Entries : Append(transcript, e) \in Seq(Entries)
<1>1. transcript \in Seq(Entries)
  BY DEF TypeOK
<1> QED
  BY <1>1, ConcatProperties, AppendProperties

(* An entry for each call, or for some of them, is a sequence of entries.  *)
LEMMA EntriesFor ==
    ASSUME NEW n \in Nat, NEW es \in [1..n -> Entries]
    PROVE  es \in Seq(Entries)
BY SeqDef

-----------------------------------------------------------------------------
(* Type correctness.                                                       *)

USE DEF userVars, runVars, turnVars, toolVars

LEMMA TypeUser == TypeOK /\ User => TypeOK'
<1> SUFFICES ASSUME TypeOK, User PROVE TypeOK'
  OBVIOUS
<1>1. ASSUME NEW m \in Msgs, Steer(m) PROVE TypeOK'
  BY <1>1, AppendProperties DEF Steer, TypeOK
<1>2. ASSUME NEW m \in Msgs, FollowUp(m) PROVE TypeOK'
  BY <1>2, AppendProperties DEF FollowUp, TypeOK
<1>3. ASSUME NEW ms \in Seq(Msgs), NEW skip \in BOOLEAN, StartRun(ms, skip)
      PROVE  /\ runs' \in Nat /\ pc' = "firstPoll" /\ skipPoll' \in BOOLEAN
             /\ aborted' \in BOOLEAN /\ hasMore' \in BOOLEAN
             /\ transcript' \in Seq(Entries)
  <2>1. transcript \o UserMsgs(ms) \in Seq(Entries)
    BY UserMsgsType, TranscriptExtends
  <2>2. skipPoll' \in BOOLEAN /\ aborted' \in BOOLEAN /\ hasMore' \in BOOLEAN
    BY <1>3 DEF StartRun
  <2>3. runs' \in Nat /\ pc' = "firstPoll"
    BY <1>3 DEF StartRun, TypeOK
  <2>4. transcript' \in Seq(Entries)
    BY <1>3, <2>1 DEF StartRun
  <2> QED
    BY <2>2, <2>3, <2>4
<1>4. ASSUME NEW m \in Msgs, Prompt(m) PROVE TypeOK'
  <2>1. StartRun(<<m>>, FALSE)
    BY <1>4 DEF Prompt
  <2>2. <<m>> \in Seq(Msgs)
    OBVIOUS
  <2> QED
    BY <1>4, <2>1, <2>2, <1>3 DEF Prompt, StartRun, TypeOK
<1>5. CASE PopLastSteer
  <2>1. SubSeq(steering, 1, Len(steering) - 1) \in Seq(Msgs)
    BY LenProperties, ElementOfSeq, SubSeqProperties DEF TypeOK
  <2>2. steering[Len(steering)] \in Msgs
    BY <1>5, LenProperties, ElementOfSeq, EmptySeq DEF TypeOK, PopLastSteer
  <2> QED
    BY <1>5, <2>1, <2>2 DEF PopLastSteer, TypeOK
<1>6. CASE PopLastFollowUp
  <2>1. SubSeq(followUp, 1, Len(followUp) - 1) \in Seq(Msgs)
    BY LenProperties, ElementOfSeq, SubSeqProperties DEF TypeOK
  <2>2. followUp[Len(followUp)] \in Msgs
    BY <1>6, LenProperties, ElementOfSeq, EmptySeq DEF TypeOK, PopLastFollowUp
  <2> QED
    BY <1>6, <2>1, <2>2 DEF PopLastFollowUp, TypeOK
<1>7. CASE ClearAllQueues
  <2>1. {steering[i] : i \in DOMAIN steering} \subseteq Msgs
    BY LenProperties, ElementOfSeq DEF TypeOK
  <2>2. {followUp[i] : i \in DOMAIN followUp} \subseteq Msgs
    BY LenProperties, ElementOfSeq DEF TypeOK
  <2>3. removed' \subseteq Msgs
    BY <1>7, <2>1, <2>2 DEF ClearAllQueues, TypeOK
  <2> QED
    BY <1>7, <2>3 DEF ClearAllQueues, TypeOK
<1>8. CASE Abort
  BY <1>8 DEF Abort, TypeOK
<1>9. CASE Continue
  <2>1. CASE StartRun(<<>>, FALSE) /\ UNCHANGED <<steering, followUp>>
    <3>1. <<>> \in Seq(Msgs)
      OBVIOUS
    <3> QED
      BY <1>9, <2>1, <3>1, <1>3 DEF Continue, StartRun, TypeOK
  <2>2. CASE /\ StartRun(Taken(SteeringMode, steering), TRUE)
             /\ steering' = Left(SteeringMode, steering)
             /\ UNCHANGED followUp
    <3>1. /\ Taken(SteeringMode, steering) \in Seq(Msgs)
          /\ Left(SteeringMode, steering) \in Seq(Msgs)
      BY PollType DEF TypeOK
    <3> QED
      BY <1>9, <2>2, <3>1, <1>3 DEF Continue, StartRun, TypeOK
  <2>3. CASE /\ StartRun(Taken(FollowUpMode, followUp), FALSE)
             /\ followUp' = Left(FollowUpMode, followUp)
             /\ UNCHANGED steering
    <3>1. /\ Taken(FollowUpMode, followUp) \in Seq(Msgs)
          /\ Left(FollowUpMode, followUp) \in Seq(Msgs)
      BY PollType DEF TypeOK
    <3> QED
      BY <1>9, <2>3, <3>1, <1>3 DEF Continue, StartRun, TypeOK
  <2> QED
    BY <1>9, <2>1, <2>2, <2>3 DEF Continue
<1> QED
  BY <1>1, <1>2, <1>4, <1>5, <1>6, <1>7, <1>8, <1>9 DEF User

LEMMA TypeModel == TypeOK /\ Model => TypeOK'
<1> SUFFICES ASSUME TypeOK, Model PROVE TypeOK'
  OBVIOUS
<1>a. /\ Len(calls) \in Nat /\ MaxCalls \in Nat
      /\ DOMAIN calls = 1..Len(calls)
      /\ \A i \in DOMAIN calls : calls[i] \in Call
  BY CallsDomain, ConfigAssumption DEF TypeOK
<1>1. ASSUME NEW kind \in {"parallel", "sequential", "unknown"}, ToolCallEnd(kind)
      PROVE  TypeOK'
  <2> DEFINE call == [tool |-> kind,
                      exec |-> IF Dispatched(kind) THEN "running" ELSE "none",
                      step |-> "waiting", eager |-> Dispatched(kind),
                      result |-> "none"]
  <2>1. Dispatched(kind) \in BOOLEAN
    BY ConfigAssumption DEF Dispatched
  <2>2. call \in Call
    BY <2>1 DEF Call
  <2>3. calls' \in Seq(Call) /\ Len(calls') <= MaxCalls
    <3>1. calls' = Append(calls, call) /\ Len(calls) < MaxCalls
      BY <1>1 DEF ToolCallEnd
    <3> HIDE DEF call
    <3> QED
      BY <1>a, <2>2, <3>1, AppendProperties DEF TypeOK
  <2>4. toolTurns' \in Nat
    BY <1>1 DEF ToolCallEnd, TypeOK
  <2>5. Assistant(Len(calls) + 1, "toolUse") \in Entries
    <3>1. Len(calls) + 1 \in Nat
      BY <1>a
    <3> QED
      BY <3>1, AssistantType
  <2>6. transcript' \in Seq(Entries)
    <3>1. Append(transcript, Assistant(Len(calls) + 1, "toolUse")) \in Seq(Entries)
      BY <2>5, TranscriptExtends
    <3> QED
      BY <1>1, <3>1 DEF ToolCallEnd, CloseMessage
  <2>7. pc' \in {"streaming", "resolve"}
    BY <1>1 DEF ToolCallEnd
  <2> HIDE DEF call
  <2> QED
    BY <1>1, <2>3, <2>4, <2>6, <2>7 DEF ToolCallEnd, TypeOK
<1>2. CASE StreamDone
  <2>1. Assistant(0, "stop") \in Entries /\ Assistant(Len(calls), "toolUse") \in Entries
    BY <1>a, AssistantType
  <2>2. transcript' \in Seq(Entries)
    <3>1. /\ Append(transcript, Assistant(0, "stop")) \in Seq(Entries)
          /\ Append(transcript, Assistant(Len(calls), "toolUse")) \in Seq(Entries)
      BY <2>1, TranscriptExtends
    <3> QED
      BY <1>2, <3>1 DEF StreamDone, CloseMessage
  <2>3. pc' \in {"turnEnd", "resolve"} /\ hasMore' \in BOOLEAN
    BY <1>2 DEF StreamDone
  <2> QED
    BY <1>2, <2>2, <2>3 DEF StreamDone, TypeOK
<1>3. CASE StreamFails
  <2>1. Assistant(Len(calls), StopReason) \in Entries
    BY <1>a, AssistantType DEF StopReason
  <2>2. \A i \in DOMAIN calls : Result(i, "aborted") \in Entries
    BY <1>a, ResultType DEF Outcomes
  <2>3. [i \in DOMAIN calls |-> Result(i, "aborted")] \in Seq(Entries)
    <3>1. [i \in DOMAIN calls |-> Result(i, "aborted")] \in [1..Len(calls) -> Entries]
      BY <1>a, <2>2
    <3> QED
      BY <1>a, <3>1, EntriesFor
  <2>4. transcript' \in Seq(Entries)
    <3>1. Append(transcript, Assistant(Len(calls), StopReason)) \in Seq(Entries)
      BY <2>1, TranscriptExtends
    <3>2. Append(transcript, Assistant(Len(calls), StopReason))
            \o [i \in DOMAIN calls |-> Result(i, "aborted")] \in Seq(Entries)
      BY <2>3, <3>1, ConcatProperties
    <3> QED
      BY <1>3, <3>2 DEF StreamFails
  <2>5. \A i \in DOMAIN calls : [calls[i] EXCEPT !.result = "aborted"] \in Call
    BY <1>a DEF Call, Outcomes
  <2>6. calls' \in Seq(Call) /\ Len(calls') = Len(calls)
    <3>1. calls' \in [DOMAIN calls -> Call]
      BY <1>3, <2>5 DEF StreamFails
    <3> QED
      BY <3>1, CallsMapType DEF TypeOK
  <2> QED
    BY <1>3, <2>4, <2>6 DEF StreamFails, TypeOK
<1> QED
  BY <1>1, <1>2, <1>3 DEF Model

LEMMA TypeTools == TypeOK /\ Tools => TypeOK'
<1> SUFFICES ASSUME TypeOK, Tools PROVE TypeOK'
  OBVIOUS
<1>a. \A i \in DOMAIN calls : i \in 1..Len(calls) /\ calls[i] \in Call
  BY CallsDomain DEF TypeOK
<1>1. ASSUME NEW i \in 1..MaxCalls, ToolFinishes(i) PROVE TypeOK'
  <2>1. PICK out \in {"ok", "halt"} : calls' = [calls EXCEPT ![i].exec = out]
    BY <1>1 DEF ToolFinishes
  <2>2. i \in DOMAIN calls
    BY <1>1 DEF ToolFinishes
  <2>3. calls' = [calls EXCEPT ![i] = [calls[i] EXCEPT !.exec = out]]
    BY <2>1
  <2>4. [calls[i] EXCEPT !.exec = out] \in Call
    BY <1>a, <2>2 DEF Call
  <2>5. calls' \in Seq(Call) /\ Len(calls') = Len(calls)
    BY <1>a, <2>2, <2>3, <2>4, ExceptSeq DEF TypeOK
  <2> QED
    BY <1>1, <2>5 DEF ToolFinishes, TypeOK
<1>2. ASSUME NEW o \in orphans, OrphanFinishes(o) PROVE TypeOK'
  BY <1>2 DEF OrphanFinishes, TypeOK
<1> QED
  BY <1>1, <1>2 DEF Tools

LEMMA TypeLoop == TypeOK /\ Loop => TypeOK'
<1> SUFFICES ASSUME TypeOK, Loop PROVE TypeOK'
  OBVIOUS
<1>a. /\ Taken(SteeringMode, steering) \in Seq(Msgs)
      /\ Left(SteeringMode, steering) \in Seq(Msgs)
      /\ Taken(FollowUpMode, followUp) \in Seq(Msgs)
      /\ Left(FollowUpMode, followUp) \in Seq(Msgs)
      /\ <<>> \in Seq(Msgs)
  BY PollType DEF TypeOK
<1>b. /\ Len(calls) \in Nat
      /\ DOMAIN calls = 1..Len(calls)
      /\ DOMAIN calls \subseteq 1..MaxCalls
      /\ \A i \in DOMAIN calls : calls[i] \in Call
  BY CallsDomain, ConfigAssumption DEF TypeOK
<1>1. CASE FirstPoll
  BY <1>1, <1>a DEF FirstPoll, TypeOK
<1>2. CASE StartTurn
  <2>1. transcript \o UserMsgs(pending) \in Seq(Entries)
    BY UserMsgsType, TranscriptExtends DEF TypeOK
  <2> QED
    BY <1>2, <1>a, <2>1 DEF StartTurn, TypeOK
<1>3. CASE FollowUpPoll
  <2>1. hasMore' \in BOOLEAN
    BY <1>3 DEF FollowUpPoll
  <2>2. pc' \in {"idle", "inner"}
    BY <1>3 DEF FollowUpPoll
  <2> QED
    BY <1>3, <1>a, <2>1, <2>2 DEF FollowUpPoll, TypeOK
<1>4. CASE OpenStream
  <2>1. StillRunning \subseteq Nat \X Nat
    BY <1>b DEF StillRunning, TypeOK
  <2>2. calls' \in Seq(Call) /\ Len(calls') <= MaxCalls
    BY <1>4, ConfigAssumption DEF OpenStream
  <2>3. orphans' \subseteq Nat \X Nat
    BY <1>4, <2>1 DEF OpenStream, TypeOK
  <2>4. triggered' \in BOOLEAN /\ steeringAfter' \in Seq(Msgs)
    BY <1>4, <1>a DEF OpenStream
  <2> QED
    BY <1>4, <2>2, <2>3, <2>4 DEF OpenStream, TypeOK
<1>5. CASE RequestFails
  BY <1>5 DEF RequestFails, TypeOK
<1>6. ASSUME NEW found \in [1..MaxCalls -> {"parallel", "sequential", "missing"}],
             ResolveTools(found)
      PROVE  TypeOK'
  <2> DEFINE known == [i \in DOMAIN calls |->
                         IF calls[i].tool = "unknown"
                         THEN [calls[i] EXCEPT !.tool = found[i]] ELSE calls[i]]
  <2>1. known \in [DOMAIN calls -> Call]
    <3>1. \A i \in DOMAIN calls : found[i] \in {"parallel", "sequential", "missing"}
      BY <1>b DEF TypeOK
    <3>2. \A i \in DOMAIN calls : [calls[i] EXCEPT !.tool = found[i]] \in Call
      BY <1>b, <3>1 DEF Call
    <3> QED
      BY <1>b, <3>2
  <2>2. [i \in DOMAIN known |-> Started(known[i])] \in [DOMAIN calls -> Call]
    BY <2>1, StartedType
  <2>3. calls' \in [DOMAIN calls -> Call]
    BY <1>6, <2>1, <2>2 DEF ResolveTools
  <2>4. calls' \in Seq(Call) /\ Len(calls') = Len(calls)
    BY <2>3, CallsMapType DEF TypeOK
  <2>5. pc' = "batch" /\ hasMore' \in BOOLEAN
    BY <1>6 DEF ResolveTools
  <2> HIDE DEF known
  <2> QED
    BY <1>6, <2>4, <2>5 DEF ResolveTools, TypeOK
<1>7. CASE ResolveThrows
  BY <1>7 DEF ResolveThrows, TypeOK
<1>8. ASSUME NEW i \in 1..MaxCalls, StartNext(i) PROVE TypeOK'
  <2>1. i \in DOMAIN calls /\ calls' = [calls EXCEPT ![i] = Started(calls[i])]
    BY <1>8 DEF StartNext
  <2>2. calls' \in Seq(Call) /\ Len(calls') = Len(calls)
    BY <1>b, <2>1, StartedType, ExceptSeq DEF TypeOK
  <2> QED
    BY <1>8, <2>2 DEF StartNext, TypeOK
<1>9. ASSUME NEW i \in 1..MaxCalls, EmitResult(i) PROVE TypeOK'
  <2>1. i \in DOMAIN calls /\ i \in Nat
    BY <1>9 DEF EmitResult
  <2>2. Result(i, Emitted(calls[i])) \in Entries
    BY <2>1, ResultType, EmittedType DEF Outcomes
  <2>3. transcript' \in Seq(Entries)
    BY <1>9, <2>2, TranscriptExtends DEF EmitResult
  <2> DEFINE step == IF ChecksSteering THEN "checking" ELSE "returned"
             c == [calls[i] EXCEPT !.result = Emitted(calls[i]), !.step = step]
  <2>4. c \in Call
    BY <1>b, <2>1, EmittedType DEF Call, Outcomes
  <2>5. calls' = [calls EXCEPT ![i] = c]
    BY <1>9 DEF EmitResult
  <2>6. calls' \in Seq(Call) /\ Len(calls') = Len(calls)
    BY <1>b, <2>1, <2>4, <2>5, ExceptSeq DEF TypeOK
  <2>7. polled' \in Seq(Msgs) /\ steering' \in Seq(Msgs)
    BY <1>9, <1>a DEF EmitResult, TypeOK
  <2>8. checking' \in BOOLEAN
    BY <1>9 DEF EmitResult
  <2> HIDE DEF c
  <2> QED
    BY <1>9, <2>3, <2>6, <2>7, <2>8 DEF EmitResult, TypeOK
<1>10. CASE CheckReturns
  <2>1. \A i \in DOMAIN calls : [calls[i] EXCEPT !.step = "returned"] \in Call
    BY <1>b DEF Call
  <2>2. calls' \in [DOMAIN calls -> Call]
    BY <1>b, <1>10, <2>1 DEF CheckReturns
  <2>3. calls' \in Seq(Call) /\ Len(calls') = Len(calls)
    BY <2>2, CallsMapType DEF TypeOK
  <2>4. checking' \in BOOLEAN /\ triggered' \in BOOLEAN
    BY <1>10 DEF CheckReturns
  <2>5. polled' \in Seq(Msgs) /\ steeringAfter' \in Seq(Msgs)
    BY <1>10, <1>a DEF CheckReturns, TypeOK
  <2> QED
    BY <1>10, <2>3, <2>4, <2>5 DEF CheckReturns, TypeOK
<1>11. CASE SettleBatch
  <2>0. PICK n \in 0..Len(calls) : \E rest \in [1..n -> DOMAIN calls] :
           transcript' = transcript \o [k \in 1..n |-> Result(rest[k], "skipped")]
    BY <1>11 DEF SettleBatch
  <2>1. PICK rest \in [1..n -> DOMAIN calls] :
           transcript' = transcript \o [k \in 1..n |-> Result(rest[k], "skipped")]
    BY <2>0
  <2>2. \A k \in 1..n : Result(rest[k], "skipped") \in Entries
    BY <1>b, ResultType DEF Outcomes
  <2>3. [k \in 1..n |-> Result(rest[k], "skipped")] \in [1..n -> Entries]
    BY <2>2
  <2>4. n \in Nat
    BY <1>b
  <2>5. transcript' \in Seq(Entries)
    BY <2>1, <2>3, <2>4, EntriesFor, TranscriptExtends
  <2>6. \A i \in DOMAIN calls : [calls[i] EXCEPT !.result = "skipped"] \in Call
    BY <1>b DEF Call, Outcomes
  <2>7. calls' \in [DOMAIN calls -> Call]
    BY <1>b, <1>11, <2>6 DEF SettleBatch
  <2>8. calls' \in Seq(Call) /\ Len(calls') = Len(calls)
    BY <2>7, CallsMapType DEF TypeOK
  <2>9. {steeringAfter[i] : i \in DOMAIN steeringAfter} \subseteq Msgs
    BY LenProperties, ElementOfSeq DEF TypeOK
  <2>10. dropped' \subseteq Msgs /\ steeringAfter' \in Seq(Msgs) /\ pc' \in {"idle", "turnEnd"}
    BY <1>11, <1>a, <2>9 DEF SettleBatch, TypeOK
  <2> QED
    BY <1>11, <2>5, <2>8, <2>10 DEF SettleBatch, TypeOK
<1>12. CASE TurnEnd
  BY <1>12, <1>a DEF TurnEnd, Interrupting, TypeOK
<1> QED
  BY <1>1, <1>2, <1>3, <1>4, <1>5, <1>6, <1>7, <1>8, <1>9, <1>10, <1>11, <1>12 DEF Loop

(* Every reachable state is well typed.                                    *)
THEOREM TypeCorrect == Spec => []TypeOK
<1>1. Init => TypeOK
  <2> SUFFICES ASSUME Init PROVE TypeOK
    OBVIOUS
  <2>1. /\ skipPoll \in BOOLEAN /\ aborted \in BOOLEAN /\ hasMore \in BOOLEAN
        /\ triggered \in BOOLEAN /\ checking \in BOOLEAN
    BY DEF Init
  <2>2. /\ unsent \subseteq Msgs /\ removed \subseteq Msgs /\ dropped \subseteq Msgs
        /\ steering \in Seq(Msgs) /\ followUp \in Seq(Msgs)
        /\ pending \in Seq(Msgs) /\ polled \in Seq(Msgs)
        /\ steeringAfter \in Seq(Msgs)
        /\ transcript \in Seq(Entries) /\ orphans \subseteq Nat \X Nat
    BY DEF Init
  <2>3. calls \in Seq(Call) /\ Len(calls) <= MaxCalls
    BY ConfigAssumption DEF Init
  <2>4. runs \in Nat /\ turn \in Nat /\ toolTurns \in Nat /\ pc = "idle"
    BY DEF Init
  <2> QED
    BY <2>1, <2>2, <2>3, <2>4 DEF TypeOK
<1>2. TypeOK /\ [Next]_vars => TypeOK'
  <2> SUFFICES ASSUME TypeOK, [Next]_vars PROVE TypeOK'
    OBVIOUS
  <2>1. CASE UNCHANGED vars
    BY <2>1 DEF vars, TypeOK
  <2> QED
    BY <2>1, TypeUser, TypeModel, TypeTools, TypeLoop DEF Next
<1> QED
  BY <1>1, <1>2, PTL DEF Spec
-----------------------------------------------------------------------------
(* A sequential tool and its siblings.                                     *)

(* Why a sequential tool runs alone: until the batch starts every call     *)
(* waits, and one that executes meanwhile was dispatched while streaming,  *)
(* which a sequential tool never is; and a serial batch has passed a call  *)
(* only when runTool has returned for all the calls before it.             *)
BatchInv ==
    /\ pc \in {"streaming", "resolve"} => \A i \in DOMAIN calls : calls[i].step = "waiting"
    /\ \A i \in DOMAIN calls :
          /\ calls[i].eager => calls[i].tool = "parallel"
          /\ calls[i].step = "waiting" /\ calls[i].exec # "none" => calls[i].eager
          /\ calls[i].step \in {"checking", "returned"} => calls[i].exec # "running"
          /\ calls[i].tool = "missing" => calls[i].exec = "none"
    /\ IsSerial(calls) =>
          \A i, j \in DOMAIN calls :
             j < i /\ calls[i].step # "waiting" => calls[j].step = "returned"

LEMMA BatchInvInit == Init => BatchInv
BY DEF Init, BatchInv

LEMMA BatchInvSuffices == TypeOK /\ BatchInv => SequentialAlone
<1> SUFFICES ASSUME TypeOK, BatchInv, NEW i \in DOMAIN calls, NEW j \in DOMAIN calls,
                    calls[i].tool = "sequential", Executing(i), Executing(j), i # j
             PROVE  j > i /\ calls[j].eager
  BY DEF SequentialAlone
<1>a. /\ DOMAIN calls \subseteq Int /\ calls[i] \in Call /\ calls[j] \in Call
  BY CallsDomain DEF TypeOK
<1>1. IsSerial(calls)
  BY DEF IsSerial
<1>2. calls[i].step = "running" /\ calls[j].step \in {"waiting", "running"}
  BY <1>a DEF BatchInv, Executing, Call
<1>3. ~(j < i)
  BY <1>1, <1>2 DEF BatchInv
<1>4. calls[j].step = "waiting"
  BY <1>1, <1>2, <1>3, <1>a DEF BatchInv
<1> QED
  BY <1>3, <1>4, <1>a DEF BatchInv, Executing

(* A step that leaves the calls alone and opens no message keeps it.       *)
LEMMA BatchInvKept ==
    ASSUME BatchInv, calls' = calls,
           pc' \in {"streaming", "resolve"} => pc \in {"streaming", "resolve"}
    PROVE  BatchInv'
BY DEF BatchInv, IsSerial

LEMMA BatchInvUser == BatchInv /\ User => BatchInv'
<1> SUFFICES ASSUME BatchInv, User PROVE BatchInv'
  OBVIOUS
<1>1. calls' = calls
  BY DEF User, Steer, FollowUp, Prompt, PopLastSteer, PopLastFollowUp,
         ClearAllQueues, Abort, Continue, StartRun
<1>2. pc' = pc \/ pc' = "firstPoll"
  BY DEF User, Steer, FollowUp, Prompt, PopLastSteer, PopLastFollowUp,
         ClearAllQueues, Abort, Continue, StartRun
<1> QED
  BY <1>1, <1>2, BatchInvKept

LEMMA BatchInvModel == TypeOK /\ BatchInv /\ Model => BatchInv'
<1> SUFFICES ASSUME TypeOK, BatchInv, Model PROVE BatchInv'
  OBVIOUS
<1>a. /\ Len(calls) \in Nat /\ DOMAIN calls = 1..Len(calls)
  BY CallsDomain DEF TypeOK
<1>1. ASSUME NEW kind \in {"parallel", "sequential", "unknown"}, ToolCallEnd(kind)
      PROVE  BatchInv'
  <2> DEFINE call == [tool |-> kind,
                      exec |-> IF Dispatched(kind) THEN "running" ELSE "none",
                      step |-> "waiting", eager |-> Dispatched(kind),
                      result |-> "none"]
  <2>1. calls' = Append(calls, call) /\ pc = "streaming"
    BY <1>1 DEF ToolCallEnd
  <2>2. /\ call.step = "waiting" /\ call.tool = kind
        /\ call.eager = Dispatched(kind)
        /\ call.exec = IF Dispatched(kind) THEN "running" ELSE "none"
    OBVIOUS
  <2>3. /\ call.eager => call.tool = "parallel"
        /\ call.exec # "none" => call.eager
        /\ call.tool # "missing"
    BY <2>2 DEF Dispatched
  <2> HIDE DEF call
  <2>4. /\ DOMAIN calls' = 1..(Len(calls) + 1)
        /\ \A i \in DOMAIN calls : calls'[i] = calls[i]
        /\ calls'[Len(calls) + 1] = call
    BY <1>a, <2>1 DEF TypeOK
  <2>5. \A i \in DOMAIN calls' : i \in DOMAIN calls \/ calls'[i] = call
    BY <1>a, <2>4
  <2>6. \A i \in DOMAIN calls' : calls'[i].step = "waiting"
    BY <2>1, <2>2, <2>4, <2>5 DEF BatchInv
  <2>7. \A i \in DOMAIN calls' :
           /\ calls'[i].eager => calls'[i].tool = "parallel"
           /\ calls'[i].step = "waiting" /\ calls'[i].exec # "none" => calls'[i].eager
           /\ calls'[i].tool = "missing" => calls'[i].exec = "none"
    BY <2>3, <2>4, <2>5 DEF BatchInv
  <2> QED
    BY <2>6, <2>7 DEF BatchInv
<1>2. CASE StreamDone
  BY <1>2, BatchInvKept DEF StreamDone
<1>3. CASE StreamFails
  <2>1. /\ DOMAIN calls' = DOMAIN calls
        /\ \A i \in DOMAIN calls : /\ calls'[i].eager = calls[i].eager
                                   /\ calls'[i].tool = calls[i].tool
                                   /\ calls'[i].step = calls[i].step
                                   /\ calls'[i].exec = calls[i].exec
    <3>1. \A i \in DOMAIN calls : calls[i] \in Call
      BY CallsDomain DEF TypeOK
    <3> QED
      BY <1>3, <3>1 DEF StreamFails, Call
  <2>2. pc' = "idle"
    BY <1>3 DEF StreamFails
  <2> QED
    BY <2>1, <2>2 DEF BatchInv, IsSerial
<1> QED
  BY <1>1, <1>2, <1>3 DEF Model

LEMMA BatchInvTools == TypeOK /\ BatchInv /\ Tools => BatchInv'
<1> SUFFICES ASSUME TypeOK, BatchInv, Tools PROVE BatchInv'
  OBVIOUS
<1>1. ASSUME NEW i \in 1..MaxCalls, ToolFinishes(i) PROVE BatchInv'
  <2>1. PICK out \in {"ok", "halt"} : calls' = [calls EXCEPT ![i].exec = out]
    BY <1>1 DEF ToolFinishes
  <2>2. i \in DOMAIN calls /\ calls[i].exec = "running" /\ pc' = pc
    BY <1>1 DEF ToolFinishes
  <2>3. \A k \in DOMAIN calls : calls[k] \in Call
    BY CallsDomain DEF TypeOK
  <2>4. /\ DOMAIN calls' = DOMAIN calls
        /\ \A k \in DOMAIN calls : /\ calls'[k].eager = calls[k].eager
                                   /\ calls'[k].tool = calls[k].tool
                                   /\ calls'[k].step = calls[k].step
                                   /\ calls'[k].exec = IF k = i THEN out ELSE calls[k].exec
    BY <2>1, <2>2, <2>3 DEF Call
  <2> QED
    BY <2>2, <2>4 DEF BatchInv, IsSerial
<1>2. ASSUME NEW o \in orphans, OrphanFinishes(o) PROVE BatchInv'
  BY <1>2, BatchInvKept DEF OrphanFinishes
<1> QED
  BY <1>1, <1>2 DEF Tools

LEMMA BatchInvLoop == TypeOK /\ BatchInv /\ Loop => BatchInv'
<1> SUFFICES ASSUME TypeOK, BatchInv, Loop PROVE BatchInv'
  OBVIOUS
<1>a. /\ Len(calls) \in Nat
      /\ DOMAIN calls = 1..Len(calls)
      /\ \A i \in DOMAIN calls : calls[i] \in Call
  BY CallsDomain DEF TypeOK
<1>1. CASE FirstPoll
  BY <1>1, BatchInvKept DEF FirstPoll
<1>2. CASE StartTurn
  BY <1>2, BatchInvKept DEF StartTurn
<1>3. CASE FollowUpPoll
  BY <1>3, BatchInvKept DEF FollowUpPoll
<1>4. CASE OpenStream
  <2>1. DOMAIN calls' = {}
    BY <1>4 DEF OpenStream
  <2> QED
    BY <2>1 DEF BatchInv
<1>5. CASE RequestFails
  BY <1>5, BatchInvKept DEF RequestFails
<1>6. ASSUME NEW found \in [1..MaxCalls -> {"parallel", "sequential", "missing"}],
             ResolveTools(found)
      PROVE  BatchInv'
  <2> DEFINE known == [i \in DOMAIN calls |->
                         IF calls[i].tool = "unknown"
                         THEN [calls[i] EXCEPT !.tool = found[i]] ELSE calls[i]]
  <2>1. /\ DOMAIN known = DOMAIN calls
        /\ \A i \in DOMAIN calls : /\ known[i].eager = calls[i].eager
                                   /\ known[i].step = calls[i].step
                                   /\ known[i].exec = calls[i].exec
                                   /\ calls[i].tool # "unknown" => known[i].tool = calls[i].tool
    BY <1>a DEF Call
  <2>2. pc = "resolve" /\ pc' = "batch"
    BY <1>6 DEF ResolveTools
  <2>3. \A i \in DOMAIN calls : calls[i].step = "waiting"
    BY <2>2 DEF BatchInv
  <2>4. \A i \in DOMAIN calls :
           /\ known[i].eager => known[i].tool = "parallel"
           /\ known[i].exec # "none" => known[i].eager
           /\ known[i].tool = "missing" => known[i].exec = "none"
    BY <2>1, <2>3 DEF BatchInv
  <2>5. CASE IsSerial(known)
    <3>1. calls' = known
      BY <1>6, <2>5 DEF ResolveTools
    <3> HIDE DEF known
    <3> QED
      BY <2>1, <2>2, <2>3, <2>4, <3>1 DEF BatchInv
  <2>6. CASE ~IsSerial(known)
    <3>1. calls' = [i \in DOMAIN known |-> Started(known[i])]
      BY <1>6, <2>6 DEF ResolveTools
    <3>2. \A i \in DOMAIN known : known[i] \in Call
      <4>1. \A i \in DOMAIN calls : i \in 1..MaxCalls
        BY <1>a, ConfigAssumption DEF TypeOK
      <4> QED
        BY <1>a, <4>1 DEF Call
    <3> HIDE DEF known
    <3>3. /\ DOMAIN calls' = DOMAIN known
          /\ \A i \in DOMAIN known : /\ calls'[i].step = "running"
                                     /\ calls'[i].tool = known[i].tool
                                     /\ calls'[i].eager = known[i].eager
                                     /\ known[i].tool = "missing" =>
                                          calls'[i].exec = known[i].exec
      BY <3>1, <3>2 DEF Started, Call
    <3>4. ~IsSerial(calls')
      BY <2>6, <3>3 DEF IsSerial
    <3> QED
      BY <2>1, <2>2, <2>4, <3>3, <3>4 DEF BatchInv
  <2> QED
    BY <2>5, <2>6
<1>7. CASE ResolveThrows
  BY <1>7, BatchInvKept DEF ResolveThrows
<1>8. ASSUME NEW i \in 1..MaxCalls, StartNext(i) PROVE BatchInv'
  <2>1. /\ i \in DOMAIN calls /\ calls' = [calls EXCEPT ![i] = Started(calls[i])]
        /\ pc' = "batch" /\ calls[i].step = "waiting"
        /\ \A j \in 1..(i - 1) : calls[j].step = "returned"
    BY <1>8 DEF StartNext, MayStart, InTurn, runVars
  <2>2. /\ DOMAIN calls' = DOMAIN calls
        /\ \A k \in DOMAIN calls :
              /\ calls'[k].tool = calls[k].tool /\ calls'[k].eager = calls[k].eager
              /\ k # i => calls'[k] = calls[k]
        /\ calls'[i].step = "running"
        /\ calls[i].tool = "missing" => calls'[i].exec = calls[i].exec
    BY <1>a, <2>1 DEF Started, Call
  <2>3. \A j \in DOMAIN calls : j < i => calls[j].step = "returned"
    BY <1>a, <2>1
  <2>4. \A k \in DOMAIN calls' :
           /\ calls'[k].eager => calls'[k].tool = "parallel"
           /\ calls'[k].step = "waiting" /\ calls'[k].exec # "none" => calls'[k].eager
           /\ calls'[k].step \in {"checking", "returned"} => calls'[k].exec # "running"
           /\ calls'[k].tool = "missing" => calls'[k].exec = "none"
    BY <2>2 DEF BatchInv
  <2>5. IsSerial(calls') => IsSerial(calls)
    BY <2>2 DEF IsSerial
  <2>6. ASSUME IsSerial(calls'), NEW k \in DOMAIN calls', NEW j \in DOMAIN calls',
               j < k, calls'[k].step # "waiting"
        PROVE  calls'[j].step = "returned"
    <3>1. CASE k = i
      BY <1>a, <2>2, <2>3, <2>6, <3>1
    <3>2. CASE k # i
      <4>1. calls[j].step = "returned"
        BY <2>2, <2>5, <2>6, <3>2 DEF BatchInv
      <4> QED
        BY <2>1, <2>2, <4>1
    <3> QED
      BY <3>1, <3>2
  <2> QED
    BY <2>1, <2>4, <2>6 DEF BatchInv
<1>9. ASSUME NEW i \in 1..MaxCalls, EmitResult(i) PROVE BatchInv'
  <2> DEFINE step == IF ChecksSteering THEN "checking" ELSE "returned"
  <2>1. /\ i \in DOMAIN calls /\ calls[i].step = "running" /\ pc' = "batch"
        /\ calls[i].exec \in {"ok", "halt"} \/ calls[i].tool = "missing"
        /\ calls' = [calls EXCEPT ![i].result = Emitted(calls[i]), ![i].step = step]
    BY <1>9 DEF EmitResult, runVars
  <2>2. /\ DOMAIN calls' = DOMAIN calls
        /\ \A k \in DOMAIN calls :
              /\ calls'[k].tool = calls[k].tool /\ calls'[k].eager = calls[k].eager
              /\ calls'[k].exec = calls[k].exec
              /\ k # i => calls'[k].step = calls[k].step
        /\ calls'[i].step \in {"checking", "returned"}
    BY <1>a, <2>1 DEF Call
  <2>3. calls[i].exec # "running"
    BY <2>1 DEF BatchInv
  <2>4. \A k \in DOMAIN calls' :
           /\ calls'[k].eager => calls'[k].tool = "parallel"
           /\ calls'[k].step = "waiting" /\ calls'[k].exec # "none" => calls'[k].eager
           /\ calls'[k].step \in {"checking", "returned"} => calls'[k].exec # "running"
           /\ calls'[k].tool = "missing" => calls'[k].exec = "none"
    BY <2>2, <2>3 DEF BatchInv
  <2>5. ASSUME IsSerial(calls'), NEW k \in DOMAIN calls', NEW j \in DOMAIN calls',
               j < k, calls'[k].step # "waiting"
        PROVE  calls'[j].step = "returned"
    <3>1. IsSerial(calls) /\ calls[k].step # "waiting"
      BY <2>1, <2>2, <2>5 DEF IsSerial
    <3>2. calls[j].step = "returned"
      BY <2>2, <2>5, <3>1 DEF BatchInv
    <3> QED
      BY <2>1, <2>2, <2>5, <3>2
  <2> QED
    BY <2>1, <2>4, <2>5 DEF BatchInv
<1>10. CASE CheckReturns
  <2>1. /\ DOMAIN calls' = DOMAIN calls /\ pc' = pc
        /\ \A k \in DOMAIN calls :
              /\ calls'[k].tool = calls[k].tool /\ calls'[k].eager = calls[k].eager
              /\ calls'[k].exec = calls[k].exec
              /\ calls'[k].step = IF calls[k].step = "checking" THEN "returned"
                                  ELSE calls[k].step
    BY <1>a, <1>10 DEF CheckReturns, runVars, Call
  <2> QED
    BY <2>1 DEF BatchInv, IsSerial
<1>11. CASE SettleBatch
  <2>1. /\ DOMAIN calls' = DOMAIN calls /\ pc' \in {"idle", "turnEnd"}
        /\ \A k \in DOMAIN calls :
              /\ calls'[k].tool = calls[k].tool /\ calls'[k].eager = calls[k].eager
              /\ calls'[k].exec = calls[k].exec /\ calls'[k].step = calls[k].step
    BY <1>a, <1>11 DEF SettleBatch, Call
  <2> QED
    BY <2>1 DEF BatchInv, IsSerial
<1>12. CASE TurnEnd
  BY <1>12, BatchInvKept DEF TurnEnd
<1> QED
  BY <1>1, <1>2, <1>3, <1>4, <1>5, <1>6, <1>7, <1>8, <1>9, <1>10, <1>11, <1>12 DEF Loop

LEMMA BatchInvHolds == Spec => []BatchInv
<1>1. TypeOK /\ BatchInv /\ [Next]_vars => BatchInv'
  <2> SUFFICES ASSUME TypeOK, BatchInv, [Next]_vars PROVE BatchInv'
    OBVIOUS
  <2>1. CASE UNCHANGED vars
    <3>1. calls' = calls /\ pc' = pc
      BY <2>1 DEF vars
    <3> QED
      BY <3>1, BatchInvKept
  <2> QED
    BY <2>1, BatchInvUser, BatchInvModel, BatchInvTools, BatchInvLoop DEF Next
<1> QED
  BY <1>1, BatchInvInit, TypeCorrect, PTL DEF Spec

(* No sibling runs beside a sequential tool, except those the model wrote  *)
(* after it that were dispatched while the message was streaming.          *)
THEOREM SequentialRunsAlone == Spec => []SequentialAlone
BY BatchInvHolds, BatchInvSuffices, TypeCorrect, PTL
-----------------------------------------------------------------------------
(* The steering check and what it found.                                   *)

(* A check is in flight in a batch only, before any interrupt, and then it *)
(* alone holds what was dequeued; what interrupted a batch is kept until   *)
(* the turn is over; a new message starts with none of this.               *)
InterruptInv ==
    /\ checking => pc = "batch" /\ ~triggered
    /\ ~checking => polled = <<>>
    /\ ~triggered => steeringAfter = <<>>
    /\ steeringAfter # <<>> => pc \in {"batch", "turnEnd"}
    /\ pending # <<>> => pc = "inner"
    /\ pc \in {"streaming", "resolve"} => ~triggered

LEMMA InterruptInvInit == Init => InterruptInv
<1> SUFFICES ASSUME Init PROVE InterruptInv
  OBVIOUS
<1>1. /\ ~checking /\ ~triggered /\ pc = "idle"
      /\ polled = <<>> /\ steeringAfter = <<>> /\ pending = <<>>
  BY DEF Init
<1> QED
  BY <1>1 DEF InterruptInv

LEMMA InterruptInvUser == InterruptInv /\ User => InterruptInv'
<1> SUFFICES ASSUME InterruptInv, User PROVE InterruptInv'
  OBVIOUS
<1>1. UNCHANGED <<pending, toolVars>>
  BY DEF User, Steer, FollowUp, Prompt, PopLastSteer, PopLastFollowUp,
         ClearAllQueues, Abort, Continue, StartRun, turnVars
<1>2. pc' = pc \/ (pc = "idle" /\ pc' = "firstPoll")
  BY DEF User, Steer, FollowUp, Prompt, PopLastSteer, PopLastFollowUp,
         ClearAllQueues, Abort, Continue, StartRun
<1> QED
  BY <1>1, <1>2 DEF InterruptInv

LEMMA InterruptInvModel == InterruptInv /\ Model => InterruptInv'
<1> SUFFICES ASSUME InterruptInv, Model PROVE InterruptInv'
  OBVIOUS
<1>1. UNCHANGED <<pending, triggered, checking, polled, steeringAfter>>
  BY DEF Model, ToolCallEnd, StreamDone, StreamFails
<1>2. pc = "streaming" /\ pc' \in {"streaming", "resolve", "turnEnd", "idle"}
  BY DEF Model, ToolCallEnd, StreamDone, StreamFails
<1> QED
  BY <1>1, <1>2 DEF InterruptInv

LEMMA InterruptInvTools == InterruptInv /\ Tools => InterruptInv'
BY DEF Tools, ToolFinishes, OrphanFinishes, InterruptInv

LEMMA InterruptInvLoop == TypeOK /\ InterruptInv /\ Loop => InterruptInv'
<1> SUFFICES ASSUME TypeOK, InterruptInv, Loop PROVE InterruptInv'
  OBVIOUS
<1>1. CASE FirstPoll \/ StartTurn \/ FollowUpPoll
  <2>1. /\ pc \in {"firstPoll", "inner"} /\ pc' \in {"inner", "request", "idle"}
        /\ pending' # <<>> => pc' = "inner"
        /\ UNCHANGED <<triggered, checking, polled, steeringAfter>>
    BY <1>1 DEF FirstPoll, StartTurn, FollowUpPoll, Taken
  <2> QED
    BY <2>1 DEF InterruptInv
<1>9. CASE OpenStream
  BY <1>9 DEF OpenStream, InterruptInv
<1>10. CASE RequestFails
  BY <1>10 DEF RequestFails, InterruptInv
<1>2. ASSUME NEW found, ResolveTools(found) PROVE InterruptInv'
  BY <1>2 DEF ResolveTools, InterruptInv
<1>3. CASE ResolveThrows
  BY <1>3 DEF ResolveThrows, InterruptInv
<1>4. ASSUME NEW i \in 1..MaxCalls, StartNext(i) PROVE InterruptInv'
  BY <1>4 DEF StartNext, InterruptInv
<1>5. ASSUME NEW i \in 1..MaxCalls, EmitResult(i) PROVE InterruptInv'
  <2>1. /\ pc = "batch" /\ checking' = (checking \/ ChecksSteering)
        /\ OpensPoll \/ polled' = polled
        /\ UNCHANGED <<pc, pending, triggered, steeringAfter>>
    BY <1>5 DEF EmitResult
  <2>2. ChecksSteering => ~triggered
    BY DEF ChecksSteering
  <2>3. OpensPoll => ChecksSteering
    BY DEF OpensPoll
  <2> QED
    BY <2>1, <2>2, <2>3 DEF InterruptInv, TypeOK
<1>6. CASE CheckReturns
  BY <1>6 DEF CheckReturns, InterruptInv
<1>7. CASE SettleBatch
  <2>1. /\ pc = "batch" /\ ~checking /\ pc' \in {"idle", "turnEnd"}
        /\ steeringAfter' = <<>> \/ (pc' = "turnEnd" /\ steeringAfter' = steeringAfter)
        /\ UNCHANGED <<pending, triggered, checking, polled>>
    BY <1>7 DEF SettleBatch, BatchOver
  <2> QED
    BY <2>1 DEF InterruptInv
<1>8. CASE TurnEnd
  BY <1>8 DEF TurnEnd, InterruptInv
<1> QED
  BY <1>1, <1>2, <1>3, <1>4, <1>5, <1>6, <1>7, <1>8, <1>9, <1>10 DEF Loop

LEMMA InterruptInvStep == TypeOK /\ InterruptInv /\ [Next]_vars => InterruptInv'
<1>1. InterruptInv /\ UNCHANGED vars => InterruptInv'
  BY DEF InterruptInv, vars
<1> QED
  BY <1>1, InterruptInvUser, InterruptInvModel, InterruptInvTools,
     InterruptInvLoop DEF Next

LEMMA InterruptInvHolds == Spec => []InterruptInv
BY InterruptInvInit, InterruptInvStep, TypeCorrect, PTL DEF Spec

(* What NoStartAfterInterrupt says of one step.                            *)
NoneStarts ==
    triggered =>
       \A i \in DOMAIN calls \cap DOMAIN calls' :
          calls[i].exec = "none" => calls'[i].exec # "running"

LEMMA NoneStartsStep ==
    ASSUME TypeOK, InterruptInv, [Next]_vars
    PROVE  NoneStarts
<1>a. \A i \in DOMAIN calls : calls[i] \in Call
  BY CallsDomain DEF TypeOK
<1>1. CASE calls' = calls
  BY <1>1 DEF NoneStarts
<1>2. CASE Model
  BY <1>2 DEF Model, ToolCallEnd, StreamDone, StreamFails, InterruptInv, NoneStarts
<1>3. ASSUME NEW i \in 1..MaxCalls, ToolFinishes(i) PROVE NoneStarts
  BY <1>3, <1>a DEF ToolFinishes, NoneStarts, Call
<1>4. CASE OpenStream
  BY <1>4 DEF OpenStream, NoneStarts
<1>5. ASSUME NEW found, ResolveTools(found) PROVE NoneStarts
  BY <1>5 DEF ResolveTools, InterruptInv, NoneStarts
<1>6. ASSUME NEW i \in 1..MaxCalls, StartNext(i) PROVE NoneStarts
  BY <1>6 DEF StartNext, MayStart, NoneStarts
<1>7. ASSUME NEW i \in 1..MaxCalls, EmitResult(i) PROVE NoneStarts
  <2>1. calls' = [calls EXCEPT ![i].result = Emitted(calls[i]),
                               ![i].step = IF ChecksSteering THEN "checking"
                                           ELSE "returned"]
    BY <1>7 DEF EmitResult
  <2> QED
    BY <2>1, <1>a DEF NoneStarts, Call
<1>8. CASE CheckReturns
  BY <1>8, <1>a DEF CheckReturns, NoneStarts, Call
<1>9. CASE SettleBatch
  BY <1>9, <1>a DEF SettleBatch, NoneStarts, Call
<1>10. CASE User \/ FirstPoll \/ StartTurn \/ FollowUpPoll \/ RequestFails
            \/ ResolveThrows \/ TurnEnd \/ UNCHANGED vars
            \/ \E o \in orphans : OrphanFinishes(o)
  <2>1. calls' = calls
    BY <1>10 DEF User, Steer, FollowUp, Prompt, PopLastSteer, PopLastFollowUp,
                 ClearAllQueues, Abort, Continue, StartRun, FirstPoll, StartTurn,
                 FollowUpPoll, RequestFails, ResolveThrows, TurnEnd, OrphanFinishes, vars
  <2> QED
    BY <1>1, <2>1
<1> QED
  BY <1>2, <1>3, <1>4, <1>5, <1>6, <1>7, <1>8, <1>9, <1>10 DEF Next, Tools, Loop

(* No tool starts once a steering message has interrupted its batch, also  *)
(* when checks of several tools, the end of others and the start of the    *)
(* next in a serial batch interleave (agent-loop.ts 680-699, 766-769, 891).*)
THEOREM InterruptStopsStarts == Spec => NoStartAfterInterrupt
<1>1. TypeOK /\ InterruptInv /\ [Next]_vars =>
        [triggered =>
           \A i \in DOMAIN calls \cap DOMAIN calls' :
              calls[i].exec = "none" => calls'[i].exec # "running"]_vars
  BY NoneStartsStep DEF NoneStarts
<1> QED
  BY <1>1, TypeCorrect, InterruptInvHolds, PTL DEF Spec, NoStartAfterInterrupt
=============================================================================
