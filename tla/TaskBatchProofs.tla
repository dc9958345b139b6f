--------------------------- MODULE TaskBatchProofs ---------------------------
(***************************************************************************)
(* A batch of background tasks keeps its promises for any number of tasks, *)
(* any graph of blockers and any limits.  The order of tasks rests on the  *)
(* counters: waits[d] never falls below the number of d's blockers that    *)
(* have not completed (Counts), because a blocker completes once and only  *)
(* from its own work (InWork), and who is queued has none left (QueueFree).*)
(* That a batch does not hang rests on more: see RestInv.                  *)
(***************************************************************************)
EXTENDS TaskBatch, FiniteSetTheorems, TLAPS

Outcomes == {"pending", "completed", "failed", "aborted"}

Unfinished(d) == {b \in blockers[d] : outcome[b] # "completed"}

\* The types the argument needs.
Types ==
    /\ blockers \in [Tasks -> SUBSET Tasks]
    /\ outcome \in [Tasks -> Outcomes]
    /\ slots \subseteq Tasks
    /\ waits \in [Tasks -> Int]
    /\ ready \in Seq(Tasks)
    /\ body \in [Tasks -> {"none", "stagger", "work", "report", "over"}]

\* Of two tasks with a file in common the later one waits for the other.
Ordered ==
    \A t, u \in Tasks : u < t /\ Overlap(filesDeps, u, t) => u \in blockers[t]

\* A count never falls below the number of blockers still to complete.
Counts ==
    \A d \in Tasks : outcome[d] = "pending" => waits[d] >= Cardinality(Unfinished(d))

\* Who is in the queue waits for nobody.
QueueFree == \A i \in 1..Len(ready) : Unfinished(ready[i]) = {}

\* A task whose work is under way holds a slot and has no outcome.
InWork ==
    \A t \in Tasks : body[t] \in {"stagger", "work"} => t \in slots /\ outcome[t] = "pending"

IInv ==
    /\ Types /\ Ordered /\ Counts /\ QueueFree /\ InWork
    /\ BlockersFirst /\ SlotsHeld /\ FailureReaches

-----------------------------------------------------------------------------
\* Sets of tasks are finite.
LEMMA TasksFinite ==
    ASSUME NEW S \in SUBSET Tasks
    PROVE  IsFiniteSet(S) /\ Cardinality(S) \in Nat
  <1>1. IsFiniteSet(Tasks)
    BY BatchAssumption, FS_Interval DEF Tasks
  <1>2. IsFiniteSet(S)
    BY <1>1, FS_Subset
  <1> QED  BY <1>2, FS_CardinalityType

\* An order of a set of tasks is a sequence of these tasks.
LEMMA ListingOf ==
    ASSUME NEW S \in SUBSET Tasks, NEW q \in Listings(S)
    PROVE  q \in Seq(Tasks) /\ \A i \in 1..Len(q) : q[i] \in S
  <1>1. Cardinality(S) \in Nat
    BY TasksFinite
  <1>2. q \in [1..Cardinality(S) -> S]
    BY DEF Listings
  <1>3. q \in Seq(S) /\ Len(q) = Cardinality(S)
    BY <1>1, <1>2
  <1> QED  BY <1>1, <1>2, <1>3

\* Outcomes are only added, and none but those asked for.
LEMMA MarkAdds ==
    ASSUME NEW r \in [Tasks -> Outcomes], NEW S, NEW how \in Outcomes
    PROVE  /\ Mark(S, r, how) \in [Tasks -> Outcomes]
           /\ \A t \in Tasks : Mark(S, r, how)[t] =
                 IF t \in S /\ r[t] = "pending" THEN how ELSE r[t]
  BY DEF Mark

\* The same for a step that marks one task.
LEMMA MarksOne ==
    ASSUME outcome \in [Tasks -> Outcomes], NEW t, NEW how \in Outcomes,
           outcome' = Mark({t}, outcome, how)
    PROVE  /\ outcome' \in [Tasks -> Outcomes]
           /\ \A d \in Tasks : outcome'[d] =
                 IF d \in {t} /\ outcome[d] = "pending" THEN how ELSE outcome[d]
  BY DEF Mark

\* A failure adds "failed" to the task and to its dependents, and nothing else.
LEMMA FailedAdds ==
    ASSUME outcome \in [Tasks -> Outcomes], NEW t \in Tasks
    PROVE  /\ Failed(t) \in [Tasks -> Outcomes]
           /\ \A d \in Tasks : Failed(t)[d] =
                 IF (d = t \/ d \in Dependents(t)) /\ outcome[d] = "pending"
                 THEN "failed" ELSE outcome[d]
  <1> DEFINE first == Mark({t}, outcome, "failed")
  <1>1. /\ first \in [Tasks -> Outcomes]
        /\ \A d \in Tasks : first[d] =
              IF d \in {t} /\ outcome[d] = "pending" THEN "failed" ELSE outcome[d]
    BY MarkAdds DEF Outcomes
  <1>2. Failed(t) = Mark(Dependents(t), first, "failed")
    BY DEF Failed
  <1> HIDE DEF first
  <1>3. /\ Mark(Dependents(t), first, "failed") \in [Tasks -> Outcomes]
        /\ \A d \in Tasks : Mark(Dependents(t), first, "failed")[d] =
              IF d \in Dependents(t) /\ first[d] = "pending" THEN "failed" ELSE first[d]
    BY <1>1, MarkAdds DEF Outcomes
  <1> QED  BY <1>1, <1>2, <1>3

\* The failure of t reaches whoever waits for t or for one that fails with it.
LEMMA DependentsClosed ==
    ASSUME NEW t \in Tasks, NEW d \in Tasks \ slots, outcome[d] = "pending",
           NEW b \in blockers[d], b = t \/ b \in Dependents(t)
    PROVE  d \in Dependents(t)
  <1> DEFINE open == {e \in Tasks \ slots : outcome[e] = "pending"}
             Closed(S) == \A e \in open : blockers[e] \cap (S \cup {t}) # {} => e \in S
  <1>1. d \in open
    OBVIOUS
  <1>2. ASSUME NEW S \in SUBSET open, Closed(S)
        PROVE  d \in S
    <2>1. b \in S \cup {t}
      BY <1>2 DEF Dependents
    <2> QED  BY <1>1, <1>2, <2>1
  <1> QED  BY <1>1, <1>2 DEF Dependents

-----------------------------------------------------------------------------
\* Whoever has got an outcome keeps it.
Kept == \A t \in Tasks : outcome[t] # "pending" => outcome'[t] = outcome[t]

\* Counts stand as long as outcomes are kept: blockers can only come to an end.
LEMMA CountsStand ==
    ASSUME Types, Counts, Kept, outcome' \in [Tasks -> Outcomes],
           UNCHANGED <<blockers, waits>>
    PROVE  Counts' /\ \A d \in Tasks : Unfinished(d)' \subseteq Unfinished(d)
  <1>1. ASSUME NEW d \in Tasks
        PROVE  Unfinished(d)' \subseteq Unfinished(d)
    BY <1>1 DEF Types, Kept, Unfinished
  <1>2. ASSUME NEW d \in Tasks, outcome'[d] = "pending"
        PROVE  waits'[d] >= Cardinality(Unfinished(d)')
    <2>1. outcome[d] = "pending"
      BY <1>2 DEF Kept
    <2>2. Unfinished(d) \in SUBSET Tasks /\ Unfinished(d)' \in SUBSET Tasks
      BY <1>1 DEF Types, Unfinished
    <2>3. Cardinality(Unfinished(d)') <= Cardinality(Unfinished(d))
      BY <1>1, <2>2, TasksFinite, FS_Subset
    <2>4. Cardinality(Unfinished(d)) \in Nat /\ Cardinality(Unfinished(d)') \in Nat
      BY <2>2, TasksFinite
    <2>5. waits[d] >= Cardinality(Unfinished(d)) /\ waits'[d] = waits[d] /\ waits[d] \in Int
      BY <2>1 DEF Counts, Types
    <2> QED  BY <2>3, <2>4, <2>5
  <1> QED  BY <1>1, <1>2 DEF Counts

\* What is left of a queue when its head is taken off was in it before.
LEMMA TailOf ==
    ASSUME ready \in Seq(Tasks), ready # <<>>, ready' = Tail(ready)
    PROVE  /\ ready' \in Seq(Tasks)
           /\ \A i \in 1..Len(ready') : i + 1 \in 1..Len(ready) /\ ready'[i] = ready[i + 1]
  OBVIOUS

LEMMA QueueStands ==
    ASSUME Types, QueueFree,
           \A d \in Tasks : Unfinished(d)' \subseteq Unfinished(d),
           ready' = ready \/ (ready # <<>> /\ ready' = Tail(ready))
    PROVE  QueueFree' /\ ready' \in Seq(Tasks)
  <1>1. ready \in Seq(Tasks)
    BY DEF Types
  <1>2. CASE ready' = ready
    <2>1. ASSUME NEW i \in 1..Len(ready)
          PROVE  Unfinished(ready[i])' = {}
      <3>1. ready[i] \in Tasks
        BY <1>1
      <3>2. Unfinished(ready[i]) = {}
        BY DEF QueueFree
      <3>3. PICK d \in Tasks : d = ready[i]
        BY <3>1
      <3>4. Unfinished(d)' \subseteq Unfinished(d) /\ Unfinished(d) = {}
        BY <3>2, <3>3
      <3>5. ready'[i] = ready[i]
        BY <1>2
      <3> QED  BY <3>3, <3>4, <3>5 DEF Unfinished
    <2> QED  BY <1>1, <1>2, <2>1 DEF QueueFree, Unfinished
  <1>3. CASE ready # <<>> /\ ready' = Tail(ready)
    <2>1. /\ ready' \in Seq(Tasks)
          /\ \A i \in 1..Len(ready') : i + 1 \in 1..Len(ready) /\ ready'[i] = ready[i + 1]
      BY <1>1, <1>3, TailOf
    <2>2. ASSUME NEW i \in 1..Len(ready')
          PROVE  Unfinished(ready[i])' = {}
      <3>1. PICK d \in Tasks : d = ready[i + 1]
        BY <1>1, <2>1
      <3>2. Unfinished(d) = {} /\ Unfinished(d)' \subseteq Unfinished(d)
        BY <2>1, <3>1 DEF QueueFree
      <3>3. ready'[i] = d
        BY <2>1, <3>1
      <3> QED  BY <3>2, <3>3 DEF Unfinished
    <2> QED  BY <2>1, <2>2 DEF QueueFree, Unfinished
  <1> QED  BY <1>2, <1>3

-----------------------------------------------------------------------------
LEMMA InitInv == Init => IInv
  <1> SUFFICES ASSUME Init PROVE IInv
    OBVIOUS
  <1>1. PICK explicit \in [Tasks -> SUBSET Tasks] : blockers = WithImplicit(explicit, filesDeps)
    BY DEF Init
  <1>2. blockers \in [Tasks -> SUBSET Tasks] /\ Ordered
    BY <1>1 DEF WithImplicit, Ordered, Overlap
  <1> DEFINE roots == {t \in Tasks : blockers[t] = {}}
  <1>3. ready \in Listings(roots)
    BY DEF Init, Roots
  <1>4. ready \in Seq(Tasks) /\ \A i \in 1..Len(ready) : ready[i] \in roots
    <2>1. roots \in SUBSET Tasks
      OBVIOUS
    <2> HIDE DEF roots
    <2> QED  BY <1>3, <2>1, ListingOf
  <1>5. \A d \in Tasks : Cardinality(blockers[d]) \in Nat /\ Unfinished(d) = blockers[d]
    <2>1. \A d \in Tasks : blockers[d] \in SUBSET Tasks
      BY <1>2
    <2> QED  BY <2>1, TasksFinite DEF Unfinished, Init
  <1>6. Types
    BY <1>2, <1>4, <1>5 DEF Types, Init, Outcomes
  <1>7. Counts
    BY <1>5 DEF Counts, Init
  <1>8. QueueFree
    BY <1>4, <1>5 DEF QueueFree
  <1>9. InWork /\ BlockersFirst /\ SlotsHeld /\ FailureReaches
    BY DEF Init, InWork, BlockersFirst, SlotsHeld, FailureReaches
  <1> QED  BY <1>2, <1>6, <1>7, <1>8, <1>9 DEF IInv

(***************************************************************************)
(* A step that only adds outcomes, and leaves bodies, slots and counts     *)
(* alone: it keeps the invariant if those in a slot are not touched and    *)
(* failures reach whoever waits.                                           *)
(***************************************************************************)
LEMMA OutcomesOnly ==
    ASSUME IInv, Kept, outcome' \in [Tasks -> Outcomes],
           UNCHANGED <<filesDeps, blockers, waits, slots, body>>,
           signalled \subseteq signalled',
           ready' = ready \/ (ready # <<>> /\ ready' = Tail(ready)),
           \A t \in slots : outcome'[t] = outcome[t],
           FailureReaches'
    PROVE  IInv'
  <1>1. Counts' /\ \A d \in Tasks : Unfinished(d)' \subseteq Unfinished(d)
    BY CountsStand DEF IInv
  <1>2. QueueFree' /\ ready' \in Seq(Tasks)
    BY <1>1, QueueStands DEF IInv
  <1>3. Types'
    BY <1>2 DEF IInv, Types
  <1>4. Ordered'
    BY DEF IInv, Ordered, Overlap
  <1>5. InWork'
    BY DEF IInv, InWork
  <1>6. BlockersFirst'
    BY DEF IInv, Types, BlockersFirst, Kept
  <1>7. SlotsHeld'
    BY DEF IInv, SlotsHeld
  <1> QED  BY <1>1, <1>2, <1>3, <1>4, <1>5, <1>6, <1>7 DEF IInv

\* A task in a slot has its blockers behind it.
LEMMA SlotsAreFree ==
    ASSUME IInv, NEW d \in slots, NEW b \in blockers[d]
    PROVE  outcome[b] = "completed"
  <1>1. d \in Tasks /\ body[d] # "none"
    BY DEF IInv, Types, SlotsHeld
  <1> QED  BY <1>1 DEF IInv, BlockersFirst

\* After a failure, nobody waits for one that has failed.
LEMMA FailedReaches ==
    ASSUME IInv, NEW t \in Tasks, outcome' = Failed(t), UNCHANGED blockers
    PROVE  FailureReaches'
  <1>1. \A d \in Tasks : Failed(t)[d] =
              IF (d = t \/ d \in Dependents(t)) /\ outcome[d] = "pending"
              THEN "failed" ELSE outcome[d]
    BY FailedAdds DEF IInv, Types
  <1> SUFFICES ASSUME NEW d \in Tasks, NEW b \in Tasks, b \in blockers[d],
                      outcome'[b] = "failed", outcome'[d] = "pending"
               PROVE  FALSE
    BY DEF FailureReaches
  <1>2. outcome[d] = "pending" /\ d # t /\ d \notin Dependents(t)
    BY <1>1
  <1>3. outcome[b] # "failed"
    BY <1>2 DEF IInv, FailureReaches
  <1>4. (b = t \/ b \in Dependents(t)) /\ outcome[b] = "pending"
    BY <1>1, <1>3
  <1>5. d \notin slots
    BY <1>4, SlotsAreFree
  <1>6. d \in Dependents(t)
    BY <1>2, <1>4, <1>5, DependentsClosed
  <1> QED  BY <1>2, <1>6

\* Whoever has an outcome is not among the dependents, nor is anyone in a slot.
LEMMA DependentsArePending ==
    ASSUME NEW t, NEW d \in Dependents(t)
    PROVE  d \in Tasks \ slots /\ outcome[d] = "pending"
  BY DEF Dependents

-----------------------------------------------------------------------------
LEMMA PumpInv ==
    ASSUME IInv, GiveUp \/ StartThrows \/ PumpEnds
    PROVE  IInv' /\ Kept
  <1>1. CASE GiveUp
    <2>1. /\ outcome' \in [Tasks -> Outcomes]
          /\ \A t \in Tasks : outcome'[t] =
                IF t \in Tasks \ slots /\ outcome[t] = "pending" THEN "aborted" ELSE outcome[t]
      BY <1>1, MarkAdds DEF GiveUp, NeverStarted, IInv, Types, Outcomes
    <2>2. Kept /\ \A t \in slots : outcome'[t] = outcome[t]
      BY <2>1 DEF Kept, IInv, Types
    <2>3. FailureReaches'
      BY <1>1, <2>1 DEF GiveUp, graphVars, IInv, FailureReaches
    <2> QED  BY <1>1, <2>1, <2>2, <2>3, OutcomesOnly DEF GiveUp, graphVars, jobVars
  <1>2. CASE PumpEnds
    <2>1. /\ UNCHANGED <<graphVars, outcome, waits, slots, body, signalled>>
          /\ ready' = ready \/ (ready # <<>> /\ ready' = Tail(ready))
      BY <1>2 DEF PumpEnds, MayPump, jobVars
    <2>2. Kept /\ FailureReaches' /\ outcome' \in [Tasks -> Outcomes]
      BY <2>1 DEF Kept, graphVars, IInv, FailureReaches, Types
    <2> QED  BY <2>1, <2>2, OutcomesOnly DEF graphVars
  <1>3. CASE StartThrows
    <2> DEFINE t == Head(ready)
    <2>1. t \in Tasks /\ t \notin slots
      BY <1>3 DEF StartThrows, MayPump, Startable, IInv, Types
    <2>2. outcome' = Failed(t) /\ ready # <<>> /\ ready' = Tail(ready)
      BY <1>3 DEF StartThrows, MayPump
    <2>3. UNCHANGED <<graphVars, waits, slots, body, signalled>>
      BY <1>3 DEF StartThrows, jobVars
    <2> HIDE DEF t
    <2>4. /\ outcome' \in [Tasks -> Outcomes]
          /\ \A d \in Tasks : outcome'[d] =
                IF (d = t \/ d \in Dependents(t)) /\ outcome[d] = "pending"
                THEN "failed" ELSE outcome[d]
      BY <2>1, <2>2, FailedAdds DEF IInv, Types
    <2>5. Kept /\ \A d \in slots : outcome'[d] = outcome[d]
      BY <2>1, <2>4, DependentsArePending DEF Kept, IInv, Types
    <2>6. FailureReaches'
      BY <2>1, <2>2, <2>3, FailedReaches DEF graphVars
    <2> QED  BY <2>2, <2>3, <2>4, <2>5, <2>6, OutcomesOnly DEF graphVars
  <1> QED  BY <1>1, <1>2, <1>3

LEMMA StartNextInv ==
    ASSUME IInv, StartNext
    PROVE  IInv' /\ Kept
  <1> DEFINE t == Head(ready)
  <1>1. /\ t \in Tasks /\ outcome[t] = "pending" /\ t \notin slots
        /\ ready # <<>> /\ ready' = Tail(ready) /\ slots' = slots \cup {t}
        /\ UNCHANGED <<filesDeps, blockers, outcome, waits, signalled>>
    BY DEF StartNext, MayPump, Startable, IInv, Types, graphVars
  <1>2. PICK how \in {"work", "stagger"} : body' = [body EXCEPT ![t] = how]
    BY DEF StartNext
  <1>3. Unfinished(t) = {}
    <2>1. ready \in Seq(Tasks) /\ ready # <<>>
      BY <1>1 DEF IInv, Types
    <2>2. 1 \in 1..Len(ready) /\ t = ready[1]
      BY <2>1
    <2>3. \A i \in 1..Len(ready) : Unfinished(ready[i]) = {}
      BY DEF IInv, QueueFree
    <2> QED  BY <2>2, <2>3
  <1> HIDE DEF t
  <1>4. Kept /\ outcome' \in [Tasks -> Outcomes]
    BY <1>1 DEF Kept, IInv, Types
  <1>5. Counts' /\ \A d \in Tasks : Unfinished(d)' \subseteq Unfinished(d)
    BY <1>1, <1>4, CountsStand DEF IInv
  <1>6. QueueFree' /\ ready' \in Seq(Tasks)
    BY <1>1, <1>5, QueueStands DEF IInv
  <1>7. Types'
    BY <1>1, <1>2, <1>6 DEF IInv, Types
  <1>8. Ordered' /\ InWork' /\ SlotsHeld' /\ FailureReaches'
    BY <1>1, <1>2 DEF IInv, Types, Ordered, Overlap, InWork, SlotsHeld, FailureReaches
  <1>9. BlockersFirst'
    BY <1>1, <1>2, <1>3 DEF IInv, Types, BlockersFirst, Unfinished
  <1> QED  BY <1>4, <1>5, <1>6, <1>7, <1>8, <1>9 DEF IInv

-----------------------------------------------------------------------------
\* A task at work, when it leaves, gives its slot back and has been accounted for.
LEMMA LeaveInv ==
    ASSUME IInv, NEW t \in Tasks, Working(t), Leave(t), Kept,
           outcome' \in [Tasks -> Outcomes],
           \A d \in slots \ {t} : outcome'[d] = outcome[d],
           Counts', QueueFree', FailureReaches',
           waits' \in [Tasks -> Int], ready' \in Seq(Tasks)
    PROVE  IInv'
  <1>1. /\ body[t] = "work" /\ body' = [body EXCEPT ![t] = "report"]
        /\ slots' = slots \ {t}
        /\ UNCHANGED <<filesDeps, blockers, signalled>>
    BY DEF Working, Leave, Released, graphVars
  <1>2. Types' /\ Ordered'
    BY <1>1 DEF IInv, Types, Ordered, Overlap
  <1>3. InWork' /\ SlotsHeld'
    BY <1>1 DEF IInv, Types, InWork, SlotsHeld
  <1>4. BlockersFirst'
    BY <1>1 DEF IInv, Types, BlockersFirst, Kept
  <1> QED  BY <1>2, <1>3, <1>4 DEF IInv

\* A task is failed or aborted from its work: those in other slots are untouched.
LEMMA LeaveUnblocksNone ==
    ASSUME IInv, NEW t \in Tasks, Working(t), Leave(t), Kept,
           outcome' \in [Tasks -> Outcomes],
           \A d \in slots \ {t} : outcome'[d] = outcome[d],
           FailureReaches', UNCHANGED <<waits, ready>>
    PROVE  IInv'
  <1>1. UNCHANGED blockers
    BY DEF Leave, graphVars
  <1>2. Counts' /\ \A d \in Tasks : Unfinished(d)' \subseteq Unfinished(d)
    BY <1>1, CountsStand DEF IInv
  <1>3. QueueFree' /\ ready' \in Seq(Tasks)
    BY <1>2, QueueStands DEF IInv
  <1>4. waits' \in [Tasks -> Int]
    BY DEF IInv, Types
  <1> QED  BY <1>2, <1>3, <1>4, LeaveInv

LEMMA FailsInv ==
    ASSUME IInv, NEW t \in Tasks, Fails(t) \/ IsAborted(t)
    PROVE  IInv' /\ Kept
  <1>1. Working(t) /\ Leave(t) /\ UNCHANGED <<waits, ready, blockers>>
    BY DEF Fails, IsAborted, Leave, graphVars
  <1>2. CASE outcome' = Failed(t)
    <2>1. /\ outcome' \in [Tasks -> Outcomes]
          /\ \A d \in Tasks : outcome'[d] =
                IF (d = t \/ d \in Dependents(t)) /\ outcome[d] = "pending"
                THEN "failed" ELSE outcome[d]
      BY <1>2, FailedAdds DEF IInv, Types
    <2>2. Kept /\ \A d \in slots \ {t} : outcome'[d] = outcome[d]
      BY <2>1, DependentsArePending DEF Kept, IInv, Types
    <2>3. FailureReaches'
      BY <1>1, <1>2, FailedReaches
    <2> QED  BY <1>1, <2>1, <2>2, <2>3, LeaveUnblocksNone
  <1>3. CASE outcome' = Mark({t}, outcome, "aborted")
    <2>1. /\ outcome' \in [Tasks -> Outcomes]
          /\ \A d \in Tasks : outcome'[d] =
                IF d \in {t} /\ outcome[d] = "pending" THEN "aborted" ELSE outcome[d]
      BY <1>3, MarksOne DEF IInv, Types, Outcomes
    <2>2. Kept /\ \A d \in slots \ {t} : outcome'[d] = outcome[d]
      BY <2>1 DEF Kept, IInv, Types
    <2>3. FailureReaches'
      BY <1>1, <2>1 DEF IInv, FailureReaches
    <2> QED  BY <1>1, <2>1, <2>2, <2>3, LeaveUnblocksNone
  <1> QED  BY <1>2, <1>3 DEF Fails, IsAborted

-----------------------------------------------------------------------------
\* The success of t takes t, and nothing else, off what others still wait for.
LEMMA SuccessUnblocks ==
    ASSUME Types, NEW t \in Tasks, outcome[t] = "pending", UNCHANGED blockers,
           outcome' = Mark({t}, outcome, "completed"), NEW d \in Tasks
    PROVE  Unfinished(d)' = Unfinished(d) \ {t}
  <1>1. \A e \in Tasks : outcome'[e] =
                IF e \in {t} /\ outcome[e] = "pending" THEN "completed" ELSE outcome[e]
    BY MarksOne DEF Types, Outcomes
  <1> QED  BY <1>1 DEF Unfinished, Types

LEMMA CountsDown ==
    ASSUME Types, Counts, NEW t \in Tasks, outcome[t] = "pending", UNCHANGED blockers,
           outcome' = Mark({t}, outcome, "completed"), Kept,
           waits' = [d \in Tasks |-> IF outcome[d] = "pending" /\ t \in blockers[d]
                                     THEN waits[d] - 1 ELSE waits[d]]
    PROVE  Counts' /\ waits' \in [Tasks -> Int]
  <1>1. ASSUME NEW d \in Tasks, outcome'[d] = "pending"
        PROVE  waits'[d] >= Cardinality(Unfinished(d)')
    <2>1. outcome[d] = "pending"
      BY <1>1 DEF Kept
    <2>2. Unfinished(d)' = Unfinished(d) \ {t}
      BY SuccessUnblocks
    <2>3. Unfinished(d) \in SUBSET Tasks
      BY DEF Types, Unfinished
    <2>4. /\ IsFiniteSet(Unfinished(d)) /\ Cardinality(Unfinished(d)) \in Nat
          /\ waits[d] \in Int /\ waits[d] >= Cardinality(Unfinished(d))
      BY <2>1, <2>3, TasksFinite DEF Counts, Types
    <2>5. CASE t \in blockers[d]
      <3>1. t \in Unfinished(d)
        BY <2>5 DEF Unfinished
      <3>2. Cardinality(Unfinished(d) \ {t}) = Cardinality(Unfinished(d)) - 1
        BY <2>4, <3>1, FS_RemoveElement
      <3> QED  BY <2>1, <2>2, <2>4, <2>5, <3>2
    <2>6. CASE t \notin blockers[d]
      <3>1. Unfinished(d) \ {t} = Unfinished(d)
        BY <2>6 DEF Unfinished
      <3> QED  BY <2>1, <2>2, <2>4, <2>6, <3>1
    <2> QED  BY <2>5, <2>6
  <1>2. waits' \in [Tasks -> Int]
    BY DEF Types
  <1> QED  BY <1>1, <1>2 DEF Counts

\* Whoever t was the last blocker of waits for nobody once t is done.
LEMMA UnblockedIsFree ==
    ASSUME Types, Counts, NEW t \in Tasks, outcome[t] = "pending", UNCHANGED blockers,
           outcome' = Mark({t}, outcome, "completed"), NEW d \in Unblocked(t)
    PROVE  d \in Tasks /\ Unfinished(d)' = {}
  <1>1. d \in Tasks /\ outcome[d] = "pending" /\ t \in blockers[d] /\ waits[d] = 1
    BY DEF Unblocked
  <1>2. Unfinished(d) \in SUBSET Tasks /\ t \in Unfinished(d)
    BY <1>1 DEF Types, Unfinished
  <1>3. IsFiniteSet(Unfinished(d)) /\ Cardinality(Unfinished(d)) <= 1
    BY <1>1, <1>2, TasksFinite DEF Counts
  <1>4. /\ IsFiniteSet(Unfinished(d) \ {t})
        /\ Cardinality(Unfinished(d) \ {t}) = Cardinality(Unfinished(d)) - 1
    BY <1>2, <1>3, FS_RemoveElement
  <1>5. Cardinality(Unfinished(d) \ {t}) = 0
    BY <1>3, <1>4, FS_CardinalityType
  <1>6. Unfinished(d) \ {t} = {}
    BY <1>4, <1>5, FS_EmptySet
  <1> QED  BY <1>1, <1>6, SuccessUnblocks

LEMMA SucceedsInv ==
    ASSUME IInv, NEW t \in Tasks, Succeeds(t)
    PROVE  IInv' /\ Kept
  <1>1. /\ Working(t) /\ Leave(t) /\ UNCHANGED blockers
        /\ outcome' = Mark({t}, outcome, "completed")
    BY DEF Succeeds, Leave, graphVars
  <1>2. outcome[t] = "pending"
    BY <1>1 DEF IInv, InWork, Working
  <1>3. /\ outcome' \in [Tasks -> Outcomes]
        /\ \A d \in Tasks : outcome'[d] =
              IF d \in {t} /\ outcome[d] = "pending" THEN "completed" ELSE outcome[d]
    <2>1. outcome \in [Tasks -> Outcomes] /\ "completed" \in Outcomes
      BY DEF IInv, Types, Outcomes
    <2>2. outcome' = Mark({t}, outcome, "completed")
      BY <1>1
    <2> QED  BY <2>1, <2>2, MarksOne
  <1>4. Kept /\ \A d \in slots \ {t} : outcome'[d] = outcome[d]
    BY <1>3 DEF Kept, IInv, Types
  <1>5. FailureReaches'
    BY <1>1, <1>2, <1>3 DEF IInv, FailureReaches
  <1>6. CASE UNCHANGED <<waits, ready>>
    BY <1>1, <1>3, <1>4, <1>5, <1>6, LeaveUnblocksNone
  <1>7. CASE /\ waits' = [d \in Tasks |-> IF outcome[d] = "pending" /\ t \in blockers[d]
                                          THEN waits[d] - 1 ELSE waits[d]]
             /\ \E q \in Listings(Unblocked(t)) : ready' = ready \o q
    <2>1. Counts' /\ waits' \in [Tasks -> Int]
      BY <1>1, <1>2, <1>4, <1>7, CountsDown DEF IInv
    <2>2. PICK q \in Listings(Unblocked(t)) : ready' = ready \o q
      BY <1>7
    <2>3. q \in Seq(Tasks) /\ \A i \in 1..Len(q) : q[i] \in Unblocked(t)
      <3>1. Unblocked(t) \in SUBSET Tasks
        BY DEF Unblocked
      <3> QED  BY <2>2, <3>1, ListingOf
    <2>4. ready \in Seq(Tasks)
      BY DEF IInv, Types
    <2>5. ready' \in Seq(Tasks) /\ Len(ready') = Len(ready) + Len(q)
      BY <2>2, <2>3, <2>4
    <2>6. ASSUME NEW i \in 1..Len(ready')
          PROVE  \E d \in Tasks : ready'[i] = d /\ Unfinished(d)' = {}
      <3>1. CASE i <= Len(ready)
        <4>1. i \in 1..Len(ready) /\ ready'[i] = ready[i] /\ ready[i] \in Tasks
          BY <2>2, <2>3, <2>4, <2>6, <3>1
        <4>2. PICK d \in Tasks : d = ready[i]
          BY <4>1
        <4>3. Unfinished(d) = {}
          BY <4>1, <4>2 DEF IInv, QueueFree
        <4>4. Unfinished(d)' = Unfinished(d) \ {t}
          BY <1>1, <1>2, SuccessUnblocks DEF IInv
        <4> QED  BY <4>1, <4>2, <4>3, <4>4
      <3>2. CASE ~(i <= Len(ready))
        <4>1. i - Len(ready) \in 1..Len(q) /\ ready'[i] = q[i - Len(ready)]
          BY <2>2, <2>3, <2>4, <2>5, <2>6, <3>2
        <4>2. PICK d \in Unblocked(t) : ready'[i] = d
          BY <2>3, <4>1
        <4> QED  BY <1>1, <1>2, <4>2, UnblockedIsFree DEF IInv
      <3> QED  BY <3>1, <3>2
    <2>7. QueueFree'
      BY <2>6 DEF QueueFree, Unfinished
    <2> QED  BY <1>1, <1>3, <1>4, <1>5, <2>1, <2>5, <2>7, LeaveInv
  <1> QED  BY <1>6, <1>7 DEF Succeeds

-----------------------------------------------------------------------------
\* The steps outside the pump that give no task an outcome.
LEMMA OthersInv ==
    ASSUME IInv, NEW t \in Tasks,
           WakeUp(t) \/ Returns(t) \/ Cancel(t) \/ Watchdog(t) \/ AbortCall \/ UNCHANGED vars
    PROVE  IInv' /\ Kept
  <1>1. UNCHANGED <<filesDeps, blockers, outcome, slots, waits, ready>>
    BY DEF WakeUp, Returns, Cancel, Watchdog, AbortCall, vars, graphVars
  <1>2. signalled \subseteq signalled'
    BY DEF WakeUp, Returns, Cancel, Watchdog, AbortCall, vars, jobVars
  <1>3. Kept /\ FailureReaches' /\ outcome' \in [Tasks -> Outcomes]
    BY <1>1 DEF Kept, IInv, FailureReaches, Types
  <1>4. CASE UNCHANGED body
    BY <1>1, <1>2, <1>3, <1>4, OutcomesOnly
  <1>5. CASE WakeUp(t) \/ Returns(t)
    <2>1. PICK how \in {"work", "over"} : body' = [body EXCEPT ![t] = how]
      BY <1>5 DEF WakeUp, Returns
    <2>2. /\ body[t] \in {"stagger", "report"}
          /\ how = "work" => body[t] = "stagger"
          /\ body[t] = "stagger" /\ how = "over" => t \in signalled
      BY <1>5, <2>1 DEF WakeUp, Returns, IInv, Types
    <2>3. Types' /\ Ordered'
      BY <1>1, <2>1 DEF IInv, Types, Ordered, Overlap
    <2>4. Counts' /\ QueueFree'
      BY <1>1 DEF IInv, Counts, QueueFree, Unfinished
    <2>5. InWork'
      BY <1>1, <2>1, <2>2 DEF IInv, Types, InWork
    <2>6. SlotsHeld'
      <3> SUFFICES ASSUME NEW u \in slots
                   PROVE  \/ body'[u] \in {"stagger", "work"}
                          \/ body'[u] = "over" /\ u \in signalled'
        BY <1>1 DEF SlotsHeld
      <3>1. u \in Tasks /\ (body[u] \in {"stagger", "work"} \/ (body[u] = "over" /\ u \in signalled))
        BY DEF IInv, Types, SlotsHeld
      <3> QED  BY <1>2, <2>1, <2>2, <3>1 DEF IInv, Types
    <2>7. BlockersFirst'
      BY <1>1, <2>1, <2>2 DEF IInv, Types, BlockersFirst
    <2> QED  BY <1>3, <2>3, <2>4, <2>5, <2>6, <2>7 DEF IInv
  <1> QED  BY <1>4, <1>5 DEF Cancel, Watchdog, AbortCall, vars, jobVars

LEMMA StepInv ==
    ASSUME IInv, [Next]_vars
    PROVE  IInv' /\ Kept
  <1>1. CASE Pump
    BY <1>1, PumpInv, StartNextInv DEF Pump
  <1>2. CASE \E t \in Tasks : TaskStep(t)
    BY <1>2, FailsInv, SucceedsInv, OthersInv DEF TaskStep, WorkEnds
  <1>3. CASE AbortCall \/ UNCHANGED vars
    <2>1. 1 \in Tasks
      BY BatchAssumption DEF Tasks
    <2> QED  BY <1>3, <2>1, OthersInv
  <1> QED  BY <1>1, <1>2, <1>3 DEF Next

LEMMA Invariance == Spec => []IInv
  <1>1. Init => IInv
    BY InitInv
  <1>2. IInv /\ [Next]_vars => IInv'
    BY StepInv
  <1> QED  BY <1>1, <1>2, PTL DEF Spec

-----------------------------------------------------------------------------
\* No job runs before all its blockers have completed (buildBatchGraph, scheduleReadyTasks).
THEOREM BatchBlockersFirst == Spec => []BlockersFirst
  <1>1. IInv => BlockersFirst
    BY DEF IInv
  <1> QED  BY <1>1, Invariance, PTL

\* Two tasks with a file in common are ordered, so the later one has not begun while the
\* other is at work: the other has no outcome yet.
LEMMA OrderedApart == IInv => FilesApart
  <1> SUFFICES ASSUME IInv, NEW t \in Tasks, NEW u \in Tasks, u < t, Overlap(filesDeps, u, t),
                      {body[t], body[u]} \subseteq {"stagger", "work"}
               PROVE  FALSE
    <2>1. \A t, u \in Tasks : Overlap(filesDeps, t, u) = Overlap(filesDeps, u, t)
      BY DEF Overlap
    <2>2. \A t, u \in Tasks : t # u => t < u \/ u < t
      BY DEF Tasks
    <2> QED  BY <2>1, <2>2 DEF FilesApart
  <1>1. u \in blockers[t]
    BY DEF IInv, Ordered
  <1>2. outcome[u] = "completed"
    BY <1>1 DEF IInv, BlockersFirst
  <1>3. outcome[u] = "pending"
    BY DEF IInv, InWork
  <1> QED  BY <1>2, <1>3

\* Tasks that declare the same file never work at the same time (addImplicitFileDeps).
THEOREM BatchFilesApart == Spec => []FilesApart
  BY Invariance, OrderedApart, PTL

\* Only an abort in the stagger sleep leaves a slot behind (scheduleReadyTasks).
THEOREM BatchSlotsHeld == Spec => []SlotsHeld
  <1>1. IInv => SlotsHeld
    BY DEF IInv
  <1> QED  BY <1>1, Invariance, PTL

\* A failure reaches everybody who waits for the task that failed (failDependents).
THEOREM BatchFailureReaches == Spec => []FailureReaches
  <1>1. IInv => FailureReaches
    BY DEF IInv
  <1> QED  BY <1>1, Invariance, PTL

\* The first outcome of a task is its last (markTaskTerminal).
THEOREM BatchOutcomeStays == Spec => OutcomeStays
  <1>1. IInv /\ [Next]_vars => [\A t \in Tasks : outcome[t] # "pending" => outcome'[t] = outcome[t]]_vars
    BY StepInv DEF Kept
  <1> QED  BY <1>1, Invariance, PTL DEF Spec, OutcomeStays

-----------------------------------------------------------------------------
(***************************************************************************)
(* The types and limits the argument above does without.  A count falls    *)
(* only with a blocker that has not completed, so it never goes below 0.   *)
(***************************************************************************)
Limits ==
    /\ filesDeps \in [Tasks -> SUBSET Files]
    /\ Cardinality(slots) <= MaxConcurrency
    /\ waits \in [Tasks -> Nat]
    /\ counted \in SUBSET Tasks /\ signalled \in SUBSET Tasks
    /\ others \in 0..MaxRunning
    /\ pumping \in BOOLEAN /\ aborted \in BOOLEAN

LEMMA InitLimits == Init => Limits
  <1> SUFFICES ASSUME Init PROVE Limits
    OBVIOUS
  <1>1. blockers \in [Tasks -> SUBSET Tasks]
    BY InitInv DEF IInv, Types
  <1>2. waits \in [Tasks -> Nat]
    <2>1. \A t \in Tasks : Cardinality(blockers[t]) \in Nat
      BY <1>1, TasksFinite
    <2> QED  BY <2>1 DEF Init
  <1>3. Cardinality(slots) <= MaxConcurrency
    BY FS_EmptySet, LimitsAssumption DEF Init
  <1>4. pumping \in BOOLEAN /\ aborted \in BOOLEAN
    BY DEF Init
  <1> QED  BY <1>2, <1>3, <1>4 DEF Init, Limits

\* The success of t takes one off the count of those that still waited for it.
LEMMA CountsStayNat ==
    ASSUME IInv, waits \in [Tasks -> Nat], NEW t \in Tasks, outcome[t] = "pending",
           waits' = [d \in Tasks |-> IF outcome[d] = "pending" /\ t \in blockers[d]
                                     THEN waits[d] - 1 ELSE waits[d]]
    PROVE  waits' \in [Tasks -> Nat]
  <1>1. ASSUME NEW d \in Tasks, outcome[d] = "pending", t \in blockers[d]
        PROVE  waits[d] - 1 \in Nat
    <2>1. Unfinished(d) \in SUBSET Tasks /\ t \in Unfinished(d)
      BY <1>1 DEF IInv, Types, Unfinished
    <2>2. IsFiniteSet(Unfinished(d)) /\ Cardinality(Unfinished(d)) \in Nat
      BY <2>1, TasksFinite
    <2>3. Cardinality(Unfinished(d)) # 0
      BY <2>1, <2>2, FS_EmptySet
    <2>4. waits[d] >= Cardinality(Unfinished(d)) /\ waits[d] \in Nat
      BY <1>1 DEF IInv, Counts
    <2> QED  BY <2>2, <2>3, <2>4
  <1> QED  BY <1>1

LEMMA PumpLimits ==
    ASSUME IInv, Limits, Pump
    PROVE  Limits'
  <1>1. CASE GiveUp \/ PumpEnds \/ StartThrows
    <2>1. UNCHANGED <<filesDeps, slots, waits, counted, signalled, aborted>>
      BY <1>1 DEF GiveUp, PumpEnds, StartThrows, graphVars, jobVars
    <2>2. (others' = 0 \/ others' = others) /\ (pumping' = FALSE \/ pumping' = pumping)
      BY <1>1 DEF GiveUp, PumpEnds, StartThrows
    <2>3. 0 \in 0..MaxRunning
      BY LimitsAssumption
    <2> QED  BY <2>1, <2>2, <2>3 DEF Limits
  <1>2. CASE StartNext
    <2>1. PICK t \in Tasks : slots' = slots \cup {t} /\ counted' = counted \cup {t}
      <3>1. Head(ready) \in Tasks
        BY <1>2 DEF StartNext, MayPump, IInv, Types
      <3> QED  BY <1>2, <3>1 DEF StartNext
    <2>2. Cardinality(slots) < MaxConcurrency
      BY <1>2 DEF StartNext, MayPump
    <2>3. Cardinality(slots') <= MaxConcurrency
      <3>1. slots \in SUBSET Tasks
        BY DEF IInv, Types
      <3>2. IsFiniteSet(slots) /\ Cardinality(slots) \in Nat
        BY <3>1, TasksFinite
      <3>3. Cardinality(slots \cup {t}) = Cardinality(slots)
            \/ Cardinality(slots \cup {t}) = Cardinality(slots) + 1
        BY <3>2, FS_AddElement
      <3> QED  BY <2>1, <2>2, <3>2, <3>3, LimitsAssumption
    <2>4. UNCHANGED <<filesDeps, waits, signalled, others, pumping, aborted>>
      BY <1>2 DEF StartNext, graphVars
    <2> QED  BY <2>1, <2>3, <2>4 DEF Limits
  <1> QED  BY <1>1, <1>2 DEF Pump

LEMMA WorkLimits ==
    ASSUME IInv, Limits, NEW t \in Tasks, WorkEnds(t)
    PROVE  Limits'
  <1>1. Working(t) /\ Leave(t)
    BY DEF WorkEnds, Succeeds, Fails, IsAborted
  <1>2. /\ slots' = slots \ {t} /\ pumping' = TRUE /\ others' \in 0..MaxRunning
        /\ UNCHANGED <<filesDeps, counted, signalled, aborted>>
    BY <1>1 DEF Leave, Released, graphVars
  <1>3. Cardinality(slots') <= MaxConcurrency
    <2>1. slots \in SUBSET Tasks /\ slots' \in SUBSET Tasks
      BY <1>2 DEF IInv, Types
    <2>2. IsFiniteSet(slots) /\ Cardinality(slots) \in Nat /\ Cardinality(slots') \in Nat
      BY <2>1, TasksFinite
    <2>3. Cardinality(slots') <= Cardinality(slots)
      BY <1>2, <2>2, FS_Subset
    <2> QED  BY <2>2, <2>3, LimitsAssumption DEF Limits
  <1>4. waits' \in [Tasks -> Nat]
    <2>1. outcome[t] = "pending"
      BY <1>1 DEF IInv, InWork, Working
    <2>2. CASE UNCHANGED waits
      BY <2>2 DEF Limits
    <2>3. CASE waits' = [d \in Tasks |-> IF outcome[d] = "pending" /\ t \in blockers[d]
                                         THEN waits[d] - 1 ELSE waits[d]]
      BY <2>1, <2>3, CountsStayNat DEF Limits
    <2> QED  BY <2>2, <2>3 DEF WorkEnds, Succeeds, Fails, IsAborted
  <1> QED  BY <1>2, <1>3, <1>4 DEF Limits

LEMMA StepLimits ==
    ASSUME IInv, Limits, [Next]_vars
    PROVE  Limits'
  <1>1. CASE \E t \in Tasks : WakeUp(t) \/ Returns(t) \/ Cancel(t) \/ Watchdog(t)
    <2>1. PICK t \in Tasks : WakeUp(t) \/ Returns(t) \/ Cancel(t) \/ Watchdog(t)
      BY <1>1
    <2>2. /\ UNCHANGED <<filesDeps, slots, waits, others, pumping, aborted>>
          /\ counted' \in {counted, counted \ {t}} /\ signalled' \in {signalled, signalled \cup {t}}
      BY <2>1 DEF WakeUp, Returns, Cancel, Watchdog, graphVars
    <2> QED  BY <2>2 DEF Limits
  <1>2. CASE AbortCall \/ UNCHANGED vars
    <2>1. /\ UNCHANGED <<filesDeps, slots, waits, counted, signalled, others, pumping>>
          /\ aborted' = TRUE \/ aborted' = aborted
      BY <1>2 DEF AbortCall, vars, graphVars, jobVars
    <2> QED  BY <2>1 DEF Limits
  <1> QED  BY <1>1, <1>2, PumpLimits, WorkLimits DEF Next, TaskStep

\* Every variable stays in its domain: no count of blockers goes below zero, and no more
\* than MaxConcurrency tasks hold a slot, whatever failed, was cancelled or was refused
\* (index.ts: remainingBlockers, scheduleReadyTasks).
THEOREM BatchTypes == Spec => []TypeOK
  <1>1. Init => Limits
    BY InitLimits
  <1>2. IInv /\ Limits /\ [Next]_vars => Limits'
    BY StepLimits
  <1>3. IInv /\ Limits => TypeOK
    BY DEF IInv, Types, Outcomes, Limits, TypeOK
  <1> QED  BY <1>1, <1>2, <1>3, Invariance, PTL DEF Spec

-----------------------------------------------------------------------------
(***************************************************************************)
(* A batch at rest.  BatchEnds is about liveness; its core is that the     *)
(* batch never comes to rest with work left that it could do.  That needs  *)
(* the counts to be exact while nobody interrupts (Exact), the queue to    *)
(* hold no task that would be passed over (QueueLive), and whoever is      *)
(* pending and not queued to wait for somebody (Waiting).                  *)
(***************************************************************************)
Exact ==
    ~aborted => \A d \in Tasks : outcome[d] = "pending" => waits[d] = Cardinality(Unfinished(d))

Distinct(q) == \A i, k \in 1..Len(q) : q[i] = q[k] => i = k

InQueue(d) == \E i \in 1..Len(ready) : ready[i] = d

QueueLive ==
    ~aborted => Distinct(ready) /\ \A d \in Tasks : InQueue(d) => Startable(d)

Waiting ==
    ~(aborted /\ pumping) =>
        \A d \in Tasks \ slots : outcome[d] = "pending" /\ ~InQueue(d) => Unfinished(d) # {}

Rested ==
    ~pumping => \/ ready = <<>>
                \/ Cardinality(slots) >= MaxConcurrency
                \/ \A t \in Tasks \ slots : outcome[t] # "pending"

RestInv == Exact /\ QueueLive /\ Waiting /\ Rested /\ Acyclic(blockers)

\* An order of a set of tasks has each of them at one place.
LEMMA ListingFull ==
    ASSUME NEW S \in SUBSET Tasks, NEW q \in Listings(S)
    PROVE  /\ \A i, k \in 1..Len(q) : q[i] = q[k] => i = k
           /\ \A d \in S : \E i \in 1..Len(q) : q[i] = d
  <1>1. IsFiniteSet(S) /\ Cardinality(S) \in Nat
    BY TasksFinite
  <1>2. q \in [1..Cardinality(S) -> S] /\ \A i, k \in 1..Cardinality(S) : q[i] = q[k] => i = k
    BY DEF Listings
  <1>3. Len(q) = Cardinality(S)
    BY <1>1, <1>2
  <1>4. q \in Injection(1..Cardinality(S), S)
    BY <1>2 DEF Injection, IsInjective
  <1>5. IsFiniteSet(1..Cardinality(S)) /\ Cardinality(1..Cardinality(S)) = Cardinality(S)
    BY <1>1, FS_Interval
  <1>6. q \in Surjection(1..Cardinality(S), S)
    BY <1>1, <1>4, <1>5, FS_Injection
  <1> QED  BY <1>2, <1>3, <1>6 DEF Surjection

LEMMA InitRest == Init => RestInv
  <1> SUFFICES ASSUME Init PROVE RestInv
    OBVIOUS
  <1> DEFINE roots == {t \in Tasks : blockers[t] = {}}
  <1>1. blockers \in [Tasks -> SUBSET Tasks]
    BY InitInv DEF IInv, Types
  <1>2. \A d \in Tasks : Unfinished(d) = blockers[d]
    BY <1>1 DEF Init, Unfinished
  <1>3. roots \in SUBSET Tasks /\ ready \in Listings(roots)
    BY DEF Init, Roots
  <1>4. Exact
    BY <1>2 DEF Init, Exact
  <1>5. \A d \in roots : InQueue(d)
    <2> HIDE DEF roots
    <2> QED  BY <1>3, ListingFull DEF InQueue
  <1>6. Distinct(ready)
    <2> HIDE DEF roots
    <2> QED  BY <1>3, ListingFull DEF Distinct
  <1>7. QueueLive
    BY <1>6 DEF QueueLive, Startable, Init
  <1>8. Waiting
    BY <1>1, <1>2, <1>5 DEF Waiting
  <1>9. Rested /\ Acyclic(blockers)
    BY DEF Init, Rested
  <1> QED  BY <1>4, <1>7, <1>8, <1>9 DEF RestInv

\* Whoever fails with t has a blocker that has not completed.
LEMMA DependentsWait ==
    ASSUME Types, NEW t \in Tasks, outcome[t] = "pending", NEW d \in Dependents(t)
    PROVE  d \in Tasks /\ Unfinished(d) # {}
  <1> DEFINE open == {e \in Tasks \ slots : outcome[e] = "pending"}
             Closed(S) == \A e \in open : blockers[e] \cap (S \cup {t}) # {} => e \in S
             late == {e \in open : Unfinished(e) # {}}
  <1>1. d \in open /\ \A S \in SUBSET open : Closed(S) => d \in S
    BY DEF Dependents
  <1>2. Closed(late)
    <2> SUFFICES ASSUME NEW e \in open, NEW b \in blockers[e], b = t \/ b \in late
                 PROVE  Unfinished(e) # {}
      OBVIOUS
    <2>1. outcome[b] = "pending"
      OBVIOUS
    <2> QED  BY <2>1 DEF Unfinished
  <1> QED  BY <1>1, <1>2

LEMMA SameUnfinished ==
    ASSUME Types, UNCHANGED blockers,
           \A b \in Tasks : outcome'[b] = "completed" <=> outcome[b] = "completed"
    PROVE  \A d \in Tasks : Unfinished(d)' = Unfinished(d)
  BY DEF Types, Unfinished

\* The head of the queue is taken off, and nothing else.
LEMMA QueueRest ==
    ASSUME ready \in Seq(Tasks), Distinct(ready), ready # <<>>, ready' = Tail(ready)
    PROVE  /\ Distinct(ready')
           /\ InQueue(Head(ready))
           /\ \A d : InQueue(d)' <=> InQueue(d) /\ d # Head(ready)
  <1>1. /\ Len(ready) \in Nat /\ Len(ready) >= 1 /\ Head(ready) = ready[1]
        /\ Len(ready') = Len(ready) - 1
        /\ \A i \in 1..Len(ready') : i + 1 \in 1..Len(ready) /\ ready'[i] = ready[i + 1]
    OBVIOUS
  <1>2. Distinct(ready')
    BY <1>1 DEF Distinct
  <1>3. ASSUME NEW d, NEW i \in 1..Len(ready), ready[i] = d, d # Head(ready)
        PROVE  \E k \in 1..Len(ready') : ready'[k] = d
    <2>1. PICK k \in 1..Len(ready') : k = i - 1
      BY <1>1, <1>3
    <2>2. ready'[k] = d
      BY <1>1, <1>3, <2>1
    <2> QED  BY <2>2
  <1>4. ASSUME NEW d, NEW k \in 1..Len(ready'), ready'[k] = d
        PROVE  d # Head(ready) /\ \E i \in 1..Len(ready) : ready[i] = d
    <2>1. PICK i \in 1..Len(ready) : i = k + 1
      BY <1>1
    <2>2. ready[i] = d /\ i # 1 /\ 1 \in 1..Len(ready)
      BY <1>1, <1>4, <2>1
    <2> QED  BY <1>1, <2>2 DEF Distinct
  <1>5. InQueue(Head(ready))
    BY <1>1 DEF InQueue
  <1> QED  BY <1>2, <1>3, <1>4, <1>5 DEF InQueue

\* Who is in the queue waits for nobody.
LEMMA QueuedAreFree ==
    ASSUME QueueFree, NEW d, InQueue(d)
    PROVE  Unfinished(d) = {}
  BY DEF QueueFree, InQueue

(***************************************************************************)
(* A task fails or is aborted before an interrupt: from its slot, or as    *)
(* the head of the queue.                                                  *)
(***************************************************************************)
LEMMA LossRests ==
    ASSUME IInv, RestInv, ~aborted, Kept, UNCHANGED <<blockers, waits, aborted>>, pumping' = TRUE,
           NEW t \in Tasks, slots' \in {slots, slots \ {t}},
           outcome'[t] # "pending",
           \A b \in Tasks : outcome'[b] = "completed" <=> outcome[b] = "completed",
           \A d \in Tasks : d # t /\ Unfinished(d) = {} => outcome'[d] = outcome[d],
           \/ t \in slots /\ ready' = ready
           \/ ready # <<>> /\ t = Head(ready) /\ ready' = Tail(ready)
    PROVE  RestInv'
  <1>1. \A d \in Tasks : Unfinished(d)' = Unfinished(d)
    BY SameUnfinished DEF IInv
  <1>2. \A d \in Tasks : outcome'[d] = "pending" => outcome[d] = "pending" /\ d # t
    BY DEF Kept
  <1>3. Exact'
    BY <1>1, <1>2 DEF RestInv, Exact
  <1>4. /\ Distinct(ready) /\ ready \in Seq(Tasks)
        /\ \A d \in Tasks : InQueue(d) => Startable(d) /\ Unfinished(d) = {}
    BY QueuedAreFree DEF RestInv, QueueLive, IInv, Types
  <1>5. \A d \in Tasks : InQueue(d) /\ d # t => Startable(d)'
    BY <1>4 DEF Startable
  <1>6. CASE t \in slots /\ ready' = ready
    <2>1. /\ ~InQueue(t) /\ Distinct(ready')
          /\ \A d : InQueue(d)' <=> InQueue(d)
      BY <1>4, <1>6 DEF Startable, InQueue
    <2>2. QueueLive'
      BY <1>5, <2>1 DEF QueueLive
    <2>3. Waiting'
      BY <1>1, <1>2, <2>1 DEF RestInv, Waiting
    <2> QED  BY <1>3, <2>2, <2>3 DEF RestInv, Rested
  <1>7. CASE ready # <<>> /\ t = Head(ready) /\ ready' = Tail(ready)
    <2>1. Distinct(ready') /\ \A d : InQueue(d)' <=> InQueue(d) /\ d # t
      BY <1>4, <1>7, QueueRest
    <2>2. QueueLive'
      BY <1>5, <2>1 DEF QueueLive
    <2>3. Waiting'
      BY <1>1, <1>2, <2>1 DEF RestInv, Waiting
    <2> QED  BY <1>3, <2>2, <2>3 DEF RestInv, Rested
  <1> QED  BY <1>6, <1>7

LEMMA PumpRests ==
    ASSUME IInv, RestInv, Pump
    PROVE  RestInv'
  <1>1. CASE GiveUp
    <2>1. /\ aborted /\ aborted' = aborted /\ pumping' = FALSE /\ UNCHANGED <<blockers, slots>>
          /\ outcome' = NeverStarted
      BY <1>1 DEF GiveUp, graphVars
    <2>2. \A t \in Tasks \ slots : outcome'[t] # "pending"
      BY <2>1 DEF NeverStarted, Mark
    <2> QED  BY <2>1, <2>2 DEF RestInv, Exact, QueueLive, Waiting, Rested
  <1>2. CASE PumpEnds
    <2>1. /\ ~aborted /\ pumping' = FALSE
          /\ ~(Cardinality(slots) < MaxConcurrency) \/ ready = <<>>
          /\ UNCHANGED <<blockers, outcome, slots, waits, ready, aborted>>
      BY <1>2 DEF PumpEnds, MayPump, graphVars
    <2>2. slots \in SUBSET Tasks /\ slots' = slots
      BY <2>1 DEF IInv, Types
    <2>3. Cardinality(slots) \in Nat /\ MaxConcurrency \in Nat
      BY <2>2, TasksFinite, LimitsAssumption
    <2>4. Rested'
      BY <2>1, <2>3 DEF Rested
    <2>5. \A d \in Tasks : /\ Unfinished(d)' = Unfinished(d)
                           /\ InQueue(d)' <=> InQueue(d)
                           /\ Startable(d)' <=> Startable(d)
      BY <2>1 DEF Unfinished, InQueue, Startable
    <2> QED  BY <2>1, <2>4, <2>5 DEF RestInv, Exact, QueueLive, Waiting
  <1>3. CASE StartThrows
    <2>1. PICK t \in Tasks : t = Head(ready)
      BY <1>3 DEF StartThrows, MayPump, IInv, Types
    <2>2. /\ ~aborted /\ pumping /\ outcome[t] = "pending" /\ t \notin slots
          /\ outcome' = Failed(t) /\ ready # <<>> /\ ready' = Tail(ready)
          /\ UNCHANGED <<blockers, slots, waits, pumping, aborted>>
      BY <1>3, <2>1 DEF StartThrows, MayPump, Startable, graphVars
    <2>3. /\ \A d \in Tasks : outcome'[d] =
                IF (d = t \/ d \in Dependents(t)) /\ outcome[d] = "pending"
                THEN "failed" ELSE outcome[d]
      BY <2>2, FailedAdds DEF IInv, Types
    <2>4. \A d \in Tasks : d # t /\ Unfinished(d) = {} => outcome'[d] = outcome[d]
      BY <2>2, <2>3, DependentsWait DEF IInv
    <2> QED  BY <1>3, <2>1, <2>2, <2>3, <2>4, PumpInv, LossRests
  <1>4. CASE StartNext
    <2>1. PICK t \in Tasks : t = Head(ready)
      BY <1>4 DEF StartNext, MayPump, IInv, Types
    <2>2. /\ ~aborted /\ pumping /\ ready # <<>> /\ ready' = Tail(ready) /\ slots' = slots \cup {t}
          /\ UNCHANGED <<blockers, outcome, waits, pumping, aborted>>
      BY <1>4, <2>1 DEF StartNext, MayPump, graphVars
    <2>3. Distinct(ready) /\ ready \in Seq(Tasks) /\ \A d \in Tasks : InQueue(d) => Startable(d)
      BY <2>2 DEF RestInv, QueueLive, IInv, Types
    <2>4. Distinct(ready') /\ \A d : InQueue(d)' <=> InQueue(d) /\ d # t
      BY <2>1, <2>2, <2>3, QueueRest
    <2>5. \A d \in Tasks : Unfinished(d)' = Unfinished(d)
      BY <2>2 DEF Unfinished
    <2>6. QueueLive'
      BY <2>2, <2>3, <2>4 DEF QueueLive, Startable
    <2>7. Exact' /\ Waiting'
      BY <2>2, <2>4, <2>5 DEF RestInv, Exact, Waiting
    <2> QED  BY <2>2, <2>6, <2>7 DEF RestInv, Rested
  <1> QED  BY <1>1, <1>2, <1>3, <1>4 DEF Pump

LEMMA FailsRests ==
    ASSUME IInv, RestInv, NEW t \in Tasks, Fails(t) \/ IsAborted(t)
    PROVE  RestInv'
  <1>1. /\ Working(t) /\ pumping' = TRUE /\ slots' = slots \ {t}
        /\ UNCHANGED <<blockers, waits, ready, aborted>>
    BY DEF Fails, IsAborted, Leave, Released, graphVars
  <1>2. outcome[t] = "pending" /\ t \in slots
    BY <1>1 DEF Working, IInv, InWork
  <1>3. CASE aborted
    BY <1>1, <1>3 DEF RestInv, Exact, QueueLive, Waiting, Rested
  <1>4. CASE ~aborted
    <2>1. Kept
      BY FailsInv
    <2>2. /\ outcome'[t] # "pending"
          /\ \A b \in Tasks : outcome'[b] = "completed" <=> outcome[b] = "completed"
          /\ \A d \in Tasks : d # t /\ Unfinished(d) = {} => outcome'[d] = outcome[d]
      <3>1. CASE outcome' = Failed(t)
        <4>1. \A d \in Tasks : outcome'[d] =
                  IF (d = t \/ d \in Dependents(t)) /\ outcome[d] = "pending"
                  THEN "failed" ELSE outcome[d]
          BY <3>1, FailedAdds DEF IInv, Types
        <4> QED  BY <1>2, <4>1, DependentsWait DEF IInv
      <3>2. CASE outcome' = Mark({t}, outcome, "aborted")
        BY <1>2, <3>2 DEF Mark
      <3> QED  BY <3>1, <3>2 DEF Fails, IsAborted
    <2> QED  BY <1>1, <1>2, <1>4, <2>1, <2>2, LossRests
  <1> QED  BY <1>3, <1>4

\* A task that was unblocked by t was neither queued nor in a slot, and is not t.
LEMMA UnblockedIsNew ==
    ASSUME IInv, NEW t \in Tasks, outcome[t] = "pending", t \in slots, NEW d \in Unblocked(t)
    PROVE  /\ d \in Tasks /\ outcome[d] = "pending" /\ d # t /\ d \notin slots
           /\ t \in Unfinished(d) /\ ~InQueue(d)
  <1>1. d \in Tasks /\ outcome[d] = "pending" /\ t \in blockers[d]
    BY DEF Unblocked
  <1>2. t \in Unfinished(d)
    BY <1>1 DEF Unfinished
  <1>3. d \notin slots
    BY <1>1, SlotsAreFree
  <1>4. ~InQueue(d)
    BY <1>2, QueuedAreFree DEF IInv
  <1> QED  BY <1>1, <1>2, <1>3, <1>4

\* The queue grows by an order of tasks that were not in it.
LEMMA QueueGrows ==
    ASSUME ready \in Seq(Tasks), Distinct(ready), NEW S \in SUBSET Tasks,
           \A d \in S : ~InQueue(d), NEW q \in Listings(S), ready' = ready \o q
    PROVE  Distinct(ready') /\ \A d \in Tasks : InQueue(d)' <=> InQueue(d) \/ d \in S
  <1>1. /\ q \in Seq(Tasks) /\ \A i \in 1..Len(q) : q[i] \in S
        /\ \A i, k \in 1..Len(q) : q[i] = q[k] => i = k
        /\ \A d \in S : \E i \in 1..Len(q) : q[i] = d
    BY ListingOf, ListingFull
  <1>2. PICK m \in Nat : m = Len(ready)
    OBVIOUS
  <1>3. PICK n \in Nat : n = Len(q)
    BY <1>1
  <1>4. /\ Len(ready') = m + n
        /\ \A i \in 1..m : ready'[i] = ready[i]
        /\ \A i \in 1..(m + n) : i \notin 1..m => i - m \in 1..n /\ ready'[i] = q[i - m]
        /\ \A i \in 1..n : ready'[i + m] = q[i]
    BY <1>1, <1>2, <1>3
  <1>5. \A i \in 1..m : ready[i] \notin S
    BY <1>2 DEF InQueue
  <1>6. ASSUME NEW i \in 1..(m + n), NEW k \in 1..(m + n), ready'[i] = ready'[k] PROVE i = k
    <2>1. CASE i \in 1..m /\ k \in 1..m
      BY <1>2, <1>4, <1>6, <2>1 DEF Distinct
    <2>2. CASE i \notin 1..m /\ k \notin 1..m
      <3>1. i - m \in 1..n /\ k - m \in 1..n /\ q[i - m] = q[k - m]
        BY <1>4, <1>6, <2>2
      <3>2. i - m = k - m
        BY <1>1, <1>3, <3>1
      <3> QED  BY <3>2
    <2>3. CASE i \in 1..m /\ k \notin 1..m
      BY <1>1, <1>3, <1>4, <1>5, <1>6, <2>3
    <2>4. CASE i \notin 1..m /\ k \in 1..m
      BY <1>1, <1>3, <1>4, <1>5, <1>6, <2>4
    <2> QED  BY <2>1, <2>2, <2>3, <2>4
  <1>7. ASSUME NEW d \in S PROVE \E k \in 1..(m + n) : ready'[k] = d
    <2>1. PICK i \in 1..n : q[i] = d
      BY <1>1, <1>3
    <2>2. PICK k \in 1..(m + n) : k = i + m
      OBVIOUS
    <2> QED  BY <1>4, <2>1, <2>2
  <1>8. ASSUME NEW d, NEW i \in 1..m, ready[i] = d PROVE \E k \in 1..(m + n) : ready'[k] = d
    <2>1. i \in 1..(m + n)
      OBVIOUS
    <2> QED  BY <1>4, <1>8, <2>1
  <1>9. ASSUME NEW k \in 1..(m + n), ready'[k] \notin S PROVE \E i \in 1..m : ready[i] = ready'[k]
    <2>1. k \in 1..m
      BY <1>1, <1>3, <1>4, <1>9
    <2> QED  BY <1>4, <2>1
  <1> QED  BY <1>2, <1>4, <1>6, <1>7, <1>8, <1>9 DEF Distinct, InQueue

LEMMA SucceedsRests ==
    ASSUME IInv, RestInv, NEW t \in Tasks, Succeeds(t)
    PROVE  RestInv'
  <1>1. /\ Working(t) /\ pumping' = TRUE /\ slots' = slots \ {t}
        /\ UNCHANGED <<blockers, aborted>>
        /\ outcome' = Mark({t}, outcome, "completed")
    BY DEF Succeeds, Leave, Released, graphVars
  <1>2. outcome[t] = "pending" /\ t \in slots
    BY <1>1 DEF Working, IInv, InWork
  <1>3. CASE aborted
    BY <1>1, <1>3 DEF RestInv, Exact, QueueLive, Waiting, Rested
  <1>4. CASE ~aborted
    <2>1. \A d \in Tasks : outcome'[d] = IF d = t THEN "completed" ELSE outcome[d]
      BY <1>1, <1>2 DEF Mark
    <2>2. \A d \in Tasks : Unfinished(d)' = Unfinished(d) \ {t}
      BY <1>1, <1>2, SuccessUnblocks DEF IInv
    <2>3. \A d \in Tasks : waits'[d] = IF outcome[d] = "pending" /\ t \in blockers[d]
                                        THEN waits[d] - 1 ELSE waits[d]
      BY <1>4 DEF Succeeds
    <2>4. \A d \in Tasks : t \in Unfinished(d) <=> t \in blockers[d]
      BY <1>2 DEF Unfinished
    <2>5. \A d \in Tasks : /\ IsFiniteSet(Unfinished(d)) /\ Cardinality(Unfinished(d)) \in Nat
                           /\ outcome[d] = "pending" => waits[d] = Cardinality(Unfinished(d))
      <3>1. \A d \in Tasks : Unfinished(d) \in SUBSET Tasks
        BY DEF IInv, Types, Unfinished
      <3> QED  BY <1>4, <3>1, TasksFinite DEF RestInv, Exact
    <2>6. Exact'
      <3> SUFFICES ASSUME NEW d \in Tasks, outcome'[d] = "pending"
                   PROVE  waits'[d] = Cardinality(Unfinished(d) \ {t})
        BY <2>2 DEF Exact
      <3>1. outcome[d] = "pending" /\ waits[d] = Cardinality(Unfinished(d))
        BY <2>1, <2>5
      <3>2. CASE t \in blockers[d]
        <4>1. Cardinality(Unfinished(d) \ {t}) = Cardinality(Unfinished(d)) - 1
          BY <2>4, <2>5, <3>2, FS_RemoveElement
        <4> QED  BY <2>3, <3>1, <3>2, <4>1
      <3>3. CASE t \notin blockers[d]
        <4>1. Unfinished(d) \ {t} = Unfinished(d)
          BY <2>4, <3>3
        <4> QED  BY <2>3, <3>1, <3>3, <4>1
      <3> QED  BY <3>2, <3>3
    <2>7. PICK q \in Listings(Unblocked(t)) : ready' = ready \o q
      BY <1>4 DEF Succeeds
    <2>8. Distinct(ready) /\ ready \in Seq(Tasks) /\ \A d \in Tasks : InQueue(d) => Startable(d)
      BY <1>4 DEF RestInv, QueueLive, IInv, Types
    <2>9. /\ Unblocked(t) \in SUBSET Tasks
          /\ \A d \in Unblocked(t) : /\ outcome[d] = "pending" /\ d # t /\ d \notin slots
                                     /\ ~InQueue(d)
      BY <1>2, UnblockedIsNew DEF Unblocked
    <2>10. Distinct(ready') /\ \A d \in Tasks : InQueue(d)' <=> InQueue(d) \/ d \in Unblocked(t)
      BY <2>7, <2>8, <2>9, QueueGrows
    <2>11. QueueLive'
      <3>1. \A d \in Tasks : InQueue(d)' => Startable(d) /\ d # t
        BY <1>2, <2>8, <2>9, <2>10 DEF Startable
      <3> QED  BY <1>1, <2>1, <2>10, <3>1 DEF QueueLive, Startable
    <2>12. Waiting'
      <3> SUFFICES ASSUME NEW d \in Tasks, d \notin slots', outcome'[d] = "pending", ~InQueue(d)'
                   PROVE  Unfinished(d) \ {t} # {}
        BY <2>2 DEF Waiting
      <3>1. d # t /\ d \notin slots /\ outcome[d] = "pending" /\ ~InQueue(d) /\ d \notin Unblocked(t)
        BY <1>1, <2>1, <2>10
      <3>2. Unfinished(d) # {}
        BY <1>4, <3>1 DEF RestInv, Waiting
      <3>3. CASE t \in blockers[d]
        <4>1. Cardinality(Unfinished(d)) # 1
          BY <2>5, <3>1, <3>3 DEF Unblocked
        <4>2. Unfinished(d) # {t}
          BY <4>1, FS_Singleton
        <4> QED  BY <3>2, <4>2
      <3>4. CASE t \notin blockers[d]
        BY <2>4, <3>2, <3>4
      <3> QED  BY <3>3, <3>4
    <2> QED  BY <1>1, <2>6, <2>11, <2>12 DEF RestInv, Rested
  <1> QED  BY <1>3, <1>4

LEMMA OthersRest ==
    ASSUME RestInv, NEW t \in Tasks,
           WakeUp(t) \/ Returns(t) \/ Cancel(t) \/ Watchdog(t) \/ AbortCall \/ UNCHANGED vars
    PROVE  RestInv'
  <1>1. /\ UNCHANGED <<blockers, outcome, slots, waits, ready, pumping>>
        /\ aborted' = aborted \/ (~pumping /\ aborted' = TRUE)
    BY DEF WakeUp, Returns, Cancel, Watchdog, AbortCall, vars, graphVars
  <1>2. \A d \in Tasks : /\ Unfinished(d)' = Unfinished(d)
                         /\ InQueue(d)' <=> InQueue(d)
                         /\ Startable(d)' <=> Startable(d)
    BY <1>1 DEF Unfinished, InQueue, Startable
  <1> QED  BY <1>1, <1>2 DEF RestInv, Exact, QueueLive, Waiting, Rested

LEMMA RestInvariance == Spec => [](IInv /\ RestInv)
  <1>1. Init => RestInv
    BY InitRest
  <1>2. IInv /\ RestInv /\ [Next]_vars => RestInv'
    <2> SUFFICES ASSUME IInv, RestInv, [Next]_vars PROVE RestInv'
      OBVIOUS
    <2>1. CASE \E t \in Tasks : TaskStep(t)
      BY <2>1, FailsRests, SucceedsRests, OthersRest DEF TaskStep, WorkEnds
    <2>2. CASE AbortCall \/ UNCHANGED vars
      <3>1. 1 \in Tasks
        BY BatchAssumption DEF Tasks
      <3> QED  BY <2>2, <3>1, OthersRest
    <2> QED  BY <2>1, <2>2, PumpRests DEF Next
  <1> QED  BY <1>1, <1>2, Invariance, PTL DEF Spec

\* What scheduleReadyTasks takes from the queue can always be started: the guard that
\* passes over a task with an outcome or a slot (index.ts:1154) never applies.
HeadIsStartable == MayPump => Startable(Head(ready))

\* The queue holds no task twice and none that was started, failed or aborted
\* meanwhile (scheduleReadyTasks, failDependents).
THEOREM BatchPassesOverNobody == Spec => []HeadIsStartable
  <1>1. IInv /\ RestInv => HeadIsStartable
    <2> SUFFICES ASSUME IInv, RestInv, MayPump PROVE Startable(Head(ready))
      BY DEF HeadIsStartable
    <2>1. ~aborted /\ ready # <<>> /\ ready \in Seq(Tasks)
      BY DEF MayPump, IInv, Types
    <2>2. Head(ready) \in Tasks /\ InQueue(Head(ready))
      BY <2>1 DEF InQueue
    <2> QED  BY <2>1, <2>2 DEF RestInv, QueueLive
  <1> QED  BY <1>1, RestInvariance, PTL

\* Nothing of the batch is under way any more.
AtRest == ~pumping /\ \A t \in Tasks : body[t] \notin {"stagger", "work", "report"}

RestIsEnd == AtRest => Settled \/ Stranded

\* A batch that has come to rest is settled, or left hanging in one of the two ways that
\* Stranded names, whatever blockers it has and whatever failed, was refused, cancelled
\* or interrupted: there is no third way to hang (scheduleReadyTasks).  With the setting
\* at 0, which starts nothing, there is.
THEOREM BatchHasNoThirdEnd == ASSUME MaxConcurrency # 0 PROVE Spec => []RestIsEnd
  <1>1. IInv /\ RestInv => RestIsEnd
    <2> SUFFICES ASSUME IInv, RestInv, AtRest, ~Settled, ~Stranded PROVE FALSE
      BY DEF RestIsEnd
    <2>1. slots = {}
      BY DEF IInv, Types, SlotsHeld, AtRest, Stranded
    <2>2. ~pumping /\ ~ (\A t \in Tasks \ slots : outcome[t] # "pending")
      BY <2>1 DEF AtRest, Settled
    <2>3. ~ (Cardinality(slots) >= MaxConcurrency)
      BY <2>1, FS_EmptySet, LimitsAssumption
    <2>4. ready = <<>>
      BY <2>2, <2>3 DEF RestInv, Rested
    <2>5. \A d \in Tasks : ~InQueue(d)
      BY <2>4 DEF InQueue
    <2> DEFINE open == {d \in Tasks : outcome[d] = "pending"}
    <2>6. open \in (SUBSET Tasks) \ {{}}
      BY DEF Settled
    <2>7. \A d \in open : blockers[d] \cap open # {}
      <3> TAKE d \in open
      <3>1. PICK b \in blockers[d] : outcome[b] # "completed"
        BY <2>1, <2>2, <2>5 DEF RestInv, Waiting, Unfinished
      <3>2. b \in Tasks /\ outcome[b] # "failed" /\ outcome[b] # "aborted"
        BY DEF IInv, Types, FailureReaches, Stranded
      <3> QED  BY <3>1, <3>2 DEF IInv, Types, Outcomes
    <2> QED  BY <2>6, <2>7 DEF RestInv, Acyclic
  <1> QED  BY <1>1, RestInvariance, PTL
=============================================================================
