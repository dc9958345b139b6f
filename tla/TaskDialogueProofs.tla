------------------------- MODULE TaskDialogueProofs -------------------------
(***************************************************************************)
(* A batch of foreground tasks keeps its promises for any number of tasks, *)
(* any graph of blockers, any limit and any number of questions.  The two  *)
(* accounts agree because, as long as nobody interrupts, they are open for *)
(* the same tasks (OneAccount), so that both cascades fail the same ones;  *)
(* a task at work is not among these, since its blockers have completed.   *)
(***************************************************************************)
EXTENDS TaskDialogue, FiniteSetTheorems, TLAPS

Statuses == {"pending", "completed", "failed", "aborted"}
Outcomes == {"none", "success", "failure", "failed", "aborted", "cancelled"}
Bodies == {"none", "stagger", "work", "over"}

Types ==
    /\ filesDeps \in [Tasks -> SUBSET Files]
    /\ blockers \in [Tasks -> SUBSET Tasks]
    /\ status \in [Tasks -> Statuses]
    /\ results \in [Tasks -> Outcomes]
    /\ body \in [Tasks -> Bodies]
    /\ loop \in {"waiting", "woken", "over"}
    /\ aborted \in BOOLEAN

WithinLimit == Cardinality(Running) <= Limit

\* What the two accounts say of a task goes together.
OneAccount ==
    \A t \in Tasks :
        /\ status[t] # "aborted"
        /\ status[t] = "failed" <=> results[t] = "failed"
        /\ status[t] = "completed" <=> results[t] \in {"success", "failure"}
        /\ status[t] = "pending" <=> results[t] = "none"

\* A task at work has no outcome yet, one whose work is over has.
BodiesTell ==
    \A t \in Tasks :
        /\ t \in Running => status[t] = "pending"
        /\ body[t] = "over" => status[t] # "pending"

\* Who waits for a task that failed has failed as well.
FailureSpreads ==
    \A t \in Tasks : \A b \in blockers[t] : status[b] = "failed" => status[t] # "pending"

\* The loop ends only when nothing is under way.
EndsIdle == loop = "over" => Running = {}

\* What holds until the call is interrupted.
Undisturbed == OneAccount /\ BodiesTell /\ FailureSpreads /\ EndsIdle

\* Whoever the call returns without is accounted for.
AllAccounted == loop = "over" => \A t \in Tasks : results[t] # "none"

PumpInv ==
    /\ Types /\ Acyclic(blockers) /\ WithinLimit /\ WaitsForBlockers /\ AllAccounted
    /\ ~aborted => Undisturbed

-----------------------------------------------------------------------------
\* Sets of tasks are finite.
LEMMA TasksFinite ==
    ASSUME NEW S \in SUBSET Tasks
    PROVE  IsFiniteSet(S) /\ Cardinality(S) \in Nat
  <1>1. IsFiniteSet(Tasks)
    BY BatchAssumption, FS_Interval DEF Tasks
  <1>2. IsFiniteSet(S)
    BY <1>1, FS_Subset
  <1> QED  BY <1>2, FS_CardinalityType

LEMMA LimitType == Limit \in Nat /\ Limit >= 1 /\ (MaxConcurrency \in 1..N => Limit = MaxConcurrency)
  BY BatchAssumption, PumpAssumption DEF Limit

\* How many of a set come before a task.
Rank(t, S) == Cardinality({u \in S : u < t})

\* Two tasks of a set have different ranks, all smaller than its size.
LEMMA RanksDiffer ==
    ASSUME NEW S \in SUBSET Tasks, NEW t \in S
    PROVE  /\ Rank(t, S) \in Nat /\ Rank(t, S) < Cardinality(S)
           /\ \A u \in S : u < t => Rank(u, S) < Rank(t, S)
  <1> DEFINE Below(u) == {w \in S : w < u}
  <1>1. \A u \in S : /\ IsFiniteSet(Below(u)) /\ Rank(u, S) = Cardinality(Below(u))
                     /\ Rank(u, S) \in Nat
    <2>1. \A u \in S : Below(u) \in SUBSET Tasks
      OBVIOUS
    <2> QED  BY <2>1, TasksFinite DEF Rank
  <1>2. IsFiniteSet(S) /\ Cardinality(S) \in Nat
    BY TasksFinite
  <1>3. Rank(t, S) < Cardinality(S)
    <2>1. Below(t) \in SUBSET S /\ t \notin Below(t)
      BY DEF Tasks
    <2>2. Cardinality(Below(t)) <= Cardinality(S) /\ Cardinality(Below(t)) # Cardinality(S)
      BY <1>2, <2>1, FS_Subset
    <2> QED  BY <1>1, <1>2, <2>2
  <1>4. ASSUME NEW u \in S, u < t
        PROVE  Rank(u, S) < Rank(t, S)
    <2>1. Below(u) \in SUBSET Below(t) /\ u \in Below(t) /\ u \notin Below(u)
      <3>1. S \in SUBSET Int
        BY DEF Tasks
      <3>2. \A w \in Int : w < u => w < t
        BY <1>4, <3>1
      <3>3. u < t /\ ~ (u < u) /\ u \in S
        BY <1>4, <3>1
      <3>4. \A w \in S : w < u => w < t
        BY <3>1, <3>2
      <3> QED  BY <3>3, <3>4
    <2>2. Cardinality(Below(u)) <= Cardinality(Below(t)) /\ Cardinality(Below(u)) # Cardinality(Below(t))
      BY <1>1, <2>1, FS_Subset
    <2> QED  BY <1>1, <2>2
  <1> QED  BY <1>1, <1>3, <1>4

\* The rank is an injection of any part of the set into the numbers.
LEMMA RankInjects ==
    ASSUME NEW S \in SUBSET Tasks, NEW F \in SUBSET S, NEW a \in Nat, NEW b \in Int,
           \A t \in F : a <= Rank(t, S) /\ Rank(t, S) <= b
    PROVE  Cardinality(F) <= Cardinality(a..b)
  <1> DEFINE f == [t \in F |-> Rank(t, S)]
  <1>1. \A t \in F : Rank(t, S) \in a..b
    BY RanksDiffer
  <1>2. \A t, u \in F : t # u => f[t] # f[u]
    <2>1. \A t, u \in F : t # u => t < u \/ u < t
      BY DEF Tasks
    <2>2. \A v, u \in F : v < u => f[v] # f[u]
      <3> SUFFICES ASSUME NEW v \in F, NEW u \in F, v < u
                   PROVE  Rank(v, S) # Rank(u, S)
        OBVIOUS
      <3> QED  BY RanksDiffer
    <2> QED  BY <2>1, <2>2
  <1>3. f \in [F -> a..b]
    BY <1>1
  <1>4. f \in Injection(F, a..b)
    BY <1>2, <1>3 DEF Injection, IsInjective
  <1>5. IsFiniteSet(a..b)
    BY FS_Interval
  <1> QED  BY <1>4, <1>5, FS_Injection

\* FirstOf takes no more than it is asked for.
LEMMA FirstOfBound ==
    ASSUME NEW S \in SUBSET Tasks, NEW k \in Nat
    PROVE  FirstOf(k, S) \in SUBSET S /\ Cardinality(FirstOf(k, S)) <= k
  <1> DEFINE F == FirstOf(k, S)
  <1>1. F \in SUBSET S /\ \A t \in F : Rank(t, S) < k
    BY DEF FirstOf, Rank
  <1>2. \A t \in F : 0 <= Rank(t, S) /\ Rank(t, S) <= k - 1
    BY <1>1, RanksDiffer
  <1> HIDE DEF F
  <1>3. PICK b \in Int : b = k - 1
    OBVIOUS
  <1>4. Cardinality(F) <= Cardinality(0..b)
    BY <1>1, <1>2, <1>3, RankInjects
  <1>5. Cardinality(0..b) = k
    BY <1>3, FS_Interval
  <1> QED  BY <1>1, <1>4, <1>5 DEF F

\* ... and something, if there is anything to take.
LEMMA FirstOfSome ==
    ASSUME NEW S \in SUBSET Tasks, S # {}, NEW k \in Nat, k >= 1
    PROVE  FirstOf(k, S) # {}
  <1> SUFFICES ASSUME FirstOf(k, S) = {} PROVE FALSE
    OBVIOUS
  <1>1. IsFiniteSet(S) /\ Cardinality(S) \in Nat /\ Cardinality(S) # 0
    BY TasksFinite, FS_EmptySet
  <1>2. \A t \in S : Rank(t, S) \in Nat /\ ~ (Rank(t, S) < k) /\ Rank(t, S) < Cardinality(S)
    BY RanksDiffer DEF FirstOf, Rank
  <1>3. \A t \in S : 1 <= Rank(t, S) /\ Rank(t, S) <= Cardinality(S) - 1
    BY <1>1, <1>2
  <1>4. PICK b \in Int : b = Cardinality(S) - 1
    BY <1>1
  <1>5. Cardinality(S) <= Cardinality(1..b)
    BY <1>3, <1>4, RankInjects
  <1>6. b >= 0 /\ Cardinality(S) = b + 1
    BY <1>1, <1>4
  <1>7. Cardinality(1..b) = b
    BY <1>4, <1>6, FS_Interval
  <1> QED  BY <1>4, <1>5, <1>6, <1>7

-----------------------------------------------------------------------------
Busy(b) == {t \in Tasks : b[t] \in {"stagger", "work"}}

(***************************************************************************)
(* The pump starts tasks that are ready and none that has been started,    *)
(* keeps to the limit, and is left with nothing under way only if there is *)
(* nothing to start.                                                       *)
(***************************************************************************)
LEMMA LaunchStarts ==
    ASSUME NEW st \in [Tasks -> Statuses], NEW b \in [Tasks -> Bodies],
           Cardinality(Busy(b)) <= Limit, NEW new, new = Launch(st, b)
    PROVE  /\ new \in [Tasks -> Bodies]
           /\ Cardinality(Busy(new)) <= Limit
           /\ \A t \in Tasks : \/ new[t] = b[t]
                               \/ /\ t \in ReadyIds(st) /\ b[t] = "none"
                                  /\ new[t] \in {"stagger", "work"}
           /\ Busy(new) = {} => \A t \in ReadyIds(st) : b[t] # "none"
  <1> DEFINE idle == {t \in ReadyIds(st) : b[t] = "none"}
  <1>1. Busy(b) \in SUBSET Tasks /\ idle \in SUBSET Tasks
    BY DEF Busy, ReadyIds
  <1>2. /\ Cardinality(Busy(b)) \in Nat /\ IsFiniteSet(Busy(b))
        /\ Limit - Cardinality(Busy(b)) \in Nat /\ Limit \in Nat /\ Limit >= 1
    BY <1>1, TasksFinite, LimitType
  <1>3. PICK k \in Nat : k = Limit - Cardinality(Busy(b))
    BY <1>2
  <1> DEFINE chosen == FirstOf(k, idle)
  <1>4. /\ new \in [Tasks -> Bodies]
        /\ \A t \in Tasks : IF t \in chosen THEN new[t] \in {"stagger", "work"} ELSE new[t] = b[t]
    BY <1>3 DEF Launch, Busy, Bodies
  <1>5. chosen \in SUBSET idle /\ Cardinality(chosen) <= k
    BY <1>1, FirstOfBound
  <1>6. idle # {} /\ k >= 1 => chosen # {}
    BY <1>1, FirstOfSome
  <1> HIDE DEF chosen
  <1>7. IsFiniteSet(chosen) /\ Cardinality(chosen) \in Nat
    <2>1. chosen \in SUBSET Tasks
      BY <1>1, <1>5
    <2> QED  BY <2>1, TasksFinite
  <1>8. Busy(new) = Busy(b) \cup chosen
    BY <1>1, <1>4, <1>5 DEF Busy
  <1>9. Cardinality(Busy(new)) <= Limit
    <2>1. Busy(b) \cap chosen = {}
      BY <1>5 DEF Busy
    <2>2. Cardinality(Busy(b) \cup chosen) =
              Cardinality(Busy(b)) + Cardinality(chosen) - Cardinality(Busy(b) \cap chosen)
      BY <1>2, <1>7, FS_Union
    <2>3. Cardinality(Busy(b) \cap chosen) = 0
      BY <2>1, FS_EmptySet
    <2>4. Cardinality(Busy(b) \cup chosen) <= Limit
      <3> QED  BY <1>2, <1>3, <1>5, <1>7, <2>2, <2>3
    <2> QED  BY <1>8, <2>4
  <1>10. ASSUME Busy(new) = {} PROVE idle = {}
    <2>1. Busy(b) = {} /\ chosen = {}
      BY <1>8, <1>10
    <2>2. k >= 1
      BY <1>2, <1>3, <2>1, FS_EmptySet
    <2> QED  BY <1>6, <2>1, <2>2
  <1>11. \A t \in Tasks : \/ new[t] = b[t]
                          \/ /\ t \in ReadyIds(st) /\ b[t] = "none"
                             /\ new[t] \in {"stagger", "work"}
    BY <1>4, <1>5
  <1>12. Busy(new) = {} => \A t \in ReadyIds(st) : b[t] # "none"
    BY <1>10
  <1> QED  BY <1>4, <1>9, <1>11, <1>12

-----------------------------------------------------------------------------
(***************************************************************************)
(* Both cascades of the failure of t, over the tasks that are open.        *)
(***************************************************************************)
Doomed(open, t) ==
    LET Closed(S) == \A d \in open : blockers[d] \cap (S \cup {t}) # {} => d \in S
    IN  {d \in open : \A S \in SUBSET open : Closed(S) => d \in S}

\* It reaches whoever waits for t or for one that it has reached.
LEMMA DoomSpreads ==
    ASSUME NEW open \in SUBSET Tasks, NEW t \in Tasks, NEW d \in open,
           NEW b \in blockers[d], b = t \/ b \in Doomed(open, t)
    PROVE  d \in Doomed(open, t)
  <1> DEFINE Closed(S) == \A e \in open : blockers[e] \cap (S \cup {t}) # {} => e \in S
  <1>1. ASSUME NEW S \in SUBSET open, Closed(S)
        PROVE  d \in S
    <2>1. b \in S \cup {t}
      BY <1>1 DEF Doomed
    <2> QED  BY <1>1, <2>1
  <1> QED  BY <1>1 DEF Doomed

\* It leaves a task alone that waits for none of those that are open.
LEMMA FreeIsSpared ==
    ASSUME NEW open \in SUBSET Tasks, NEW t \in open, NEW d \in Tasks,
           blockers[d] \cap open = {}
    PROVE  d \notin Doomed(open, t)
  <1> DEFINE S == {e \in open : blockers[e] \cap open # {}}
             Closed(R) == \A e \in open : blockers[e] \cap (R \cup {t}) # {} => e \in R
  <1>1. S \in SUBSET open /\ d \notin S
    OBVIOUS
  <1>2. Closed(S)
    OBVIOUS
  <1> QED  BY <1>1, <1>2 DEF Doomed

LEMMA NodesFailAdds ==
    ASSUME status \in [Tasks -> Statuses], NEW t \in Tasks,
           NEW open, open = {d \in Tasks : status[d] = "pending"}
    PROVE  /\ NodesFail(t) \in [Tasks -> Statuses]
           /\ \A d \in Tasks : NodesFail(t)[d] =
                 IF d = t \/ d \in Doomed(open, t) THEN "failed" ELSE status[d]
  BY DEF NodesFail, Doomed, Statuses

LEMMA ResultsFailAdds ==
    ASSUME results \in [Tasks -> Outcomes], NEW t \in Tasks,
           NEW open, open = {d \in Tasks : results[d] = "none"}
    PROVE  /\ ResultsFail(t) \in [Tasks -> Outcomes]
           /\ \A d \in Tasks : ResultsFail(t)[d] =
                 IF d \in open /\ (d = t \/ d \in Doomed(open, t)) THEN "failed" ELSE results[d]
  BY DEF ResultsFail, Doomed, Outcomes

-----------------------------------------------------------------------------
LEMMA PumpInit == Init => PumpInv
  <1> SUFFICES ASSUME Init PROVE PumpInv
    OBVIOUS
  <1>1. /\ filesDeps \in [Tasks -> SUBSET Files] /\ blockers \in [Tasks -> SUBSET Tasks]
        /\ Acyclic(blockers)
    BY DEF Init, WithImplicit
  <1>2. /\ Undecided \in [Tasks -> Statuses] /\ Unstarted \in [Tasks -> Bodies]
        /\ Unstarted \in [Tasks -> Outcomes]
    BY DEF Undecided, Unstarted, Statuses, Bodies, Outcomes
  <1>3. Cardinality(Busy(Unstarted)) <= Limit
    <2>1. Busy(Unstarted) = {}
      BY DEF Busy, Unstarted
    <2> QED  BY <2>1, LimitType, FS_EmptySet
  <1>4. CASE aborted = FALSE
    <2>1. /\ status = Undecided /\ results = Unstarted /\ loop = "waiting"
          /\ body = Launch(Undecided, Unstarted)
      BY <1>4 DEF Init
    <2>2. /\ body \in [Tasks -> Bodies]
          /\ Cardinality(Busy(body)) <= Limit
          /\ \A t \in Tasks : \/ body[t] = Unstarted[t]
                              \/ /\ t \in ReadyIds(Undecided)
                                 /\ body[t] \in {"stagger", "work"}
      BY <1>2, <1>3, <2>1, LaunchStarts
    <2>3. Types /\ WithinLimit
      BY <1>1, <1>2, <1>4, <2>1, <2>2 DEF Types, WithinLimit, Running, Busy
    <2>4. \A t \in Tasks : body[t] # "none" => blockers[t] = {}
      BY <1>1, <2>2 DEF ReadyIds, Undecided, Unstarted
    <2>5. WaitsForBlockers /\ AllAccounted
      BY <2>1, <2>4 DEF WaitsForBlockers, AllAccounted
    <2>6. Undisturbed
      <3>1. \A t \in Tasks : status[t] = "pending" /\ results[t] = "none" /\ body[t] # "over"
        BY <2>1, <2>2 DEF Undecided, Unstarted
      <3> QED  BY <1>1, <2>1, <3>1
               DEF Undisturbed, OneAccount, BodiesTell, FailureSpreads, EndsIdle
    <2> QED  BY <1>1, <2>3, <2>5, <2>6 DEF PumpInv
  <1>5. CASE aborted = TRUE
    <2>1. /\ status = [t \in Tasks |-> "aborted"] /\ results = [t \in Tasks |-> "cancelled"]
          /\ body = Unstarted /\ loop = "over"
      BY <1>5 DEF Init
    <2>2. Types
      BY <1>1, <1>2, <1>5, <2>1 DEF Types, Statuses, Outcomes
    <2>3. WithinLimit
      BY <1>3, <2>1 DEF WithinLimit, Running, Busy
    <2>4. WaitsForBlockers /\ AllAccounted
      BY <2>1 DEF WaitsForBlockers, AllAccounted, Unstarted
    <2> QED  BY <1>1, <1>5, <2>2, <2>3, <2>4 DEF PumpInv
  <1> QED  BY <1>4, <1>5 DEF Init

(***************************************************************************)
(* When nothing is under way and nothing can be started, every task has    *)
(* its result: among those without one there would be one that waits for   *)
(* no other of them, since the graph has no cycle; its blockers have not   *)
(* failed, or it would have, so it is ready.                               *)
(***************************************************************************)
LEMMA IdleMeansDone ==
    ASSUME PumpInv, ~aborted,
           \A t \in ReadyIds(status) : body[t] # "none", Running = {}
    PROVE  \A t \in Tasks : status[t] # "pending"
  <1> SUFFICES ASSUME {t \in Tasks : status[t] = "pending"} # {} PROVE FALSE
    OBVIOUS
  <1> DEFINE S == {t \in Tasks : status[t] = "pending"}
  <1>1. PICK t \in S : blockers[t] \cap S = {}
    BY DEF PumpInv, Acyclic
  <1>2. \A b \in blockers[t] : status[b] = "completed"
    BY <1>1 DEF PumpInv, Types, Statuses, Undisturbed, OneAccount, FailureSpreads
  <1>3. body[t] # "none"
    BY <1>1, <1>2 DEF ReadyIds
  <1> QED  BY <1>1, <1>3 DEF PumpInv, Types, Bodies, Undisturbed, BodiesTell, Running

LEMMA TurnsInv ==
    ASSUME PumpInv, LoopTurns
    PROVE  PumpInv'
  <1>1. UNCHANGED <<filesDeps, blockers, aborted>> /\ loop = "woken"
    BY DEF LoopTurns
  <1>2. CASE aborted
    <2>1. status' = CascadeAbort /\ results' = FillIn /\ loop' = "over" /\ UNCHANGED body
      BY <1>2 DEF LoopTurns
    <2>2. Types'
      BY <1>1, <2>1 DEF PumpInv, Types, CascadeAbort, FillIn, Statuses, Outcomes
    <2>3. WithinLimit' /\ AllAccounted' /\ WaitsForBlockers'
      BY <1>1, <2>1 DEF PumpInv, Types, WithinLimit, Running, AllAccounted, WaitsForBlockers, FillIn
    <2>4. Acyclic(blockers)'
      BY <1>1 DEF PumpInv, Acyclic
    <2> QED  BY <1>1, <1>2, <2>2, <2>3, <2>4 DEF PumpInv
  <1>3. CASE ~aborted
    <2>1. body' = Launch(status, body) /\ UNCHANGED status
      BY <1>3 DEF LoopTurns
    <2>2. /\ status \in [Tasks -> Statuses] /\ body \in [Tasks -> Bodies]
          /\ Cardinality(Busy(body)) <= Limit
      BY DEF PumpInv, Types, WithinLimit, Running, Busy
    <2>3. PICK new : new = Launch(status, body)
      OBVIOUS
    <2>4. /\ new \in [Tasks -> Bodies]
          /\ Cardinality(Busy(new)) <= Limit
          /\ \A t \in Tasks : \/ new[t] = body[t]
                              \/ /\ t \in ReadyIds(status) /\ body[t] = "none"
                                 /\ new[t] \in {"stagger", "work"}
          /\ Busy(new) = {} => \A t \in ReadyIds(status) : body[t] # "none"
      BY <2>2, <2>3, LaunchStarts
    <2>5. body' = new /\ Running' = Busy(new)
      BY <2>1, <2>3 DEF Running, Busy
    <2>6. UNCHANGED results /\ (loop' = "over" => Running' = {} /\ \A t \in Tasks : results[t] # "none")
      <3>1. CASE Running' # {}
        BY <1>3, <3>1 DEF LoopTurns
      <3>2. CASE Running' = {}
        <4>1. results' = FillIn
          BY <1>3, <3>2 DEF LoopTurns
        <4>2. \A t \in ReadyIds(status) : body[t] # "none"
          BY <2>4, <2>5, <3>2
        <4>3. Running = {}
          <5> SUFFICES ASSUME NEW t \in Running PROVE FALSE
            OBVIOUS
          <5>1. t \in Tasks /\ body[t] \in {"stagger", "work"}
            BY DEF Running
          <5>2. t \in Busy(new)
            BY <2>4, <5>1 DEF Busy
          <5> QED  BY <2>5, <3>2, <5>2
        <4>4. \A t \in Tasks : results[t] # "none"
          BY <1>3, <4>2, <4>3, IdleMeansDone DEF PumpInv, Undisturbed, OneAccount
        <4> QED  BY <3>2, <4>1, <4>4 DEF FillIn, PumpInv, Types
      <3> QED  BY <3>1, <3>2
    <2>7. loop' \in {"waiting", "woken", "over"}
      BY <1>3 DEF LoopTurns
    <2>8. Types' /\ WithinLimit' /\ Acyclic(blockers)' /\ AllAccounted'
      <3>1. Types'
        BY <1>1, <2>1, <2>4, <2>5, <2>6, <2>7 DEF PumpInv, Types
      <3>2. WithinLimit'
        BY <2>4, <2>5 DEF WithinLimit, Limit
      <3> QED  BY <1>1, <2>6, <3>1, <3>2 DEF PumpInv, Acyclic, AllAccounted
    <2>9. WaitsForBlockers'
      <3> SUFFICES ASSUME NEW t \in Tasks, body'[t] # "none", NEW b \in blockers[t]
                   PROVE  results[b] \in {"success", "failure"}
        BY <1>1, <2>6 DEF WaitsForBlockers
      <3>1. CASE body[t] # "none"
        BY <3>1 DEF PumpInv, WaitsForBlockers
      <3>2. CASE t \in ReadyIds(status)
        BY <1>3, <3>2 DEF ReadyIds, PumpInv, Types, Undisturbed, OneAccount
      <3> QED  BY <2>4, <2>5, <3>1, <3>2
    <2>10. Undisturbed'
      <3>1. OneAccount' /\ FailureSpreads' /\ EndsIdle'
        BY <1>1, <1>3, <2>1, <2>6 DEF PumpInv, Undisturbed, OneAccount, FailureSpreads, EndsIdle
      <3>2. BodiesTell'
        <4> SUFFICES ASSUME NEW t \in Tasks
                     PROVE  /\ new[t] \in {"stagger", "work"} => status[t] = "pending"
                            /\ new[t] = "over" => status[t] # "pending"
          BY <2>1, <2>5 DEF BodiesTell, Running
        <4>1. CASE new[t] = body[t]
          BY <1>3, <4>1 DEF PumpInv, Undisturbed, BodiesTell, Running
        <4>2. CASE t \in ReadyIds(status) /\ new[t] \in {"stagger", "work"}
          BY <4>2 DEF ReadyIds
        <4> QED  BY <2>4, <4>1, <4>2
      <3> QED  BY <3>1, <3>2 DEF Undisturbed
    <2> QED  BY <2>8, <2>9, <2>10 DEF PumpInv
  <1> QED  BY <1>2, <1>3

-----------------------------------------------------------------------------
(***************************************************************************)
(* The work of a task, or its sleep, comes to an end, and the accounts are *)
(* settled in one of the ways below.                                       *)
(***************************************************************************)
Settles(t) ==
    /\ status' \in [Tasks -> Statuses] /\ results' \in [Tasks -> Outcomes]
    /\ \A d \in Tasks : results[d] # "none" => results'[d] = results[d]
    /\ ~aborted =>
          /\ OneAccount' /\ FailureSpreads'
          /\ status'[t] # "pending"
          /\ \A d \in Tasks : status[d] # "pending" => status'[d] # "pending"
          /\ \A d \in Running \ {t} : status'[d] = status[d]

LEMMA EndInv ==
    ASSUME PumpInv, NEW t \in Running, Settles(t),
           body' = [body EXCEPT ![t] = "over"], Wake,
           UNCHANGED <<filesDeps, blockers, aborted>>
    PROVE  PumpInv'
  <1>1. t \in Tasks
    BY DEF Running
  <1>2. Types' /\ Acyclic(blockers)' /\ (loop' = "over" <=> loop = "over")
    BY DEF Settles, PumpInv, Types, Acyclic, Bodies, Wake
  <1>3. Running' = Running \ {t}
    BY <1>1 DEF Running, PumpInv, Types
  <1>4. WithinLimit'
    <2>1. Running \in SUBSET Tasks /\ Running' \in SUBSET Running
      BY <1>3 DEF Running
    <2>2. Running' \in SUBSET Tasks /\ IsFiniteSet(Running)
      BY <2>1, TasksFinite
    <2>3. /\ Cardinality(Running') <= Cardinality(Running)
          /\ Cardinality(Running') \in Nat /\ Cardinality(Running) \in Nat
      BY <2>1, <2>2, TasksFinite, FS_Subset
    <2>4. Cardinality(Running) <= Limit /\ Limit' = Limit /\ Limit \in Nat
      BY LimitType DEF PumpInv, WithinLimit, Limit
    <2> QED  BY <2>3, <2>4 DEF WithinLimit
  <1>5. WaitsForBlockers'
    <2> SUFFICES ASSUME NEW d \in Tasks, body'[d] # "none", NEW b \in blockers[d]
                 PROVE  results'[b] \in {"success", "failure"}
      BY DEF WaitsForBlockers
    <2>1. body[d] # "none"
      BY DEF Running, PumpInv, Types
    <2>2. b \in Tasks /\ results[b] \in {"success", "failure"}
      BY <2>1 DEF PumpInv, Types, WaitsForBlockers
    <2> QED  BY <2>2 DEF Settles
  <1>6. AllAccounted'
    BY <1>2 DEF Settles, PumpInv, AllAccounted
  <1>7. ASSUME ~aborted PROVE Undisturbed'
    <2>1. OneAccount' /\ FailureSpreads'
      BY <1>7 DEF Settles
    <2>2. EndsIdle'
      BY <1>2, <1>7 DEF PumpInv, Undisturbed, EndsIdle
    <2>3. BodiesTell'
      <3> SUFFICES ASSUME NEW d \in Tasks
                   PROVE  /\ d \in Running' => status'[d] = "pending"
                          /\ body'[d] = "over" => status'[d] # "pending"
        BY DEF BodiesTell
      <3>1. CASE d = t
        BY <1>3, <1>7, <3>1 DEF Settles
      <3>2. CASE d # t
        <4>1. body'[d] = body[d]
          BY <3>2 DEF PumpInv, Types
        <4> QED  BY <1>3, <1>7, <3>2, <4>1 DEF Settles, PumpInv, Undisturbed, BodiesTell
      <3> QED  BY <3>1, <3>2
    <2> QED  BY <2>1, <2>2, <2>3 DEF Undisturbed
  <1> QED  BY <1>2, <1>4, <1>5, <1>6, <1>7 DEF PumpInv

\* The first result of a task stays.
LEMMA FinishAdds ==
    ASSUME results \in [Tasks -> Outcomes], NEW t \in Tasks, NEW how \in Outcomes
    PROVE  /\ Finish(t, how) \in [Tasks -> Outcomes]
           /\ \A d \in Tasks : Finish(t, how)[d] =
                 IF d = t /\ results[d] = "none" THEN how ELSE results[d]
  BY DEF Finish

LEMMA ReturnSettles ==
    ASSUME PumpInv, NEW t \in Running, Returns(t), UNCHANGED blockers
    PROVE  Settles(t)
  <1>1. t \in Tasks /\ results \in [Tasks -> Outcomes] /\ status \in [Tasks -> Statuses]
    BY DEF Running, PumpInv, Types
  <1>2. PICK how \in {"success", "failure"} : results' = Finish(t, how)
    BY DEF Returns
  <1>3. /\ results' \in [Tasks -> Outcomes]
        /\ \A d \in Tasks : results'[d] = IF d = t /\ results[d] = "none" THEN how ELSE results[d]
    <2>1. how \in Outcomes
      BY DEF Outcomes
    <2> QED  BY <1>1, <1>2, <2>1, FinishAdds
  <1>4. /\ status' \in [Tasks -> Statuses]
        /\ \A d \in Tasks : status'[d] = IF d = t THEN "completed" ELSE status[d]
    BY <1>1 DEF Returns, Statuses
  <1>5. ASSUME ~aborted
        PROVE  OneAccount' /\ FailureSpreads' /\ \A d \in Running \ {t} : status'[d] = status[d]
    <2>1. OneAccount /\ FailureSpreads /\ status[t] = "pending" /\ results[t] = "none"
      BY <1>1, <1>5 DEF PumpInv, Undisturbed, BodiesTell, OneAccount
    <2>2. OneAccount'
      <3> SUFFICES ASSUME NEW d \in Tasks
                   PROVE  /\ status'[d] # "aborted"
                          /\ status'[d] = "failed" <=> results'[d] = "failed"
                          /\ status'[d] = "completed" <=> results'[d] \in {"success", "failure"}
                          /\ status'[d] = "pending" <=> results'[d] = "none"
        BY DEF OneAccount
      <3>1. CASE d = t
        BY <1>2, <1>3, <1>4, <2>1, <3>1
      <3>2. CASE d # t
        BY <1>3, <1>4, <2>1, <3>2 DEF OneAccount
      <3> QED  BY <3>1, <3>2
    <2>3. FailureSpreads'
      BY <1>4, <2>1 DEF FailureSpreads, PumpInv, Types
    <2> QED  BY <1>4, <2>2, <2>3 DEF Running
  <1> QED  BY <1>1, <1>3, <1>4, <1>5 DEF Settles

\* The failure of t: both accounts are open for the same tasks, so both cascades fail the
\* same ones, and none that is at work.
LEMMA FailureSettles ==
    ASSUME PumpInv, ~aborted, NEW t \in Running, UNCHANGED blockers,
           results' = ResultsFail(t), status' = NodesFail(t)
    PROVE  Settles(t)
  <1> DEFINE open == {d \in Tasks : status[d] = "pending"}
  <1>1. /\ t \in Tasks /\ status[t] = "pending" /\ t \in open
        /\ results \in [Tasks -> Outcomes] /\ status \in [Tasks -> Statuses]
        /\ OneAccount /\ FailureSpreads
    BY DEF Running, PumpInv, Types, Undisturbed, BodiesTell
  <1>2. open = {d \in Tasks : results[d] = "none"} /\ open \in SUBSET Tasks
    BY <1>1 DEF OneAccount
  <1>3. \A d \in Tasks : d \in open <=> status[d] = "pending"
    OBVIOUS
  <1>4. \A d \in Tasks : d \in open <=> results[d] = "none"
    BY <1>2
  <1> HIDE DEF open
  <1> DEFINE D == Doomed(open, t)
  <1>5. D \in SUBSET open
    BY DEF Doomed
  <1>6. /\ status' \in [Tasks -> Statuses]
        /\ \A d \in Tasks : status'[d] = IF d = t \/ d \in D THEN "failed" ELSE status[d]
    BY <1>1, NodesFailAdds DEF open
  <1>7. /\ results' \in [Tasks -> Outcomes]
        /\ \A d \in Tasks : results'[d] =
              IF d \in open /\ (d = t \/ d \in D) THEN "failed" ELSE results[d]
    BY <1>1, <1>2, ResultsFailAdds
  <1>8. \A d \in open : \A b \in blockers[d] : b = t \/ b \in D => d \in D
    BY <1>1, <1>2, DoomSpreads
  <1>9. ASSUME NEW d \in Running, d # t PROVE d \notin D
    <2>1. d \in Tasks /\ body[d] # "none"
      BY DEF Running
    <2>2. \A b \in blockers[d] : b \in Tasks /\ results[b] # "none"
      BY <2>1 DEF PumpInv, Types, WaitsForBlockers
    <2>3. blockers[d] \cap open = {}
      BY <1>4, <2>2
    <2> QED  BY <1>1, <1>2, <2>1, <2>3, FreeIsSpared
  <1> HIDE DEF D
  <1>10. OneAccount'
    <2> SUFFICES ASSUME NEW d \in Tasks
                 PROVE  /\ status'[d] # "aborted"
                        /\ status'[d] = "failed" <=> results'[d] = "failed"
                        /\ status'[d] = "completed" <=> results'[d] \in {"success", "failure"}
                        /\ status'[d] = "pending" <=> results'[d] = "none"
      BY DEF OneAccount
    <2>1. CASE d = t \/ d \in D
      BY <1>1, <1>5, <1>6, <1>7, <2>1
    <2>2. CASE ~(d = t \/ d \in D)
      BY <1>1, <1>6, <1>7, <2>2 DEF OneAccount
    <2> QED  BY <2>1, <2>2
  <1>11. FailureSpreads'
    <2> SUFFICES ASSUME NEW d \in Tasks, NEW b \in blockers[d],
                        status'[b] = "failed", status'[d] = "pending"
                 PROVE  FALSE
      BY DEF FailureSpreads
    <2>1. b \in Tasks
      BY DEF PumpInv, Types
    <2>2. d \notin D /\ d # t /\ status[d] = "pending" /\ d \in open
      BY <1>3, <1>6
    <2>3. status[b] # "failed"
      BY <1>1, <2>2 DEF FailureSpreads
    <2>4. b = t \/ b \in D
      BY <1>6, <2>1, <2>3
    <2> QED  BY <1>8, <2>2, <2>4
  <1>12. \A d \in Running \ {t} : status'[d] = status[d]
    BY <1>6, <1>9 DEF Running
  <1>13. \A d \in Tasks : status[d] # "pending" => status'[d] # "pending"
    BY <1>6
  <1>14. \A d \in Tasks : results[d] # "none" => results'[d] = results[d]
    BY <1>4, <1>7
  <1> QED  BY <1>1, <1>6, <1>7, <1>10, <1>11, <1>12, <1>13, <1>14 DEF Settles

LEMMA ThrowSettles ==
    ASSUME PumpInv, NEW t \in Running, Throws(t), UNCHANGED blockers
    PROVE  Settles(t)
  <1>1. CASE aborted
    <2>1. results' = Finish(t, "aborted") /\ UNCHANGED status
      BY <1>1 DEF Throws
    <2>2. /\ t \in Tasks /\ "aborted" \in Outcomes
          /\ results \in [Tasks -> Outcomes] /\ status \in [Tasks -> Statuses]
      BY DEF Running, PumpInv, Types, Outcomes
    <2>3. /\ results' \in [Tasks -> Outcomes]
          /\ \A d \in Tasks : results'[d] =
                IF d = t /\ results[d] = "none" THEN "aborted" ELSE results[d]
      BY <2>1, <2>2, FinishAdds
    <2> QED  BY <1>1, <2>1, <2>2, <2>3 DEF Settles
  <1>2. CASE ~aborted
    BY <1>2, FailureSettles DEF Throws
  <1> QED  BY <1>1, <1>2

-----------------------------------------------------------------------------
LEMMA WorkEndsInv ==
    ASSUME PumpInv, NEW t \in Tasks, WorkEnds(t)
    PROVE  PumpInv'
  <1>1. t \in Running
    BY DEF WorkEnds, Returns, Running
  <1>2. Settles(t)
    BY <1>1, ReturnSettles, ThrowSettles DEF WorkEnds
  <1> QED  BY <1>1, <1>2, EndInv DEF WorkEnds

LEMMA SleepEndsInv ==
    ASSUME PumpInv, NEW t \in Tasks, SleepEnds(t)
    PROVE  PumpInv'
  <1>1. t \in Running
    BY DEF SleepEnds, Running
  <1>2. CASE aborted
    <2>1. Settles(t)
      BY <1>1, <1>2, ThrowSettles DEF SleepEnds
    <2> QED  BY <1>1, <1>2, <2>1, EndInv DEF SleepEnds
  <1>3. CASE ~aborted
    <2>1. /\ body[t] = "stagger" /\ body' = [body EXCEPT ![t] = "work"]
          /\ UNCHANGED <<filesDeps, blockers, aborted, status, results, loop>>
      BY <1>3 DEF SleepEnds
    <2>2. Types' /\ Acyclic(blockers)' /\ AllAccounted'
      BY <2>1 DEF PumpInv, Types, Bodies, Acyclic, AllAccounted
    <2>3. \A d \in Tasks : /\ body'[d] = "none" <=> body[d] = "none"
                           /\ body'[d] = "over" <=> body[d] = "over"
                           /\ body'[d] \in {"stagger", "work"} <=> body[d] \in {"stagger", "work"}
      BY <2>1 DEF PumpInv, Types
    <2>4. Running' = Running
      BY <2>3 DEF Running
    <2>5. WithinLimit' /\ WaitsForBlockers'
      BY <2>1, <2>3, <2>4 DEF PumpInv, WithinLimit, Limit, WaitsForBlockers
    <2>6. Undisturbed'
      BY <1>3, <2>1, <2>3, <2>4
         DEF PumpInv, Undisturbed, OneAccount, BodiesTell, FailureSpreads, EndsIdle
    <2> QED  BY <2>2, <2>5, <2>6 DEF PumpInv
  <1> QED  BY <1>2, <1>3

LEMMA StillInv ==
    ASSUME PumpInv, AbortCall \/ UNCHANGED pumpVars
    PROVE  PumpInv'
  <1>1. UNCHANGED <<filesDeps, blockers, status, results, body, loop>> /\ (aborted => aborted')
    BY DEF AbortCall, pumpVars
  <1>2. Types'
    BY <1>1 DEF AbortCall, pumpVars, PumpInv, Types
  <1>3. Acyclic(blockers)' /\ WithinLimit' /\ WaitsForBlockers' /\ AllAccounted'
    BY <1>1 DEF PumpInv, Acyclic, WithinLimit, Limit, Running, WaitsForBlockers, AllAccounted
  <1>4. Undisturbed => Undisturbed'
    BY <1>1 DEF Undisturbed, OneAccount, BodiesTell, FailureSpreads, EndsIdle, Running
  <1> QED  BY <1>1, <1>2, <1>3, <1>4 DEF PumpInv

LEMMA PumpInvariance == Spec => []PumpInv
  <1>1. PumpInv /\ [Next]_pumpVars => PumpInv'
    BY TurnsInv, WorkEndsInv, SleepEndsInv, StillInv DEF Next
  <1> QED  BY <1>1, PumpInit, PTL DEF Spec

-----------------------------------------------------------------------------
(***************************************************************************)
(* The dialogue only adds to the pump: every step of the workers, of the   *)
(* broker and of the forks is a step of the batch or none of its business. *)
(***************************************************************************)
LEMMA DialogueStepIsPumpStep == [DialogueNext]_vars => [Next]_pumpVars
  <1> SUFFICES ASSUME [DialogueNext]_vars PROVE [Next]_pumpVars
    OBVIOUS
  <1>1. CASE BatchTurns
    BY <1>1 DEF BatchTurns, Next
  <1>2. CASE AbortCall /\ UNCHANGED <<sessionVars, askVars>>
    BY <1>2 DEF Next
  <1>3. CASE \E t \in Tasks : WorkerStep(t) \/ \E q \in Asks : Raise(t, q)
    BY <1>3 DEF WorkerStep, OpenSession, Prompt, Idle, WorkerEnds, Raise, Next
  <1>4. CASE \E q \in Asks : ForkEnds(q)
    BY <1>4 DEF ForkEnds
  <1>5. CASE UNCHANGED vars
    BY <1>5 DEF vars
  <1> QED  BY <1>1, <1>2, <1>3, <1>4, <1>5 DEF DialogueNext

\* A batch whose workers ask is a batch: what is proved of scheduleBatch holds for it.
THEOREM DialogueIsAPump == DialogueSpec => Spec
  <1>1. DialogueInit => Init
    BY DEF DialogueInit
  <1> QED  BY <1>1, DialogueStepIsPumpStep, PTL DEF DialogueSpec, Spec

\* Every variable of the batch stays in its domain, and no more tasks run than the setting
\* allows (pump, clampConcurrency).
THEOREM PumpTypes == DialogueSpec => []TypeOK
  <1>1. PumpInv => TypeOK
    BY LimitType DEF PumpInv, Types, WithinLimit, Statuses, Outcomes, Bodies, TypeOK
  <1> QED  BY <1>1, PumpInvariance, DialogueIsAPump, PTL

\* The scheduler's nodes and the results of the call say the same of every task until the
\* call is interrupted (#cascadeFailure and failDependents fail the same tasks).
THEOREM PumpAccountsAgree == DialogueSpec => []AccountsAgree
  <1>1. PumpInv => AccountsAgree
    BY DEF PumpInv, Undisturbed, OneAccount, AccountsAgree
  <1> QED  BY <1>1, PumpInvariance, DialogueIsAPump, PTL

\* No task starts before all those it waits for have returned (getReadyNodeIds).
THEOREM PumpWaitsForBlockers == DialogueSpec => []WaitsForBlockers
  <1>1. PumpInv => WaitsForBlockers
    BY DEF PumpInv
  <1> QED  BY <1>1, PumpInvariance, DialogueIsAPump, PTL

\* The call returns a result for every task, and, unless it was interrupted, one of the
\* task's own or the failure of one it waited for: filling in "cancelled" at the end of
\* scheduleBatch never hides a task that pump forgot, and nothing runs on.
CallIsComplete ==
    loop = "over" => \A t \in Tasks :
        /\ results[t] # "none"
        /\ ~aborted => results[t] \in {"success", "failure", "failed"} /\ t \notin Running

\* The pump forgets no task (scheduleBatch, the loop that fills in "cancelled").
THEOREM PumpForgetsNobody == DialogueSpec => []CallIsComplete
  <1>1. PumpInv => CallIsComplete
    <2> SUFFICES ASSUME PumpInv, loop = "over", NEW t \in Tasks
                 PROVE  /\ results[t] # "none"
                        /\ ~aborted => /\ results[t] \in {"success", "failure", "failed"}
                                       /\ t \notin Running
      BY DEF CallIsComplete
    <2>1. results[t] # "none" /\ status[t] \in Statuses
      BY DEF PumpInv, AllAccounted, Types
    <2>2. ASSUME ~aborted
          PROVE  results[t] \in {"success", "failure", "failed"} /\ t \notin Running
      BY <2>1, <2>2 DEF PumpInv, Undisturbed, OneAccount, EndsIdle, Statuses
    <2> QED  BY <2>1, <2>2
  <1> QED  BY <1>1, PumpInvariance, DialogueIsAPump, PTL

-----------------------------------------------------------------------------
(***************************************************************************)
(* The questions.  An open one has a fork at work on it and has reached    *)
(* nobody yet; one that has not been asked is not open.                    *)
(***************************************************************************)
AskInv ==
    /\ asker \in [Asks -> Tasks \cup {0}]
    /\ waiting \in SUBSET Asks
    /\ parked \in SUBSET waiting
    /\ fork \in [Asks -> {"none", "running", "over"}]
    /\ got \in [Asks -> [Tasks -> Nat]]
    /\ closed \in BOOLEAN
    /\ loop = "over" <=> closed
    /\ closed => waiting = {}
    /\ \A q \in waiting : fork[q] = "running" /\ asker[q] # 0
    /\ \A q \in Asks : q \in waiting \/ asker[q] = 0 => \A t \in Tasks : got[q][t] = 0
    /\ ReachesOnce

LEMMA AskInit == DialogueInit => AskInv
  <1> SUFFICES ASSUME DialogueInit PROVE AskInv
    OBVIOUS
  <1>1. \A q \in Asks, t \in Tasks : got[q][t] = 0
    BY DEF DialogueInit
  <1>2. ReachesOnce
    BY <1>1 DEF ReachesOnce
  <1> QED  BY <1>1, <1>2 DEF DialogueInit, AskInv

LEMMA RaiseInv ==
    ASSUME AskInv, NEW t \in Tasks, NEW q \in Asks, Raise(t, q)
    PROVE  AskInv'
  <1>1. /\ asker[q] = 0 /\ asker' = [asker EXCEPT ![q] = t] /\ t # 0
        /\ UNCHANGED <<got, closed, loop>>
    BY DEF Raise, pumpVars, Tasks
  <1>2. \A r \in Asks : asker'[r] = IF r = q THEN t ELSE asker[r]
    BY <1>1 DEF AskInv
  <1>3. asker' \in [Asks -> Tasks \cup {0}] /\ ReachesOnce'
    BY <1>1 DEF AskInv, ReachesOnce
  <1>4. CASE closed
    BY <1>1, <1>2, <1>3, <1>4 DEF Raise, AskInv
  <1>5. CASE ~closed
    <2>1. /\ waiting' = waiting \cup {q} /\ parked' \in {parked, parked \cup {q}}
          /\ fork' = [fork EXCEPT ![q] = "running"]
      BY <1>5 DEF Raise
    <2>2. \A r \in Asks : fork'[r] = IF r = q THEN "running" ELSE fork[r]
      BY <2>1 DEF AskInv
    <2> QED  BY <1>1, <1>2, <1>3, <1>5, <2>1, <2>2 DEF AskInv
  <1> QED  BY <1>4, <1>5 DEF AskInv

\* An answer takes its question off the list and reaches a task once: who is resumed by
\* its promise is not told again.
LEMMA AnswerOnce ==
    ASSUME AskInv, NEW q \in Asks, NEW R \in SUBSET Tasks, Answer(q, R)
    PROVE  /\ waiting' = waiting \ {q} /\ parked' = parked \ {q}
           /\ got' \in [Asks -> [Tasks -> Nat]]
           /\ \A r \in Asks : r # q => got'[r] = got[r]
           /\ q \notin waiting => got'[q] = got[q]
           /\ \A t \in Tasks : got'[q][t] <= 1
  <1>1. CASE q \notin waiting
    BY <1>1 DEF Answer, AskInv, ReachesOnce
  <1>2. CASE q \in waiting
    <2> DEFINE promised(t)  == IF q \in parked /\ t = asker[q] THEN 1 ELSE 0
               delivered(t) == IF t \in Reached(q, R \cup {asker[q]}) THEN 1 ELSE 0
               new == [t \in Tasks |-> got[q][t] + promised(t) + delivered(t)]
    <2>1. /\ waiting' = waiting \ {q} /\ parked' = parked \ {q}
          /\ got' = [got EXCEPT ![q] = new]
      BY <1>2 DEF Answer
    <2>2. \A t \in Tasks : got[q][t] = 0
      BY <1>2 DEF AskInv
    <2>3. \A t \in Tasks : promised(t) \in Nat /\ delivered(t) \in Nat /\ promised(t) + delivered(t) <= 1
      BY DEF Reached
    <2> HIDE DEF promised, delivered
    <2>4. new \in [Tasks -> Nat] /\ \A t \in Tasks : new[t] <= 1
      BY <2>2, <2>3
    <2> HIDE DEF new
    <2> QED  BY <1>2, <2>1, <2>4 DEF AskInv
  <1> QED  BY <1>1, <1>2

LEMMA ForkEndsInv ==
    ASSUME AskInv, NEW q \in Asks, ForkEnds(q)
    PROVE  AskInv'
  <1>1. PICK R \in SUBSET Tasks : Answer(q, R)
    BY DEF ForkEnds, EmptyAnswer
  <1>2. /\ fork' = [fork EXCEPT ![q] = "over"] /\ UNCHANGED <<asker, closed, loop>>
    BY DEF ForkEnds, pumpVars
  <1>3. /\ waiting' = waiting \ {q} /\ parked' = parked \ {q}
        /\ got' \in [Asks -> [Tasks -> Nat]]
        /\ \A r \in Asks : r # q => got'[r] = got[r]
        /\ q \notin waiting => got'[q] = got[q]
        /\ \A t \in Tasks : got'[q][t] <= 1
    BY <1>1, AnswerOnce
  <1>4. fork' \in [Asks -> {"none", "running", "over"}] /\ \A r \in Asks : r # q => fork'[r] = fork[r]
    BY <1>2 DEF AskInv
  <1>5. ReachesOnce'
    BY <1>3 DEF AskInv, ReachesOnce
  <1>6. ASSUME NEW r \in Asks, r \in waiting' \/ asker'[r] = 0
        PROVE  \A t \in Tasks : got'[r][t] = 0
    <2>1. CASE r = q
      BY <1>2, <1>3, <1>6, <2>1 DEF AskInv
    <2>2. CASE r # q
      BY <1>2, <1>3, <1>6, <2>2 DEF AskInv
    <2> QED  BY <2>1, <2>2
  <1>7. \A r \in waiting' : fork'[r] = "running" /\ asker'[r] # 0
    BY <1>2, <1>3, <1>4 DEF AskInv
  <1> QED  BY <1>2, <1>3, <1>4, <1>5, <1>6, <1>7 DEF AskInv

LEMMA BatchTurnsAskInv ==
    ASSUME AskInv, BatchTurns
    PROVE  AskInv'
  <1>1. UNCHANGED <<asker, fork, got>> /\ loop = "woken"
    BY DEF BatchTurns, LoopTurns
  <1>2. CASE loop' = "over"
    BY <1>1, <1>2 DEF BatchTurns, Unparked, AskInv, ReachesOnce
  <1>3. CASE loop' # "over"
    BY <1>1, <1>3 DEF BatchTurns, AskInv, ReachesOnce
  <1> QED  BY <1>2, <1>3

\* Nothing else concerns the questions, or closes the broker.
LEMMA OthersAskInv ==
    ASSUME AskInv, UNCHANGED askVars, loop' = "over" <=> loop = "over"
    PROVE  AskInv'
  BY DEF AskInv, askVars, ReachesOnce

LEMMA AskStep ==
    ASSUME AskInv, [DialogueNext]_vars
    PROVE  AskInv'
  <1>1. ASSUME NEW t \in Tasks, WorkerStep(t)
        PROVE  UNCHANGED askVars /\ (loop' = "over" <=> loop = "over")
    <2>1. CASE WorkerEnds(t)
      BY <2>1 DEF WorkerEnds, WorkEnds, Wake
    <2>2. CASE SleepEnds(t) /\ UNCHANGED <<sessionVars, askVars>>
      BY <2>2 DEF SleepEnds, Wake
    <2>3. CASE OpenSession(t) \/ Prompt(t) \/ Idle(t)
      BY <2>3 DEF OpenSession, Prompt, Idle, pumpVars
    <2> QED  BY <1>1, <2>1, <2>2, <2>3 DEF WorkerStep
  <1>2. CASE \E t \in Tasks : WorkerStep(t)
    BY <1>1, <1>2, OthersAskInv
  <1>3. CASE \E t \in Tasks, q \in Asks : Raise(t, q)
    BY <1>3, RaiseInv
  <1>4. CASE \E q \in Asks : ForkEnds(q)
    BY <1>4, ForkEndsInv
  <1>5. CASE (AbortCall /\ UNCHANGED <<sessionVars, askVars>>) \/ UNCHANGED vars
    BY <1>5, OthersAskInv DEF AbortCall, vars, pumpVars
  <1>6. CASE BatchTurns
    BY <1>6, BatchTurnsAskInv
  <1> QED  BY <1>2, <1>3, <1>4, <1>5, <1>6 DEF DialogueNext

LEMMA AskInvariance == DialogueSpec => []AskInv
  <1>1. AskInv /\ [DialogueNext]_vars => AskInv'
    BY AskStep
  <1> QED  BY <1>1, AskInit, PTL DEF DialogueSpec

\* A worker that is parked waits for an open question that a fork is at work on
\* (AskBroker.raise, answer and close).
THEOREM ParkedWaitsForAFork == DialogueSpec => []ParkedIsPending
  <1>1. AskInv => ParkedIsPending
    BY DEF AskInv, ParkedIsPending
  <1> QED  BY <1>1, AskInvariance, PTL

\* An answer reaches a task through its promise or by delivery, never both, and never
\* twice (AskBroker.answer).
THEOREM AnswerReachesOnce == DialogueSpec => []ReachesOnce
  <1>1. AskInv => ReachesOnce
    BY DEF AskInv
  <1> QED  BY <1>1, AskInvariance, PTL

\* When the call has returned nobody is parked and no question is open, nor will one be:
\* the broker is closed for good (AskBroker.close).
NobodyLeftParked == loop = "over" => closed /\ parked = {} /\ waiting = {}

\* No worker is left behind by the call that started it (AskBroker.close).
THEOREM CloseLeavesNobody == DialogueSpec => []NobodyLeftParked
  <1>1. AskInv => NobodyLeftParked
    BY DEF AskInv, NobodyLeftParked
  <1> QED  BY <1>1, AskInvariance, PTL
=============================================================================
