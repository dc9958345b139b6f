--------------------------- MODULE AsyncJobsProofs ---------------------------
(***************************************************************************)
(* The manager of background jobs, for any number of jobs and any limits:  *)
(* the outcome of a job is final, the store and the queue keep to their    *)
(* limits, and a result is accounted for and delivered once at most.       *)
(*                                                                         *)
(* The first rests on every writer of a status looking at it in the same   *)
(* uninterrupted step.  The others rest on two invariants: StoreInv, about *)
(* the lists of jobs, and QueueInv, of which the part that matters is that *)
(* the delivery the loop holds across its await can only be the head of    *)
(* the queue when it is still there.                                       *)
(***************************************************************************)
EXTENDS AsyncJobs, FiniteSetTheorems, TLAPS

Outcomes == {"completed", "failed", "cancelled"}

StatusType == status \in [Jobs -> {"unused", "running"} \cup Outcomes]

\* No step takes an outcome back.
Kept == \A j \in Jobs : status[j] \in Outcomes => status'[j] = status[j]

\* The end of a running job, by its run or by the watchdog, writes this job's status alone.
LEMMA EndIsFirst ==
    ASSUME StatusType, NEW j \in Jobs, NEW outcome \in Outcomes,
           status[j] = "running", End(j, outcome)
    PROVE  StatusType' /\ Kept
  BY DEF End, StatusType, Kept, Outcomes

\* cancelAll writes the status of running jobs alone.
LEMMA CancelRunningIsFirst ==
    ASSUME StatusType, NEW timers, CancelRunning(timers)
    PROVE  StatusType' /\ Kept
  <1>1. status' = [j \in Jobs |-> IF j \in Running THEN "cancelled" ELSE status[j]]
    BY DEF CancelRunning
  <1>2. \A j \in Running : status[j] = "running"
    BY DEF Running
  <1> QED  BY <1>1, <1>2 DEF StatusType, Kept, Outcomes

\* Every step of the manager keeps the outcomes there are.
LEMMA StepKeeps ==
    ASSUME StatusType, [Next]_vars
    PROVE  StatusType' /\ Kept
  <1>1. ASSUME NEW j \in Jobs, JobStep(j)
        PROVE  StatusType' /\ Kept
    <2>1. CASE Register(j)
      BY <2>1 DEF Register, StatusType, Kept, Outcomes
    <2>2. CASE Finish(j)
      BY <2>2 DEF Finish, StatusType, Kept
    <2>3. CASE Settle(j)
      <3>1. CASE Undecided(j)
        <4>1. End(j, IF race[j] = "ok" THEN "completed" ELSE "failed")
          BY <2>3, <3>1 DEF Settle
        <4>2. (IF race[j] = "ok" THEN "completed" ELSE "failed") \in Outcomes
          BY DEF Outcomes
        <4> QED  BY <3>1, <4>1, <4>2, EndIsFirst DEF Undecided
      <3>2. CASE ~Undecided(j)
        BY <2>3, <3>2 DEF Settle, StatusType, Kept
      <3> QED  BY <3>1, <3>2
    <2>4. CASE Fire(j)
      BY <2>4 DEF Fire, StatusType, Kept
    <2>5. CASE GraceEnds(j)
      <3>1. CASE j \in Running
        <4>1. End(j, "failed") /\ status[j] = "running"
          BY <2>5, <3>1 DEF GraceEnds, Running
        <4> QED  BY <4>1, EndIsFirst DEF Outcomes
      <3>2. CASE j \notin Running
        BY <2>5, <3>2 DEF GraceEnds, StatusType, Kept
      <3> QED  BY <3>1, <3>2
    <2>6. CASE Evict(j)
      BY <2>6 DEF Evict, StatusType, Kept
    <2>7. CASE Cancel(j)
      BY <2>7 DEF Cancel, Running, StatusType, Kept, Outcomes
    <2> QED  BY <1>1, <2>1, <2>2, <2>3, <2>4, <2>5, <2>6, <2>7 DEF JobStep
  <1>2. ASSUME NEW S, Acknowledge(S)
        PROVE  StatusType' /\ Kept
    BY <1>2 DEF Acknowledge, jobVars, StatusType, Kept
  <1>3. CASE CancelAll
    BY <1>3, CancelRunningIsFirst DEF CancelAll
  <1>4. CASE Dispose
    BY <1>4, CancelRunningIsFirst DEF Dispose
  <1>5. CASE DeliverOk \/ DeliverFails \/ Wake \/ LoopEnds
    BY <1>5 DEF DeliverOk, DeliverFails, Wake, LoopEnds, jobVars, StatusType, Kept
  <1>6. CASE DisposeWaited \/ DisposeDrained
    BY <1>6 DEF DisposeWaited, DisposeDrained, jobVars, StatusType, Kept
  <1>7. CASE UNCHANGED vars
    BY <1>7 DEF vars, jobVars, StatusType, Kept
  <1> QED  BY <1>1, <1>2, <1>3, <1>4, <1>5, <1>6, <1>7 DEF Next

\* The first outcome of a job is its last, however its run, its watchdog and its
\* cancellation race (job-manager.ts: Settle, GraceEnds, Cancel, CancelAll).
THEOREM OutcomesFinal == Spec => OutcomeIsFinal
  <1>1. Init => StatusType
    BY DEF Init, StatusType
  <1>2. StatusType /\ [Next]_vars => StatusType'
    BY StepKeeps
  <1>3. StatusType /\ [Next]_vars =>
          [\A j \in Jobs :
             status[j] \in {"completed", "failed", "cancelled"} => status'[j] = status[j]]_vars
    BY StepKeeps DEF Kept, Outcomes
  <1> QED  BY <1>1, <1>2, <1>3, PTL DEF Spec, OutcomeIsFinal

-----------------------------------------------------------------------------
(***************************************************************************)
(* What Remaining leaves of a sequence.                                    *)
(***************************************************************************)

\* How many of a set of places come before one.
Rank(i, places) == Cardinality({m \in places : m < i})

LEMMA PlacesFinite ==
    ASSUME NEW n \in Nat, NEW places \in SUBSET (1..n)
    PROVE  IsFiniteSet(places) /\ Cardinality(places) \in Nat /\ Cardinality(places) <= n
  <1>1. IsFiniteSet(1..n) /\ Cardinality(1..n) = n
    BY FS_Interval
  <1> QED  BY <1>1, FS_Subset, FS_CardinalityType

\* Two places have different ranks, all smaller than their number.
LEMMA RanksDiffer ==
    ASSUME NEW n \in Nat, NEW places \in SUBSET (1..n), NEW i \in places
    PROVE  /\ Rank(i, places) \in Nat /\ Rank(i, places) < Cardinality(places)
           /\ \A k \in places : k < i => Rank(k, places) < Rank(i, places)
  <1> DEFINE Below(k) == {m \in places : m < k}
  <1>1. \A k \in places : /\ IsFiniteSet(Below(k)) /\ Rank(k, places) = Cardinality(Below(k))
                          /\ Rank(k, places) \in Nat
    <2>1. \A k \in places : Below(k) \in SUBSET (1..n)
      OBVIOUS
    <2> QED  BY <2>1, PlacesFinite DEF Rank
  <1>2. IsFiniteSet(places) /\ Cardinality(places) \in Nat
    BY PlacesFinite
  <1>3. Rank(i, places) < Cardinality(places)
    <2>1. Below(i) \in SUBSET places /\ i \notin Below(i)
      OBVIOUS
    <2>2. Cardinality(Below(i)) <= Cardinality(places) /\ Cardinality(Below(i)) # Cardinality(places)
      BY <1>2, <2>1, FS_Subset
    <2> QED  BY <1>1, <1>2, <2>2
  <1>4. ASSUME NEW k \in places, k < i
        PROVE  Rank(k, places) < Rank(i, places)
    <2>1. Below(k) \in SUBSET Below(i) /\ k \in Below(i) /\ k \notin Below(k)
      <3>1. places \in SUBSET Int
        OBVIOUS
      <3>2. \A m \in Int : m < k => m < i
        BY <1>4, <3>1
      <3>3. ~ (k < k)
        BY <3>1
      <3>4. \A m \in places : m < k => m < i
        BY <3>1, <3>2
      <3> QED  BY <1>4, <3>3, <3>4
    <2>2. Cardinality(Below(k)) <= Cardinality(Below(i)) /\ Cardinality(Below(k)) # Cardinality(Below(i))
      BY <1>1, <2>1, FS_Subset
    <2> QED  BY <1>1, <2>2
  <1> QED  BY <1>1, <1>3, <1>4

\* There is a place of every rank.
LEMMA EveryRank ==
    ASSUME NEW n \in Nat, NEW places \in SUBSET (1..n), NEW k \in 1..Cardinality(places)
    PROVE  \E i \in places : Rank(i, places) = k - 1
  <1> DEFINE f == [i \in places |-> Rank(i, places)]
  <1>0. /\ \A i \in places : Rank(i, places) \in Nat /\ Rank(i, places) < Cardinality(places)
        /\ \A i, m \in places : i < m => Rank(i, places) < Rank(m, places)
    BY RanksDiffer
  <1>1. PICK c \in Nat : c = Cardinality(places)
    BY PlacesFinite
  <1>2. PICK b \in Int : b = c - 1
    OBVIOUS
  <1>3. \A i \in places : Rank(i, places) \in 0..b
    BY <1>0, <1>1, <1>2
  <1>4. \A i, m \in places : i # m => f[i] # f[m]
    <2>1. \A i, m \in places : i # m => i < m \/ m < i
      OBVIOUS
    <2>2. \A i, m \in places : i < m => Rank(i, places) # Rank(m, places)
      BY <1>0
    <2> QED  BY <2>1, <2>2
  <1>5. f \in Injection(places, 0..b)
    BY <1>3, <1>4 DEF Injection, IsInjective
  <1>6. IsFiniteSet(0..b) /\ Cardinality(0..b) = c
    BY <1>2, FS_Interval
  <1>7. f \in Surjection(places, 0..b)
    BY <1>1, <1>5, <1>6, FS_Injection
  <1>8. k - 1 \in 0..b
    BY <1>1, <1>2
  <1> QED  BY <1>7, <1>8 DEF Surjection

\* A part of q, in its order: entry i of r is entry f[i] of q.
Picks(f, r, q) ==
    /\ f \in [DOMAIN r -> DOMAIN q]
    /\ \A i, k \in DOMAIN r : i < k => f[i] < f[k]
    /\ \A i \in DOMAIN r : r[i] = q[f[i]]

\* Remaining leaves the entries at its places, all of them, in the order they had.
LEMMA RemainingPicks ==
    ASSUME NEW T, NEW q \in Seq(T), NEW places \in SUBSET (1..Len(q))
    PROVE  /\ Remaining(q, places) \in Seq(T)
           /\ Len(Remaining(q, places)) = Cardinality(places)
           /\ \E f : /\ Picks(f, Remaining(q, places), q)
                     /\ \A i \in 1..Cardinality(places) : f[i] \in places
                     /\ \A m \in places : \E i \in 1..Cardinality(places) : f[i] = m
  <1> DEFINE nth(k) == CHOOSE i \in places : Cardinality({m \in places : m < i}) = k - 1
             f == [k \in 1..Cardinality(places) |-> nth(k)]
  <1>1. Len(q) \in Nat /\ Cardinality(places) \in Nat /\ DOMAIN q = 1..Len(q)
    <2>1. Len(q) \in Nat /\ DOMAIN q = 1..Len(q)
      OBVIOUS
    <2> QED  BY <2>1, PlacesFinite
  <1>0. /\ \A i \in places : /\ i \in Int /\ q[i] \in T
                             /\ Rank(i, places) \in Nat /\ Rank(i, places) < Cardinality(places)
        /\ \A i, m \in places : i < m => Rank(i, places) < Rank(m, places)
    <2>1. \A i \in places : i \in Int /\ q[i] \in T
      OBVIOUS
    <2> QED  BY <1>1, <2>1, RanksDiffer
  <1>2. ASSUME NEW k \in 1..Cardinality(places)
        PROVE  nth(k) \in places /\ Rank(nth(k), places) = k - 1
    <2>1. \E i \in places : Cardinality({m \in places : m < i}) = k - 1
      BY <1>1, EveryRank DEF Rank
    <2> QED  BY <2>1 DEF Rank
  <1>3. Remaining(q, places) = [k \in 1..Cardinality(places) |-> q[nth(k)]]
    BY DEF Remaining
  <1> HIDE DEF nth
  <1>4. \A k \in 1..Cardinality(places) : q[nth(k)] \in T
    BY <1>0, <1>2
  <1>5. /\ Remaining(q, places) \in Seq(T)
        /\ Len(Remaining(q, places)) = Cardinality(places)
        /\ DOMAIN Remaining(q, places) = 1..Cardinality(places)
    BY <1>1, <1>3, <1>4
  <1>6. ASSUME NEW i \in 1..Cardinality(places), NEW k \in 1..Cardinality(places), i < k
        PROVE  nth(i) < nth(k)
    <2>1. nth(i) \in places /\ nth(k) \in places /\ nth(i) \in Int /\ nth(k) \in Int
      BY <1>0, <1>2
    <2>2. Rank(nth(i), places) < Rank(nth(k), places)
      BY <1>1, <1>2, <1>6
    <2>3. nth(i) # nth(k) /\ Rank(nth(i), places) \in Nat /\ Rank(nth(k), places) \in Nat
      BY <1>0, <2>1, <2>2
    <2>4. ~ (nth(k) < nth(i))
      BY <1>0, <2>1, <2>2, <2>3
    <2> QED  BY <2>1, <2>3, <2>4
  <1>7. ASSUME NEW m \in places
        PROVE  \E i \in 1..Cardinality(places) : nth(i) = m
    <2>1. PICK r \in Nat : r = Rank(m, places) /\ r < Cardinality(places)
      BY <1>0
    <2>2. r + 1 \in 1..Cardinality(places) /\ r + 1 - 1 = r
      BY <1>1, <2>1
    <2>3. PICK k \in 1..Cardinality(places) : k = r + 1
      BY <2>2
    <2>4. nth(k) \in places /\ Rank(nth(k), places) = r
      BY <1>2, <2>2, <2>3
    <2>5. nth(k) \in Int /\ m \in Int
      BY <1>0, <2>4
    <2>6. PICK p \in places : p = nth(k)
      BY <2>4
    <2>7. Rank(p, places) = r /\ Rank(m, places) = r /\ p \in Int
      BY <2>1, <2>4, <2>5, <2>6
    <2>8. ~ (p < m) /\ ~ (m < p)
      <3>1. ~ (r < r)
        BY <2>1
      <3> QED  BY <1>0, <2>7, <3>1
    <2> QED  BY <2>5, <2>6, <2>7, <2>8
  <1>8. Picks(f, Remaining(q, places), q)
    BY <1>1, <1>2, <1>3, <1>5, <1>6 DEF Picks
  <1> QED  BY <1>2, <1>5, <1>7, <1>8

\* A set of places that is not empty has a first one.
LEMMA FirstPlace ==
    ASSUME NEW n \in Nat, NEW places \in SUBSET (1..n), places # {}
    PROVE  Min(places) \in places /\ \A m \in places : Min(places) <= m
  <1>1. IsFiniteSet(places) /\ Cardinality(places) \in Nat /\ Cardinality(places) # 0
    BY PlacesFinite, FS_EmptySet
  <1>2. PICK i \in places : Rank(i, places) = 1 - 1
    <2>1. 1 \in 1..Cardinality(places)
      BY <1>1
    <2> QED  BY <2>1, EveryRank
  <1>3. {m \in places : m < i} = {}
    <2>1. {m \in places : m < i} \in SUBSET (1..n)
      OBVIOUS
    <2>2. IsFiniteSet({m \in places : m < i}) /\ Cardinality({m \in places : m < i}) = 0
      BY <1>2, <2>1, PlacesFinite DEF Rank
    <2> QED  BY <2>2, FS_EmptySet
  <1>4. \A m \in places : i <= m
    BY <1>3
  <1> QED  BY <1>4 DEF Min

-----------------------------------------------------------------------------
(***************************************************************************)
(* The queue: what its operations do to a queue in which no job is twice.  *)
(***************************************************************************)
Deliveries == [job : Jobs, tried : BOOLEAN]

\* A queue in which no job is twice.
Once(q) == q \in Seq(Deliveries) /\ \A i, k \in DOMAIN q : q[i].job = q[k].job => i = k

\* If the job is in the queue at all, it is in front.
InFront(q, j) == \A i \in DOMAIN q : q[i].job = j => i = 1

\* The jobs of a queue, by their places.
LEMMA QueuedIs ==
    ASSUME NEW q, NEW j
    PROVE  j \in Queued(q) <=> \E i \in DOMAIN q : q[i].job = j
  BY DEF Queued

\* A part of a queue, in its order.
LEMMA PartOfQueue ==
    ASSUME NEW q, Once(q), NEW r \in Seq(Deliveries), NEW f, Picks(f, r, q)
    PROVE  /\ Once(r) /\ Queued(r) \subseteq Queued(q)
           /\ \A j : InFront(q, j) => InFront(r, j)
  <1>1. /\ q \in Seq(Deliveries) /\ DOMAIN q = 1..Len(q) /\ Len(q) \in Nat
        /\ DOMAIN r = 1..Len(r) /\ Len(r) \in Nat
    BY DEF Once
  <1>2. /\ \A i \in DOMAIN r : f[i] \in DOMAIN q /\ r[i] = q[f[i]]
        /\ \A i, k \in DOMAIN r : i < k => f[i] < f[k]
    BY DEF Picks
  <1>3. Once(r)
    <2> SUFFICES ASSUME NEW i \in DOMAIN r, NEW k \in DOMAIN r, r[i].job = r[k].job
                 PROVE  i = k
      BY DEF Once
    <2>1. f[i] = f[k] /\ f[i] \in Int
      BY <1>1, <1>2 DEF Once
    <2>2. ~ (f[i] < f[k]) /\ ~ (f[k] < f[i])
      BY <2>1
    <2>3. ~ (i < k) /\ ~ (k < i)
      BY <1>2, <2>2
    <2> QED  BY <1>1, <2>3
  <1>4. Queued(r) \subseteq Queued(q)
    BY <1>2 DEF Queued
  <1>5. ASSUME NEW j, InFront(q, j) PROVE InFront(r, j)
    <2> SUFFICES ASSUME NEW i \in DOMAIN r, r[i].job = j, i # 1 PROVE FALSE
      BY DEF InFront
    <2>1. f[i] = 1
      BY <1>2, <1>5 DEF InFront
    <2>2. 1 \in DOMAIN r /\ 1 < i
      BY <1>1
    <2>3. f[1] < f[i] /\ f[1] \in 1..Len(q)
      BY <1>1, <1>2, <2>2
    <2> QED  BY <1>1, <2>1, <2>3
  <1> QED  BY <1>3, <1>4, <1>5

\* Taking jobs out of a queue leaves the others, in their order.
LEMMA WithoutQueue ==
    ASSUME NEW q, Once(q), NEW gone
    PROVE  /\ Once(Without(q, gone))
           /\ Queued(Without(q, gone)) = Queued(q) \ gone
           /\ Len(Without(q, gone)) <= Len(q)
           /\ Queued(q) \cap gone # {} => Len(Without(q, gone)) < Len(q)
           /\ \A j : InFront(q, j) => InFront(Without(q, gone), j)
  <1> DEFINE places == {i \in DOMAIN q : q[i].job \notin gone}
             r == Without(q, gone)
  <1>1. q \in Seq(Deliveries) /\ DOMAIN q = 1..Len(q) /\ Len(q) \in Nat
    BY DEF Once
  <1>2. places \in SUBSET (1..Len(q)) /\ r = Remaining(q, places)
    BY <1>1 DEF Without
  <1>5. /\ \A i \in DOMAIN q : i \in places <=> q[i].job \notin gone
        /\ places \subseteq DOMAIN q
    OBVIOUS
  <1> HIDE DEF r, places
  <1>3. r \in Seq(Deliveries) /\ Len(r) = Cardinality(places)
    BY <1>1, <1>2, RemainingPicks
  <1>4. PICK f : /\ Picks(f, r, q)
                 /\ \A i \in 1..Cardinality(places) : f[i] \in places
                 /\ \A m \in places : \E i \in 1..Cardinality(places) : f[i] = m
    BY <1>1, <1>2, RemainingPicks
  <1>6. Once(r) /\ \A j : InFront(q, j) => InFront(r, j)
    BY <1>3, <1>4, PartOfQueue
  <1>7. /\ \A i \in DOMAIN r : f[i] \in places /\ r[i] = q[f[i]]
        /\ \A m \in places : \E i \in DOMAIN r : f[i] = m
    <2>1. DOMAIN r = 1..Cardinality(places)
      BY <1>3
    <2> QED  BY <1>4, <2>1 DEF Picks
  <1>8. /\ Cardinality(places) <= Len(q)
        /\ Cardinality(places) = Len(q) => places = 1..Len(q)
        /\ Cardinality(places) \in Nat
    <2>1. IsFiniteSet(1..Len(q)) /\ Cardinality(1..Len(q)) = Len(q)
      BY <1>1, FS_Interval
    <2> QED  BY <1>1, <1>2, <2>1, PlacesFinite, FS_Subset
  <1>9. Queued(r) = Queued(q) \ gone
    BY <1>5, <1>7 DEF Queued
  <1>10. Queued(q) \cap gone # {} => Len(r) < Len(q)
    <2>1. Queued(q) \cap gone # {} => places # 1..Len(q)
      BY <1>1, <1>5 DEF Queued
    <2> QED  BY <1>1, <1>3, <1>8, <2>1
  <1>11. Len(r) <= Len(q)
    BY <1>3, <1>8
  <1> QED  BY <1>6, <1>9, <1>10, <1>11 DEF r

\* A queue from one of its places on, or none of it.
LEMMA SuffixOfQueue ==
    ASSUME NEW q, Once(q), NEW m \in 1..Len(q), NEW r, r = SubSeq(q, m, Len(q))
    PROVE  /\ Once(r) /\ Queued(r) \subseteq Queued(q) /\ Len(r) <= Len(q)
           /\ \A i \in DOMAIN q : i >= m => q[i].job \in Queued(r)
           /\ \A j : InFront(q, j) => InFront(r, j)
           /\ r # <<>>
  <1>1. q \in Seq(Deliveries) /\ DOMAIN q = 1..Len(q) /\ Len(q) \in Nat /\ m \in Int
    BY DEF Once
  <1>2. /\ r \in Seq(Deliveries) /\ Len(r) = Len(q) - m + 1 /\ DOMAIN r = 1..Len(r)
        /\ \A i \in 1..Len(r) : r[i] = q[m + i - 1]
    BY <1>1
  <1> DEFINE f == [i \in DOMAIN r |-> m + i - 1]
  <1>3. Picks(f, r, q)
    BY <1>1, <1>2 DEF Picks
  <1>4. ASSUME NEW i \in DOMAIN q, i >= m PROVE q[i].job \in Queued(r)
    <2>1. i - m + 1 \in DOMAIN r /\ m + (i - m + 1) - 1 = i
      BY <1>1, <1>2, <1>4
    <2>2. PICK k \in DOMAIN r : k = i - m + 1
      BY <2>1
    <2>3. r[k] = q[i]
      BY <1>2, <2>1, <2>2
    <2> QED  BY <2>3 DEF Queued
  <1>5. Once(r) /\ Queued(r) \subseteq Queued(q) /\ \A j : InFront(q, j) => InFront(r, j)
    BY <1>2, <1>3, PartOfQueue
  <1>6. Len(r) <= Len(q)
    BY <1>1, <1>2
  <1>7. r # <<>>
    <2>1. Len(r) >= 1 /\ Len(<<>>) = 0
      BY <1>1, <1>2
    <2> QED  BY <2>1
  <1> QED  BY <1>4, <1>5, <1>6, <1>7

LEMMA EmptyQueue == Once(<<>>) /\ Queued(<<>>) = {} /\ Len(<<>>) = 0
  BY DEF Once, Queued

\* What the loop shifts has been acknowledged.
LEMMA SkipQueue ==
    ASSUME NEW q, Once(q)
    PROVE  /\ Once(Skip(q)) /\ Len(Skip(q)) <= Len(q)
           /\ Queued(Skip(q)) \subseteq Queued(q)
           /\ Queued(q) \ suppressed \subseteq Queued(Skip(q))
  <1> DEFINE live == {i \in DOMAIN q : q[i].job \notin suppressed}
  <1>1. q \in Seq(Deliveries) /\ DOMAIN q = 1..Len(q) /\ Len(q) \in Nat
    BY DEF Once
  <1>2. CASE live = {}
    <2>1. Skip(q) = <<>>
      BY <1>2 DEF Skip
    <2>2. Queued(q) \subseteq suppressed
      BY <1>2 DEF Queued
    <2> QED  BY <1>1, <2>1, <2>2, EmptyQueue
  <1>3. CASE live # {}
    <2>1. Skip(q) = SubSeq(q, Min(live), Len(q))
      BY <1>3 DEF Skip
    <2>2. live \in SUBSET (1..Len(q))
      BY <1>1
    <2>3. \A i \in DOMAIN q : q[i].job \notin suppressed => i \in live
      OBVIOUS
    <2> HIDE DEF live
    <2>4. Min(live) \in live /\ \A i \in live : Min(live) <= i
      BY <1>1, <1>3, <2>2, FirstPlace
    <2>5. PICK m \in 1..Len(q) : m = Min(live)
      BY <2>2, <2>4
    <2>6. PICK r : r = Skip(q)
      OBVIOUS
    <2>7. r = SubSeq(q, m, Len(q))
      BY <2>1, <2>5, <2>6
    <2>8. /\ Once(r) /\ Queued(r) \subseteq Queued(q) /\ Len(r) <= Len(q)
          /\ \A i \in DOMAIN q : i >= m => q[i].job \in Queued(r)
      BY <2>7, SuffixOfQueue
    <2>9. \A i \in DOMAIN q : q[i].job \notin suppressed => i >= m
      BY <1>1, <2>3, <2>4, <2>5
    <2>10. Queued(q) \ suppressed \subseteq Queued(r)
      BY <2>8, <2>9 DEF Queued
    <2> QED  BY <2>6, <2>8, <2>10
  <1> QED  BY <1>2, <1>3

\* The head is taken off: its job is not in the queue any more, the others are.
LEMMA TailQueue ==
    ASSUME NEW q, Once(q), q # <<>>
    PROVE  /\ Once(Tail(q)) /\ Len(Tail(q)) = Len(q) - 1
           /\ Queued(Tail(q)) = Queued(q) \ {Head(q).job}
  <1>1. /\ q \in Seq(Deliveries) /\ DOMAIN q = 1..Len(q) /\ Len(q) \in Nat /\ Len(q) >= 1
        /\ Head(q) = q[1]
    BY DEF Once
  <1>2. PICK r : r = Tail(q)
    OBVIOUS
  <1>3. /\ r \in Seq(Deliveries) /\ Len(r) = Len(q) - 1 /\ DOMAIN r = 1..Len(r)
        /\ \A i \in 1..Len(r) : r[i] = q[i + 1]
    BY <1>1, <1>2
  <1> DEFINE f == [i \in DOMAIN r |-> i + 1]
  <1>4. Picks(f, r, q)
    BY <1>1, <1>3 DEF Picks
  <1>5. Once(r) /\ Queued(r) \subseteq Queued(q)
    BY <1>3, <1>4, PartOfQueue
  <1>6. Head(q).job \notin Queued(r)
    <2> SUFFICES ASSUME NEW i \in DOMAIN r, r[i].job = q[1].job PROVE FALSE
      BY <1>1 DEF Queued
    <2>1. i + 1 \in DOMAIN q /\ 1 \in DOMAIN q /\ q[i + 1].job = q[1].job
      BY <1>1, <1>3
    <2>2. i + 1 = 1
      BY <2>1 DEF Once
    <2> QED  BY <1>3, <2>2
  <1>7. ASSUME NEW i \in DOMAIN q, i # 1 PROVE q[i].job \in Queued(r)
    <2>1. PICK k \in DOMAIN r : k = i - 1
      BY <1>1, <1>3, <1>7
    <2>2. r[k] = q[i]
      BY <1>1, <1>3, <2>1
    <2> QED  BY <2>2 DEF Queued
  <1>8. Queued(q) \ {Head(q).job} \subseteq Queued(r)
    BY <1>1, <1>7 DEF Queued
  <1> QED  BY <1>2, <1>3, <1>5, <1>6, <1>8

\* A delivery of a job that is not in the queue is added to it.
LEMMA PushQueue ==
    ASSUME NEW q, Once(q), NEW d \in Deliveries, d.job \notin Queued(q), NEW r, r = Append(q, d)
    PROVE  /\ Once(r) /\ Len(r) = Len(q) + 1
           /\ Queued(r) = Queued(q) \cup {d.job}
           /\ \A j : j # d.job /\ InFront(q, j) => InFront(r, j)
  <1>1. q \in Seq(Deliveries) /\ DOMAIN q = 1..Len(q) /\ Len(q) \in Nat
    BY DEF Once
  <1>2. /\ r \in Seq(Deliveries) /\ Len(r) = Len(q) + 1 /\ DOMAIN r = 1..Len(r)
        /\ \A i \in 1..Len(q) : r[i] = q[i]
        /\ r[Len(r)] = d /\ Len(r) \in 1..Len(r)
    BY <1>1
  <1>3. \A i \in DOMAIN r : (i \in DOMAIN q /\ r[i] = q[i] /\ r[i].job # d.job) \/ (i = Len(r) /\ r[i] = d)
    BY <1>1, <1>2 DEF Queued
  <1>4. \A i \in DOMAIN q : i \in DOMAIN r /\ r[i] = q[i]
    BY <1>1, <1>2
  <1>5. Once(r)
    <2> SUFFICES ASSUME NEW i \in DOMAIN r, NEW k \in DOMAIN r, r[i].job = r[k].job
                 PROVE  i = k
      BY <1>2 DEF Once
    <2> QED  BY <1>3 DEF Once
  <1>6. Queued(r) = Queued(q) \cup {d.job}
    BY <1>2, <1>3, <1>4 DEF Queued
  <1>7. \A j : j # d.job /\ InFront(q, j) => InFront(r, j)
    BY <1>3 DEF InFront
  <1> QED  BY <1>2, <1>5, <1>6, <1>7

\* A queue that has grown by one is cut to its limit: it loses one delivery at most.
LEMMA CappedQueue ==
    ASSUME NEW q, Once(q), Len(q) <= MaxPending + 1
    PROVE  /\ Once(Capped(q)) /\ Len(Capped(q)) <= MaxPending
           /\ Queued(Capped(q)) = Queued(q) \ Overflow(q)
           /\ Overflow(q) \subseteq Jobs
           /\ \A j : InFront(q, j) => InFront(Capped(q), j)
  <1>1. /\ q \in Seq(Deliveries) /\ DOMAIN q = 1..Len(q) /\ Len(q) \in Nat
        /\ MaxPending \in Nat /\ MaxPending >= 1
    BY LimitsAssumption DEF Once
  <1>2. /\ Once(Capped(q)) /\ Queued(Capped(q)) = Queued(q) \ Overflow(q)
        /\ Len(Capped(q)) <= Len(q)
        /\ Queued(q) \cap Overflow(q) # {} => Len(Capped(q)) < Len(q)
        /\ \A j : InFront(q, j) => InFront(Capped(q), j)
    BY WithoutQueue DEF Capped
  <1>3. Len(Capped(q)) \in Nat
    BY <1>2 DEF Once
  <1>4. CASE Len(q) <= MaxPending
    <2>1. Overflow(q) = {}
      BY <1>4 DEF Overflow
    <2> QED  BY <1>1, <1>2, <1>3, <1>4, <2>1
  <1>5. CASE ~ (Len(q) <= MaxPending)
    <2>1. PICK i \in {1, 2} : Overflow(q) = {q[i].job}
      BY <1>5 DEF Overflow
    <2>2. i \in DOMAIN q /\ q[i] \in Deliveries
      BY <1>1, <1>5
    <2>3. q[i].job \in Queued(q) /\ q[i].job \in Jobs
      BY <2>2 DEF Queued, Deliveries
    <2>4. Queued(q) \cap Overflow(q) # {}
      BY <2>1, <2>3
    <2>5. Len(Capped(q)) < Len(q)
      BY <1>2, <2>4
    <2>6. Len(Capped(q)) <= MaxPending
      BY <1>1, <1>3, <2>5
    <2> QED  BY <1>2, <2>1, <2>3, <2>6
  <1> QED  BY <1>4, <1>5

\* A turn of the loop takes up the head of the queue, or comes to its end.
LEMMA PumpTakes ==
    ASSUME NEW q, Once(q), Pump(q)
    PROVE  /\ loop' \in {"off", "sleeping", "calling", "ending"}
           /\ held' = Nobody <=> loop' \in {"off", "ending"}
           /\ held' # Nobody => held' \in Jobs /\ held' \in Queued(q) /\ InFront(q, held')
  <1>1. CASE q = <<>>
    BY <1>1 DEF Pump
  <1>2. CASE q # <<>>
    <2>1. /\ q \in Seq(Deliveries) /\ 1 \in DOMAIN q /\ Head(q) = q[1] /\ q[1] \in Deliveries
      BY <1>2 DEF Once
    <2>2. held' = q[1].job /\ loop' \in {"sleeping", "calling"}
      BY <1>2, <2>1 DEF Pump
    <2>3. held' \in Jobs /\ held' # Nobody /\ held' \in Queued(q)
      BY <2>1, <2>2, LimitsAssumption DEF Deliveries, Queued
    <2>4. InFront(q, held')
      BY <2>1, <2>2 DEF Once, InFront
    <2> QED  BY <2>2, <2>3, <2>4
  <1> QED  BY <1>1, <1>2

-----------------------------------------------------------------------------
(***************************************************************************)
(* The store.  A job that runs is known, and the manager is not disposed   *)
(* of; one with a timer or a settled run has been registered; those kept   *)
(* as finished, or with an eviction timer, have an outcome.                *)
(***************************************************************************)
StoreTypes ==
    /\ StatusType
    /\ race \in [Jobs -> {"open", "ok", "error", "settled"}]
    /\ watchdog \in [Jobs -> {"off", "armed", "grace"}]
    /\ known \in SUBSET Jobs /\ IsFiniteSet(known) /\ evicting \in SUBSET Jobs
    /\ suppressed \in SUBSET Jobs /\ awaited \in SUBSET Jobs
    /\ disposal \in {"no", "waiting", "draining", "done"}

Registered ==
    \A j \in Jobs :
        /\ status[j] = "running" => j \in known /\ disposal = "no"
        /\ j \in known \/ race[j] # "open" \/ watchdog[j] # "off" => status[j] # "unused"
        /\ j \in evicting => status[j] \in Outcomes

\* A list of finished jobs, of those that are known.
Finished(list, jobs, st) ==
    /\ list \in Seq(Jobs)
    /\ \A i \in DOMAIN list : list[i] \in jobs /\ st[list[i]] \in Outcomes

StoreInv ==
    /\ StoreTypes /\ Registered
    /\ Finished(finished, known, status) /\ Len(finished) <= MaxRetained

\* What is left of a list when the jobs in gone are taken out: no more than the store may
\* keep, if they are all but the last ones.
Cut(rest, list, gone) ==
    /\ rest \in Seq(Jobs) /\ Len(rest) <= Len(list)
    /\ \A i \in DOMAIN rest : rest[i] \notin gone /\ \E k \in DOMAIN list : rest[i] = list[k]
    /\ (\A i \in DOMAIN list : i <= Len(list) - MaxRetained => list[i] \in gone)
         => Len(rest) <= MaxRetained

LEMMA ListWithout ==
    ASSUME NEW list \in Seq(Jobs), NEW gone, NEW rest,
           NEW places \in SUBSET (1..Len(list)),
           \A i \in DOMAIN list : i \in places <=> list[i] \notin gone,
           rest = Remaining(list, places)
    PROVE  Cut(rest, list, gone)
  <1>1. DOMAIN list = 1..Len(list) /\ Len(list) \in Nat
    OBVIOUS
  <1>2. places \in SUBSET (1..Len(list)) /\ rest = Remaining(list, places)
    OBVIOUS
  <1>3. \A i \in DOMAIN list : i \in places <=> list[i] \notin gone
    OBVIOUS
  <1>4. rest \in Seq(Jobs) /\ Len(rest) = Cardinality(places)
    BY <1>1, <1>2, RemainingPicks
  <1>5. PICK f : Picks(f, rest, list) /\ \A i \in 1..Cardinality(places) : f[i] \in places
    <2>1. PICK f : /\ Picks(f, Remaining(list, places), list)
                   /\ \A i \in 1..Cardinality(places) : f[i] \in places
                   /\ \A m \in places : \E i \in 1..Cardinality(places) : f[i] = m
      BY <1>2, RemainingPicks
    <2>2. Picks(f, rest, list)
      BY <1>2, <2>1
    <2> QED  BY <2>1, <2>2
  <1>6. DOMAIN rest = 1..Cardinality(places)
    BY <1>4
  <1>7. \A i \in DOMAIN rest : rest[i] \notin gone /\ \E k \in DOMAIN list : rest[i] = list[k]
    <2> SUFFICES ASSUME NEW i \in DOMAIN rest
                 PROVE  rest[i] \notin gone /\ \E k \in DOMAIN list : rest[i] = list[k]
      OBVIOUS
    <2>1. f[i] \in places /\ f[i] \in DOMAIN list /\ rest[i] = list[f[i]]
      BY <1>5, <1>6 DEF Picks
    <2> QED  BY <1>3, <2>1
  <1>8. Cardinality(places) \in Nat /\ Cardinality(places) <= Len(list)
    BY <1>1, <1>2, PlacesFinite
  <1>9. ASSUME \A i \in DOMAIN list : i <= Len(list) - MaxRetained => list[i] \in gone
        PROVE  Len(rest) <= MaxRetained
    <2>0. MaxRetained \in Nat
      BY LimitsAssumption
    <2>1. PICK a \in Int : a = Len(list) - MaxRetained + 1
      <3>1. Len(list) - MaxRetained + 1 \in Int
        BY <1>1, <2>0
      <3> QED  BY <3>1
    <2>2. places \in SUBSET (a..Len(list))
      <3> SUFFICES ASSUME NEW i \in places, i < a PROVE FALSE
        BY <1>1, <1>2, <2>1
      <3>1. i \in DOMAIN list /\ i <= Len(list) - MaxRetained
        BY <1>1, <2>0, <2>1
      <3> QED  BY <1>3, <1>9, <3>1
    <2>3. IsFiniteSet(a..Len(list))
          /\ Cardinality(a..Len(list)) = IF a > Len(list) THEN 0 ELSE Len(list) - a + 1
      BY <1>1, FS_Interval
    <2>4. Cardinality(places) <= Cardinality(a..Len(list))
      BY <2>2, <2>3, FS_Subset
    <2> QED  BY <1>1, <1>4, <1>8, <2>0, <2>1, <2>3, <2>4
  <1> QED  BY <1>4, <1>7, <1>8, <1>9 DEF Cut

\* The jobs over the limit are among those that have finished.
LEMMA ExcessIs ==
    ASSUME NEW list \in Seq(Jobs)
    PROVE  /\ \A g \in Excess(list) : \E i \in DOMAIN list : g = list[i]
           /\ \A i \in DOMAIN list : i <= Len(list) - MaxRetained => list[i] \in Excess(list)
           /\ Excess(list) \in SUBSET Jobs
  <1>1. Len(list) \in Nat /\ DOMAIN list = 1..Len(list) /\ MaxRetained \in Nat
    BY LimitsAssumption
  <1>2. \A i \in 1..(Len(list) - MaxRetained) : i \in DOMAIN list /\ list[i] \in Jobs
    BY <1>1
  <1>3. \A i \in DOMAIN list : i <= Len(list) - MaxRetained => i \in 1..(Len(list) - MaxRetained)
    BY <1>1
  <1> QED  BY <1>2, <1>3 DEF Excess

(***************************************************************************)
(* Jobs are forgotten, none of which runs, on top of what the step makes   *)
(* of the lists.                                                           *)
(***************************************************************************)
LEMMA ForgetKeepsStore ==
    ASSUME StoreTypes, StatusType', \A j \in Jobs : status[j] # "unused" => status'[j] # "unused",
           NEW gone \in SUBSET Jobs, \A g \in gone : status'[g] # "running",
           NEW ended, Finished(ended, known, status'),
           NEW timers \in SUBSET Jobs, \A j \in timers : status'[j] \in Outcomes,
           NEW q, NEW dogs \in [Jobs -> {"off", "armed", "grace"}],
           \A j \in Jobs : dogs[j] # "off" => status'[j] # "unused",
           race' \in [Jobs -> {"open", "ok", "error", "settled"}],
           \A j \in Jobs : race'[j] # "open" => status'[j] # "unused",
           \A j \in known : status'[j] # "unused",
           \A j \in Jobs : status'[j] = "running" => j \in known /\ disposal' = "no",
           awaited' \in SUBSET Jobs, disposal' \in {"no", "waiting", "draining", "done"},
           Forget(gone, ended, timers, q, dogs),
           \/ Len(ended) <= MaxRetained
           \/ gone = Excess(ended)
    PROVE  StoreInv'
  <1>1. /\ known' = known \ gone /\ evicting' = timers \ gone /\ suppressed' = suppressed \ gone
        /\ finished' = Remaining(ended, {i \in DOMAIN ended : ended[i] \notin gone})
        /\ watchdog' = [j \in Jobs |-> IF j \in gone THEN "off" ELSE dogs[j]]
    BY DEF Forget
  <1>2. StoreTypes'
    <2>1. IsFiniteSet(known')
      BY <1>1, FS_Difference DEF StoreTypes
    <2> QED  BY <1>1, <2>1 DEF StoreTypes
  <1>3. Registered'
    BY <1>1 DEF Registered, StoreTypes
  <1>4. ended \in Seq(Jobs) /\ \A i \in DOMAIN ended : ended[i] \in known /\ status'[ended[i]] \in Outcomes
    BY DEF Finished
  <1>5. /\ finished' \in Seq(Jobs) /\ Len(finished') <= Len(ended)
        /\ \A i \in DOMAIN finished' :
              finished'[i] \notin gone /\ \E k \in DOMAIN ended : finished'[i] = ended[k]
        /\ (\A i \in DOMAIN ended : i <= Len(ended) - MaxRetained => ended[i] \in gone)
             => Len(finished') <= MaxRetained
    <2>1. PICK rest : rest = finished'
      OBVIOUS
    <2>2. PICK places \in SUBSET (1..Len(ended)) :
              /\ \A i \in DOMAIN ended : i \in places <=> ended[i] \notin gone
              /\ rest = Remaining(ended, places)
      <3> DEFINE S == {i \in DOMAIN ended : ended[i] \notin gone}
      <3>1. S \in SUBSET (1..Len(ended)) /\ \A i \in DOMAIN ended : i \in S <=> ended[i] \notin gone
        BY <1>4
      <3>2. rest = Remaining(ended, S)
        BY <1>1, <2>1
      <3> HIDE DEF S
      <3> QED  BY <3>1, <3>2
    <2>3. Cut(rest, ended, gone)
      BY <1>4, <2>2, ListWithout
    <2> QED  BY <2>1, <2>3 DEF Cut
  <1>6. Finished(finished', known', status')
    BY <1>1, <1>4, <1>5 DEF Finished
  <1>7. Len(finished') <= MaxRetained
    <2>1. MaxRetained \in Nat /\ Len(ended) \in Nat /\ Len(finished') \in Nat
      BY <1>4, <1>5, LimitsAssumption
    <2>2. CASE Len(ended) <= MaxRetained
      BY <1>5, <2>1, <2>2
    <2>3. CASE gone = Excess(ended)
      BY <1>4, <1>5, <2>1, <2>3, ExcessIs
    <2> QED  BY <2>2, <2>3
  <1> QED  BY <1>2, <1>3, <1>6, <1>7 DEF StoreInv

\* The same when the store is pruned.
LEMMA RetainKeepsStore ==
    ASSUME StoreTypes, StatusType', \A j \in Jobs : status[j] # "unused" => status'[j] # "unused",
           NEW ended, Finished(ended, known, status'),
           NEW timers \in SUBSET Jobs, \A j \in timers : status'[j] \in Outcomes,
           NEW q, NEW dogs \in [Jobs -> {"off", "armed", "grace"}],
           \A j \in Jobs : dogs[j] # "off" => status'[j] # "unused",
           race' \in [Jobs -> {"open", "ok", "error", "settled"}],
           \A j \in Jobs : race'[j] # "open" => status'[j] # "unused",
           \A j \in known : status'[j] # "unused",
           \A j \in Jobs : status'[j] = "running" => j \in known /\ disposal' = "no",
           awaited' \in SUBSET Jobs, disposal' \in {"no", "waiting", "draining", "done"},
           Retain(ended, timers, q, dogs)
    PROVE  StoreInv'
  <1>1. ended \in Seq(Jobs) /\ \A i \in DOMAIN ended : status'[ended[i]] \in Outcomes
    BY DEF Finished
  <1>2. PICK gone \in SUBSET Jobs : gone = Excess(ended)
    BY <1>1, ExcessIs
  <1>3. \A g \in gone : status'[g] # "running"
    BY <1>1, <1>2, ExcessIs DEF Outcomes
  <1>4. Forget(gone, ended, timers, q, dogs)
    BY <1>2 DEF Retain
  <1> QED  BY <1>2, <1>3, <1>4, ForgetKeepsStore

\* A job that ends is added to those that have finished.
LEMMA FinishedGrows ==
    ASSUME Finished(finished, known, status), StatusType, StatusType', Kept, known \in SUBSET Jobs,
           NEW j \in known, status'[j] \in Outcomes
    PROVE  Finished(Append(finished, j), known, status')
  <1>1. finished \in Seq(Jobs) /\ j \in Jobs
    BY DEF Finished
  <1>2. PICK longer : longer = Append(finished, j)
    OBVIOUS
  <1>3. /\ longer \in Seq(Jobs)
        /\ \A i \in DOMAIN longer : longer[i] = j \/ (i \in DOMAIN finished /\ longer[i] = finished[i])
    BY <1>1, <1>2
  <1>4. \A i \in DOMAIN finished : finished[i] \in known /\ status'[finished[i]] \in Outcomes
    BY DEF Finished, Kept
  <1> QED  BY <1>2, <1>3, <1>4 DEF Finished

LEMMA FinishedStays ==
    ASSUME Finished(finished, known, status), Kept, known \in SUBSET Jobs
    PROVE  Finished(finished, known, status')
  BY DEF Finished, Kept

LEMMA EndStore ==
    ASSUME StoreInv, NEW j \in Jobs, NEW outcome \in Outcomes,
           status[j] = "running", End(j, outcome), UNCHANGED disposalVars,
           race' \in [Jobs -> {"open", "ok", "error", "settled"}],
           \A i \in Jobs : i # j => race'[i] = race[i]
    PROVE  StoreInv'
  <1>1. StatusType' /\ Kept
    BY EndIsFirst DEF StoreInv, StoreTypes
  <1>2. /\ status \in [Jobs -> {"unused", "running"} \cup Outcomes]
        /\ status' = [status EXCEPT ![j] = outcome]
    BY DEF End, StoreInv, StoreTypes, StatusType
  <1>3. \A i \in Jobs : status'[i] = IF i = j THEN outcome ELSE status[i]
    BY <1>2
  <1>4. outcome # "unused" /\ outcome # "running"
    BY DEF Outcomes
  <1>5. j \in known
    BY DEF StoreInv, Registered
  <1> DEFINE ended == Append(finished, j)
             timers == evicting \cup {j}
             dogs == [watchdog EXCEPT ![j] = "off"]
  <1>6. \E q : Retain(ended, timers, q, dogs)
    BY DEF End
  <1>7. Finished(ended, known, status')
    BY <1>1, <1>3, <1>5, FinishedGrows DEF StoreInv, StoreTypes
  <1>8. timers \in SUBSET Jobs /\ \A i \in timers : status'[i] \in Outcomes
    BY <1>3 DEF StoreInv, StoreTypes, Registered
  <1>9. /\ dogs \in [Jobs -> {"off", "armed", "grace"}]
        /\ \A i \in Jobs : dogs[i] # "off" => status'[i] # "unused"
    BY <1>3, <1>4 DEF StoreInv, StoreTypes, Registered
  <1>10. \A i \in Jobs : /\ status[i] # "unused" => status'[i] # "unused"
                         /\ race'[i] # "open" => status'[i] # "unused"
                         /\ i \in known => status'[i] # "unused"
                         /\ status'[i] = "running" => i \in known /\ disposal = "no"
    BY <1>3, <1>4 DEF StoreInv, StoreTypes, Registered
  <1>11. /\ awaited' \in SUBSET Jobs /\ disposal' \in {"no", "waiting", "draining", "done"}
         /\ disposal' = disposal /\ known \in SUBSET Jobs
    BY DEF StoreInv, StoreTypes, disposalVars
  <1> HIDE DEF ended, timers, dogs
  <1> QED  BY <1>1, <1>6, <1>7, <1>8, <1>9, <1>10, <1>11, RetainKeepsStore DEF StoreInv

LEMMA SettleStore ==
    ASSUME StoreInv, NEW j \in Jobs, Settle(j)
    PROVE  StoreInv'
  <1>1. /\ race' = [race EXCEPT ![j] = "settled"] /\ race[j] # "open"
        /\ UNCHANGED disposalVars
    BY DEF Settle
  <1>2. /\ race' \in [Jobs -> {"open", "ok", "error", "settled"}]
        /\ \A i \in Jobs : i # j => race'[i] = race[i]
    BY <1>1 DEF StoreInv, StoreTypes
  <1>3. CASE Undecided(j)
    <2>1. PICK outcome \in Outcomes : End(j, outcome)
      BY <1>3 DEF Settle, Outcomes
    <2> QED  BY <1>1, <1>2, <1>3, <2>1, EndStore DEF Undecided
  <1>4. CASE ~Undecided(j)
    <2> DEFINE timers == evicting \cup {j}
               dogs == [watchdog EXCEPT ![j] = "off"]
    <2>1. Retain(finished, timers, queue, dogs) /\ UNCHANGED status
      BY <1>4 DEF Settle
    <2>2. status[j] \in Outcomes
      BY <1>1, <1>4 DEF StoreInv, StoreTypes, StatusType, Registered, Undecided
    <2>3. timers \in SUBSET Jobs /\ \A i \in timers : status'[i] \in Outcomes
      BY <2>1, <2>2 DEF StoreInv, StoreTypes, Registered
    <2>4. /\ dogs \in [Jobs -> {"off", "armed", "grace"}]
          /\ \A i \in Jobs : dogs[i] # "off" => status'[i] # "unused"
      BY <2>1 DEF StoreInv, StoreTypes, Registered
    <2>5. /\ StatusType' /\ Finished(finished, known, status') /\ known \in SUBSET Jobs
          /\ awaited' \in SUBSET Jobs /\ disposal' \in {"no", "waiting", "draining", "done"}
          /\ disposal' = disposal
      BY <1>1, <2>1 DEF StoreInv, StoreTypes, StatusType, disposalVars
    <2>6. \A i \in Jobs : /\ status[i] # "unused" => status'[i] # "unused"
                          /\ race'[i] # "open" => status'[i] # "unused"
                          /\ i \in known => status'[i] # "unused"
                          /\ status'[i] = "running" => i \in known /\ disposal = "no"
      BY <1>1, <1>2, <2>1, <2>2 DEF StoreInv, StoreTypes, Registered
    <2> HIDE DEF timers, dogs
    <2> QED  BY <1>2, <2>1, <2>3, <2>4, <2>5, <2>6, RetainKeepsStore DEF StoreInv
  <1> QED  BY <1>3, <1>4

LEMMA EvictStore ==
    ASSUME StoreInv, NEW j \in Jobs, Evict(j)
    PROVE  StoreInv'
  <1>1. PICK gone \in SUBSET Jobs : gone = {j}
    OBVIOUS
  <1>2. Forget(gone, finished, evicting, queue, watchdog)
    BY <1>1 DEF Evict
  <1>3. UNCHANGED <<status, race, disposal, awaited>>
    BY DEF Evict, disposalVars
  <1>4. \A g \in gone : status'[g] # "running"
    BY <1>1, <1>3 DEF Evict, StoreInv, Registered, Outcomes
  <1>5. /\ StatusType' /\ Finished(finished, known, status')
        /\ known \in SUBSET Jobs /\ evicting \in SUBSET Jobs
        /\ watchdog \in [Jobs -> {"off", "armed", "grace"}]
        /\ race' \in [Jobs -> {"open", "ok", "error", "settled"}]
        /\ awaited' \in SUBSET Jobs /\ disposal' \in {"no", "waiting", "draining", "done"}
    BY <1>3 DEF StoreInv, StoreTypes, StatusType
  <1>6. \A i \in Jobs : /\ status[i] # "unused" => status'[i] # "unused"
                        /\ race'[i] # "open" => status'[i] # "unused"
                        /\ watchdog[i] # "off" => status'[i] # "unused"
                        /\ i \in known => status'[i] # "unused"
                        /\ i \in evicting => status'[i] \in Outcomes
                        /\ status'[i] = "running" => i \in known /\ disposal' = "no"
    BY <1>3 DEF StoreInv, StoreTypes, Registered
  <1> QED  BY <1>2, <1>4, <1>5, <1>6, ForgetKeepsStore DEF StoreInv

LEMMA CancelStore ==
    ASSUME StoreInv, NEW j \in Jobs, Cancel(j)
    PROVE  StoreInv'
  <1> DEFINE ended == Append(finished, j)
             timers == evicting \cup {j}
  <1>1. /\ Retain(ended, timers, queue, watchdog) /\ UNCHANGED <<race, disposal, awaited>>
        /\ j \in known /\ status[j] = "running"
    BY DEF Cancel, Running, disposalVars
  <1>2. /\ status \in [Jobs -> {"unused", "running"} \cup Outcomes]
        /\ status' = [status EXCEPT ![j] = "cancelled"]
    BY DEF Cancel, StoreInv, StoreTypes, StatusType
  <1>3. \A i \in Jobs : status'[i] = IF i = j THEN "cancelled" ELSE status[i]
    BY <1>2
  <1>4. StatusType' /\ Kept
    BY <1>1, <1>2 DEF StatusType, Kept, Outcomes
  <1>5. status'[j] \in Outcomes
    BY <1>3 DEF Outcomes
  <1>6. Finished(ended, known, status')
    BY <1>1, <1>4, <1>5, FinishedGrows DEF StoreInv, StoreTypes
  <1>7. timers \in SUBSET Jobs /\ \A i \in timers : status'[i] \in Outcomes
    BY <1>3, <1>5 DEF StoreInv, StoreTypes, Registered
  <1>8. /\ watchdog \in [Jobs -> {"off", "armed", "grace"}]
        /\ race' \in [Jobs -> {"open", "ok", "error", "settled"}]
        /\ awaited' \in SUBSET Jobs /\ disposal' \in {"no", "waiting", "draining", "done"}
        /\ known \in SUBSET Jobs
    BY <1>1 DEF StoreInv, StoreTypes
  <1>9. \A i \in Jobs : /\ status[i] # "unused" => status'[i] # "unused"
                        /\ race'[i] # "open" => status'[i] # "unused"
                        /\ watchdog[i] # "off" => status'[i] # "unused"
                        /\ i \in known => status'[i] # "unused"
                        /\ status'[i] = "running" => i \in known /\ disposal' = "no"
    BY <1>1, <1>3 DEF StoreInv, StoreTypes, Registered
  <1> HIDE DEF ended, timers
  <1> QED  BY <1>1, <1>4, <1>6, <1>7, <1>8, <1>9, RetainKeepsStore DEF StoreInv

\* Jobs that end together are added in some order.
LEMMA OrderOf ==
    ASSUME NEW S \in SUBSET Jobs, IsFiniteSet(S), NEW order \in SetToSeqs(S)
    PROVE  order \in Seq(Jobs) /\ \A i \in DOMAIN order : order[i] \in S
  <1>1. Cardinality(S) \in Nat
    BY FS_CardinalityType
  <1>2. order \in [1..Cardinality(S) -> S]
    BY DEF SetToSeqs
  <1> QED  BY <1>1, <1>2

LEMMA CancelRunningStore ==
    ASSUME StoreInv, NEW timers \in SUBSET evicting, CancelRunning(timers),
           awaited' \in SUBSET Jobs, disposal' \in {"no", "waiting", "draining", "done"}
    PROVE  StoreInv'
  <1>1. UNCHANGED race /\ Running \in SUBSET known
    BY DEF CancelRunning, Running
  <1>2. StatusType' /\ Kept
    BY CancelRunningIsFirst DEF StoreInv, StoreTypes
  <1>3. \A i \in Jobs : status'[i] = IF i \in Running THEN "cancelled" ELSE status[i]
    BY DEF CancelRunning
  <1>4. known \in SUBSET Jobs /\ IsFiniteSet(known)
    BY DEF StoreInv, StoreTypes
  <1>5. Running \in SUBSET Jobs /\ IsFiniteSet(Running)
    BY <1>1, <1>4, FS_Subset
  <1>6. PICK order \in SetToSeqs(Running) :
            Retain(finished \o order, timers \cup Running, queue, [j \in Jobs |-> "off"])
    BY DEF CancelRunning
  <1>7. order \in Seq(Jobs) /\ \A i \in DOMAIN order : order[i] \in Running
    BY <1>5, <1>6, OrderOf
  <1>8. \A i \in Running : i \in known /\ status'[i] \in Outcomes
    BY <1>1, <1>3, <1>5 DEF Outcomes
  <1> DEFINE ended == finished \o order
             expiring == timers \cup Running
             dogs == [j \in Jobs |-> "off"]
  <1>9. Finished(ended, known, status')
    <2>1. finished \in Seq(Jobs) /\ \A i \in DOMAIN finished : finished[i] \in known /\ status'[finished[i]] \in Outcomes
      BY <1>2, <1>4, FinishedStays DEF Finished, StoreInv
    <2>2. PICK longer : longer = finished \o order
      OBVIOUS
    <2>3. /\ longer \in Seq(Jobs)
          /\ \A i \in DOMAIN longer : \/ i \in DOMAIN finished /\ longer[i] = finished[i]
                                      \/ /\ i - Len(finished) \in DOMAIN order
                                         /\ longer[i] = order[i - Len(finished)]
      BY <1>7, <2>1, <2>2
    <2>4. \A i \in DOMAIN longer : longer[i] \in known /\ status'[longer[i]] \in Outcomes
      BY <1>7, <1>8, <2>1, <2>3
    <2> QED  BY <2>2, <2>3, <2>4 DEF Finished
  <1>10. expiring \in SUBSET Jobs /\ \A i \in expiring : status'[i] \in Outcomes
    BY <1>3, <1>5, <1>8 DEF StoreInv, StoreTypes, Registered
  <1>11. /\ dogs \in [Jobs -> {"off", "armed", "grace"}]
         /\ \A i \in Jobs : dogs[i] # "off" => status'[i] # "unused"
    OBVIOUS
  <1>12. race' \in [Jobs -> {"open", "ok", "error", "settled"}]
    BY <1>1 DEF StoreInv, StoreTypes
  <1>13. \A i \in Jobs : /\ status[i] # "unused" => status'[i] # "unused"
                         /\ race'[i] # "open" => status'[i] # "unused"
                         /\ i \in known => status'[i] # "unused"
                         /\ status'[i] # "running"
    BY <1>1, <1>3 DEF StoreInv, StoreTypes, Registered, Running
  <1>14. Retain(ended, expiring, queue, dogs)
    BY <1>6
  <1> HIDE DEF ended, expiring, dogs
  <1> QED  BY <1>2, <1>4, <1>9, <1>10, <1>11, <1>12, <1>13, <1>14, RetainKeepsStore DEF StoreInv

LEMMA RegisterStore ==
    ASSUME StoreInv, NEW j \in Jobs, Register(j)
    PROVE  StoreInv'
  <1>1. /\ status[j] = "unused" /\ disposal = "no"
        /\ status' = [status EXCEPT ![j] = "running"]
        /\ known' = known \cup {j} /\ suppressed' = suppressed \ {j}
        /\ \E dog \in {"armed", "off"} : watchdog' = [watchdog EXCEPT ![j] = dog]
        /\ UNCHANGED <<race, finished, evicting, disposal, awaited>>
    BY DEF Register, disposalVars
  <1>2. /\ status \in [Jobs -> {"unused", "running"} \cup Outcomes]
        /\ watchdog \in [Jobs -> {"off", "armed", "grace"}]
    BY DEF StoreInv, StoreTypes, StatusType
  <1>3. \A i \in Jobs : /\ status'[i] = IF i = j THEN "running" ELSE status[i]
                        /\ i # j => watchdog'[i] = watchdog[i]
    BY <1>1, <1>2
  <1>4. StatusType' /\ watchdog' \in [Jobs -> {"off", "armed", "grace"}]
    BY <1>1, <1>2 DEF StatusType
  <1>5. StoreTypes'
    <2>1. IsFiniteSet(known')
      BY <1>1, FS_AddElement DEF StoreInv, StoreTypes
    <2> QED  BY <1>1, <1>4, <2>1 DEF StoreInv, StoreTypes
  <1>6. Registered'
    <2> SUFFICES ASSUME NEW i \in Jobs
                 PROVE  /\ status'[i] = "running" => i \in known' /\ disposal' = "no"
                        /\ i \in known' \/ race'[i] # "open" \/ watchdog'[i] # "off"
                              => status'[i] # "unused"
                        /\ i \in evicting' => status'[i] \in Outcomes
      BY DEF Registered
    <2>1. CASE i = j
      <3>1. i \notin evicting
        BY <1>1, <2>1 DEF StoreInv, Registered, Outcomes
      <3> QED  BY <1>1, <1>3, <2>1, <3>1
    <2>2. CASE i # j
      BY <1>1, <1>3, <2>2 DEF StoreInv, Registered
    <2> QED  BY <2>1, <2>2
  <1>7. Finished(finished', known', status')
    <2>1. finished \in Seq(Jobs) /\ \A i \in DOMAIN finished : finished[i] \in known /\ status[finished[i]] \in Outcomes
      BY DEF StoreInv, Finished
    <2>2. \A i \in DOMAIN finished : finished[i] \in Jobs /\ finished[i] # j
      BY <1>1, <2>1 DEF Outcomes
    <2> QED  BY <1>1, <1>3, <2>1, <2>2 DEF Finished
  <1> QED  BY <1>1, <1>5, <1>6, <1>7 DEF StoreInv

\* The steps that touch no list.
LEMMA RaceStore ==
    ASSUME StoreInv, NEW j \in Jobs,
           \/ Finish(j) \/ Fire(j)
           \/ GraceEnds(j) /\ j \notin Running
    PROVE  StoreInv'
  <1>1. UNCHANGED <<status, known, finished, evicting, suppressed, awaited, disposal>>
    BY DEF Finish, Fire, GraceEnds, storeVars, deliveryVars, disposalVars
  <1>2. /\ race' \in [Jobs -> {"open", "ok", "error", "settled"}]
        /\ \A i \in Jobs : i # j => race'[i] = race[i]
        /\ watchdog' \in [Jobs -> {"off", "armed", "grace"}]
        /\ \A i \in Jobs : watchdog'[i] # "off" => watchdog[i] # "off"
        /\ status[j] # "unused"
    <2>1. CASE Finish(j)
      BY <2>1 DEF Finish, StoreInv, StoreTypes
    <2>2. CASE Fire(j)
      BY <2>2 DEF Fire, AfterAlarm, StoreInv, StoreTypes, Registered
    <2>3. CASE GraceEnds(j) /\ j \notin Running
      BY <2>3 DEF GraceEnds, StoreInv, StoreTypes, Registered
    <2> QED  BY <2>1, <2>2, <2>3
  <1>3. StoreTypes'
    BY <1>1, <1>2 DEF StoreInv, StoreTypes, StatusType
  <1>4. Registered'
    BY <1>1, <1>2 DEF StoreInv, Registered
  <1> QED  BY <1>1, <1>3, <1>4 DEF StoreInv, Finished

\* The steps that concern deliveries, or the end of the manager.
LEMMA DeliveryStore ==
    ASSUME StoreInv, UNCHANGED <<jobVars, storeVars>>,
           suppressed' \in SUBSET Jobs, UNCHANGED awaited,
           \/ UNCHANGED disposal
           \/ disposal = "waiting" /\ disposal' = "draining"
    PROVE  StoreInv'
  BY DEF StoreInv, StoreTypes, StatusType, Registered, Finished, jobVars, storeVars

LEMMA DrainedStore ==
    ASSUME StoreInv, DisposeDrained
    PROVE  StoreInv'
  <1>1. /\ known' = {} /\ finished' = <<>> /\ evicting' = {} /\ suppressed' = {}
        /\ disposal = "draining" /\ disposal' = "done"
        /\ UNCHANGED <<status, race, watchdog, awaited>>
    BY DEF DisposeDrained, DrainOver, jobVars
  <1>2. IsFiniteSet(known')
    BY <1>1, FS_EmptySet
  <1>3. StoreTypes'
    BY <1>1, <1>2 DEF StoreInv, StoreTypes, StatusType
  <1>4. Registered'
    BY <1>1 DEF StoreInv, Registered
  <1>5. Finished(finished', known', status') /\ Len(finished') <= MaxRetained
    BY <1>1, LimitsAssumption DEF Finished
  <1> QED  BY <1>3, <1>4, <1>5 DEF StoreInv

LEMMA StoreStep ==
    ASSUME StoreInv, [Next]_vars
    PROVE  StoreInv'
  <1>1. ASSUME NEW j \in Jobs, JobStep(j) PROVE StoreInv'
    <2>1. CASE GraceEnds(j) /\ j \in Running
      <3>1. /\ End(j, "failed") /\ UNCHANGED disposalVars /\ status[j] = "running"
            /\ race' = [race EXCEPT ![j] = IF @ = "open" THEN "error" ELSE @]
        BY <2>1 DEF GraceEnds, Running
      <3>2. /\ race' \in [Jobs -> {"open", "ok", "error", "settled"}]
            /\ \A i \in Jobs : i # j => race'[i] = race[i]
        BY <3>1 DEF StoreInv, StoreTypes
      <3>3. "failed" \in Outcomes
        BY DEF Outcomes
      <3> QED  BY <3>1, <3>2, <3>3, EndStore
    <2> QED  BY <1>1, <2>1, RegisterStore, RaceStore, SettleStore, EvictStore, CancelStore DEF JobStep
  <1>2. ASSUME NEW S \in SUBSET {j \in Jobs : status[j] # "unused"}, Acknowledge(S)
        PROVE  StoreInv'
    <2>1. suppressed' \in SUBSET Jobs
      BY <1>2 DEF Acknowledge, StoreInv, StoreTypes
    <2> QED  BY <1>2, <2>1, DeliveryStore DEF Acknowledge, disposalVars
  <1>3. CASE CancelAll \/ Dispose
    <2>1. PICK timers \in SUBSET evicting : CancelRunning(timers)
      BY <1>3 DEF CancelAll, Dispose
    <2>2. known' \in SUBSET known
      BY <2>1 DEF CancelRunning, Retain, Forget
    <2>3. awaited' \in SUBSET Jobs /\ disposal' \in {"no", "waiting", "draining", "done"}
      BY <1>3, <2>2 DEF CancelAll, Dispose, disposalVars, StoreInv, StoreTypes
    <2> QED  BY <2>1, <2>3, CancelRunningStore
  <1>4. CASE DeliverOk \/ DeliverFails \/ Wake \/ LoopEnds
    <2>1. UNCHANGED suppressed /\ UNCHANGED <<jobVars, storeVars, disposalVars>>
      BY <1>4 DEF DeliverOk, DeliverFails, Wake, LoopEnds
    <2>2. suppressed' \in SUBSET Jobs
      BY <2>1 DEF StoreInv, StoreTypes
    <2> QED  BY <2>1, <2>2, DeliveryStore DEF disposalVars
  <1>5. CASE DisposeWaited
    <2>1. suppressed' \in SUBSET Jobs
      BY <1>5 DEF DisposeWaited, StoreInv, StoreTypes
    <2> QED  BY <1>5, <2>1, DeliveryStore DEF DisposeWaited
  <1>6. CASE UNCHANGED vars
    <2>1. suppressed' \in SUBSET Jobs
      BY <1>6 DEF vars, deliveryVars, StoreInv, StoreTypes
    <2> QED  BY <1>6, <2>1, DeliveryStore DEF vars, disposalVars
  <1> QED  BY <1>1, <1>2, <1>3, <1>4, <1>5, <1>6, DrainedStore DEF Next

LEMMA StoreInvariance == Spec => []StoreInv
  <1>1. Init => StoreInv
    <2> SUFFICES ASSUME Init PROVE StoreInv
      OBVIOUS
    <2>1. StoreTypes
      BY FS_EmptySet DEF Init, StoreTypes, StatusType
    <2>2. Registered
      BY DEF Init, Registered
    <2>3. Finished(finished, known, status) /\ Len(finished) <= MaxRetained
      BY LimitsAssumption DEF Init, Finished
    <2> QED  BY <2>1, <2>2, <2>3 DEF StoreInv
  <1>2. StoreInv /\ [Next]_vars => StoreInv'
    BY StoreStep
  <1> QED  BY <1>1, <1>2, PTL DEF Spec

-----------------------------------------------------------------------------
(***************************************************************************)
(* The queue and its loop.  What is queued or was delivered is the outcome *)
(* of a run, and never both; the delivery the loop holds across an await   *)
(* can only be in front of the queue, whatever was taken out, pushed or    *)
(* cut off meanwhile: that is why Taken needs no more than a look at the   *)
(* head.                                                                   *)
(***************************************************************************)
Reported == {"completed", "failed"}

Orderly(q, turn, job, st, given) ==
    /\ Once(q) /\ Len(q) <= MaxPending
    /\ \A j \in Queued(q) : st[j] \in Reported /\ j \notin given
    /\ turn \in {"off", "sleeping", "calling", "ending"}
    /\ job = Nobody <=> turn \in {"off", "ending"}
    /\ job # Nobody => /\ job \in Jobs /\ st[job] \in Reported
                       /\ job \notin given /\ InFront(q, job)

QueueInv ==
    /\ Orderly(queue, loop, held, status, delivered)
    /\ delivered \in SUBSET Jobs /\ dropped \in SUBSET Jobs
    /\ \A j \in delivered : status[j] \in Reported

LEMMA QueuedJobs ==
    ASSUME NEW q, Once(q)
    PROVE  Queued(q) \in SUBSET Jobs
  <1>1. \A i \in DOMAIN q : q[i] \in Deliveries
    BY DEF Once
  <1> QED  BY <1>1 DEF Queued, Deliveries

LEMMA OrderlyWithout ==
    ASSUME NEW q, NEW turn, NEW job, NEW st, NEW given, Orderly(q, turn, job, st, given), NEW gone
    PROVE  Orderly(Without(q, gone), turn, job, st, given)
  <1>1. Once(q) /\ Len(q) \in Nat /\ Len(q) <= MaxPending /\ MaxPending \in Nat
    BY LimitsAssumption DEF Orderly, Once
  <1>2. PICK r : r = Without(q, gone)
    OBVIOUS
  <1>3. /\ Once(r) /\ Queued(r) = Queued(q) \ gone /\ Len(r) <= Len(q)
        /\ \A j : InFront(q, j) => InFront(r, j)
    BY <1>1, <1>2, WithoutQueue
  <1>4. Len(r) \in Nat
    BY <1>3 DEF Once
  <1>5. Len(r) <= MaxPending
    BY <1>1, <1>3, <1>4
  <1> QED  BY <1>2, <1>3, <1>5 DEF Orderly

\* Outcomes that are kept keep the queue in order.
LEMMA OrderlyStays ==
    ASSUME NEW q, NEW turn, NEW job, NEW given, Orderly(q, turn, job, status, given), Kept
    PROVE  Orderly(q, turn, job, status', given)
  <1>1. Queued(q) \in SUBSET Jobs
    BY QueuedJobs DEF Orderly
  <1> QED  BY <1>1 DEF Orderly, Kept, Reported, Outcomes

\* A turn of the loop on a queue of results that are due.
LEMMA OrderlyPump ==
    ASSUME NEW q, Once(q), Len(q) <= MaxPending, NEW st, NEW given,
           \A j \in Queued(q) : st[j] \in Reported /\ j \notin given, Pump(q)
    PROVE  Orderly(q, loop', held', st, given)
  BY PumpTakes DEF Orderly

\* The delivery that was made has left the queue.
LEMMA TakenIs ==
    ASSUME QueueInv, held # Nobody
    PROVE  /\ Once(Taken) /\ Len(Taken) <= Len(queue) /\ Queued(Taken) = Queued(queue) \ {held}
  <1>1. Once(queue) /\ InFront(queue, held) /\ Len(queue) \in Nat
    BY DEF QueueInv, Orderly, Once
  <1>2. CASE IsHead(held)
    <2>1. queue # <<>> /\ Head(queue).job = held /\ Taken = Tail(queue)
      BY <1>2 DEF IsHead, Taken
    <2>2. /\ Once(Tail(queue)) /\ Len(Tail(queue)) = Len(queue) - 1
          /\ Queued(Tail(queue)) = Queued(queue) \ {Head(queue).job}
      BY <1>1, <2>1, TailQueue
    <2> QED  BY <1>1, <2>1, <2>2
  <1>3. CASE ~IsHead(held)
    <2>1. Taken = queue
      BY <1>3 DEF Taken
    <2>2. held \notin Queued(queue)
      <3> SUFFICES ASSUME NEW i \in DOMAIN queue, queue[i].job = held PROVE FALSE
        BY DEF Queued
      <3>1. i = 1
        BY <1>1 DEF InFront
      <3>2. queue # <<>> /\ Head(queue) = queue[1]
        BY <1>1, <3>1 DEF Once
      <3> QED  BY <1>3, <3>1, <3>2 DEF IsHead
    <2> QED  BY <1>1, <2>1, <2>2
  <1> QED  BY <1>2, <1>3

\* A delivery that failed is back at the end, if nobody acknowledged it.
LEMMA RetriedIs ==
    ASSUME QueueInv, held # Nobody
    PROVE  /\ Once(Retried) /\ Len(Retried) <= MaxPending + 1
           /\ Queued(Retried) = (Queued(queue) \ {held}) \cup ({held} \ suppressed)
  <1>1. /\ Once(Taken) /\ Len(Taken) <= Len(queue) /\ Queued(Taken) = Queued(queue) \ {held}
    BY TakenIs
  <1>2. /\ Len(queue) <= MaxPending /\ MaxPending \in Nat /\ Len(queue) \in Nat
        /\ Len(Taken) \in Nat /\ held \in Jobs
    BY <1>1, LimitsAssumption DEF QueueInv, Orderly, Once
  <1>3. CASE held \in suppressed
    <2>1. Retried = Taken
      BY <1>3 DEF Retried
    <2> QED  BY <1>1, <1>2, <1>3, <2>1
  <1>4. CASE held \notin suppressed
    <2>1. PICK d \in Deliveries : d = [job |-> held, tried |-> TRUE]
      BY <1>2 DEF Deliveries
    <2>2. PICK q : q = Taken
      OBVIOUS
    <2>3. PICK r : r = Append(q, d)
      OBVIOUS
    <2>4. Retried = r
      BY <1>4, <2>1, <2>2, <2>3 DEF Retried
    <2>5. d.job = held /\ d.job \notin Queued(q) /\ Once(q)
      BY <1>1, <2>1, <2>2
    <2>6. Once(r) /\ Len(r) = Len(q) + 1 /\ Queued(r) = Queued(q) \cup {d.job}
      BY <2>3, <2>5, PushQueue
    <2> QED  BY <1>1, <1>2, <1>4, <2>2, <2>4, <2>5, <2>6
  <1> QED  BY <1>3, <1>4

\* The loop goes on with a queue of which nothing acknowledged is in front.
LEMMA SkipGoesOn ==
    ASSUME NEW q, Once(q), Len(q) <= MaxPending,
           \A j \in Queued(q) : status'[j] \in Reported /\ j \notin delivered',
           queue' = Skip(q), Pump(queue'),
           delivered' \in SUBSET Jobs, dropped' \in SUBSET Jobs,
           \A j \in delivered' : status'[j] \in Reported
    PROVE  QueueInv' /\ Queued(q) \ suppressed \subseteq Queued(queue')
  <1>1. PICK r : r = queue'
    OBVIOUS
  <1>2. /\ Once(r) /\ Len(r) <= Len(q) /\ Queued(r) \subseteq Queued(q)
        /\ Queued(q) \ suppressed \subseteq Queued(r)
    BY <1>1, SkipQueue
  <1>3. Len(r) <= MaxPending
    <2>1. Len(r) \in Nat /\ Len(q) \in Nat /\ MaxPending \in Nat
      BY <1>2, LimitsAssumption DEF Once
    <2> QED  BY <1>2, <2>1
  <1>4. Orderly(r, loop', held', status', delivered')
    <2>1. \A j \in Queued(r) : status'[j] \in Reported /\ j \notin delivered'
      BY <1>2
    <2>2. Pump(r)
      BY <1>1
    <2> QED  BY <1>2, <1>3, <2>1, <2>2, OrderlyPump
  <1> QED  BY <1>1, <1>2, <1>4 DEF QueueInv

-----------------------------------------------------------------------------
(***************************************************************************)
(* Results are accounted for.  A step that loses an entry of the queue     *)
(* marks the job as dropped, has it in suppressed or delivered, or forgets *)
(* the job altogether.                                                     *)
(***************************************************************************)
Accounts(q, away) == Queued(q) \cup delivered' \cup away \cup dropped'

DeliveryInv == QueueInv /\ ResultsAccounted

\* Jobs are forgotten on top of a queue in which all results are accounted for.
LEMMA ForgetAccounts ==
    ASSUME NEW gone, NEW ended, NEW timers, NEW q, NEW dogs, Forget(gone, ended, timers, q, dogs),
           Orderly(q, loop', held', status', delivered'),
           delivered' \in SUBSET Jobs, dropped' \in SUBSET Jobs,
           \A j \in delivered' : status'[j] \in Reported,
           \A j \in known : status'[j] \in Reported => j \in Accounts(q, suppressed)
    PROVE  DeliveryInv'
  <1>1. queue' = Without(q, gone) /\ known' = known \ gone /\ suppressed' = suppressed \ gone
    BY DEF Forget
  <1>2. PICK r : r = queue'
    OBVIOUS
  <1>3. Orderly(r, loop', held', status', delivered') /\ Queued(r) = Queued(q) \ gone
    <2>1. Once(q)
      BY DEF Orderly
    <2> QED  BY <1>1, <1>2, <2>1, OrderlyWithout, WithoutQueue
  <1>4. QueueInv'
    BY <1>2, <1>3 DEF QueueInv
  <1>5. \A j \in known' : status'[j] \in Reported => j \in Queued(r) \cup delivered' \cup suppressed' \cup dropped'
    BY <1>1, <1>3 DEF Accounts
  <1>6. ResultsAccounted'
    BY <1>2, <1>5 DEF ResultsAccounted, Reported
  <1> QED  BY <1>4, <1>6 DEF DeliveryInv

\* Jobs are forgotten and nothing is said of a result that was not said before.
LEMMA QuietForgets ==
    ASSUME DeliveryInv, Kept, \A j \in known : status'[j] \in Reported => status[j] \in Reported,
           NEW gone, NEW ended, NEW timers, NEW dogs, Forget(gone, ended, timers, queue, dogs),
           UNCHANGED <<loop, held, delivered, dropped>>
    PROVE  DeliveryInv'
  <1>1. Orderly(queue, loop', held', status', delivered')
    BY OrderlyStays DEF DeliveryInv, QueueInv
  <1>2. /\ delivered' \in SUBSET Jobs /\ dropped' \in SUBSET Jobs
        /\ \A j \in delivered' : status'[j] \in Reported
    BY DEF DeliveryInv, QueueInv, Kept, Reported, Outcomes
  <1>3. \A j \in known : status'[j] \in Reported => j \in Accounts(queue, suppressed)
    BY DEF DeliveryInv, ResultsAccounted, Accounts, Reported
  <1> QED  BY <1>1, <1>2, <1>3, ForgetAccounts

\* A job ends and its result is queued, unless it was acknowledged before it ended.
LEMMA EndDelivers ==
    ASSUME StoreInv, DeliveryInv, NEW j \in Jobs, NEW outcome \in Reported,
           status[j] = "running", End(j, outcome)
    PROVE  DeliveryInv'
  <1>1. outcome \in Outcomes /\ StatusType
    BY DEF Reported, Outcomes, StoreInv, StoreTypes
  <1>2. Kept
    BY <1>1, EndIsFirst
  <1>3. /\ status \in [Jobs -> {"unused", "running"} \cup Outcomes]
        /\ status' = [status EXCEPT ![j] = outcome] /\ UNCHANGED delivered
    BY <1>1 DEF End, StatusType
  <1>4. \A i \in Jobs : status'[i] = IF i = j THEN outcome ELSE status[i]
    BY <1>3
  <1>5. known \in SUBSET Jobs /\ j \notin delivered /\ j \notin Queued(queue) /\ held # j
    BY LimitsAssumption DEF StoreInv, StoreTypes, DeliveryInv, QueueInv, Orderly, Reported
  <1>6. /\ delivered' \in SUBSET Jobs
        /\ \A i \in delivered' : status'[i] \in Reported
    BY <1>2, <1>3 DEF DeliveryInv, QueueInv, Kept, Reported, Outcomes
  <1>7. Orderly(queue, loop, held, status', delivered') /\ Once(queue) /\ Len(queue) <= MaxPending
    BY <1>2, <1>3, OrderlyStays DEF DeliveryInv, QueueInv, Orderly
  <1> DEFINE dogs == [watchdog EXCEPT ![j] = "off"]
             ended == Append(finished, j)
             timers == evicting \cup {j}
  <1>8. CASE j \in suppressed
    <2>1. UNCHANGED <<dropped, loop, held>> /\ Retain(ended, timers, queue, dogs)
      BY <1>8 DEF End
    <2>2. \A i \in known : status'[i] \in Reported => i \in Accounts(queue, suppressed)
      BY <1>3, <1>4, <1>5, <1>8, <2>1 DEF DeliveryInv, ResultsAccounted, Accounts, Reported
    <2>3. dropped' \in SUBSET Jobs
      BY <2>1 DEF DeliveryInv, QueueInv
    <2> HIDE DEF dogs, ended, timers
    <2> QED  BY <1>6, <1>7, <2>1, <2>2, <2>3, ForgetAccounts DEF Retain
  <1>9. CASE j \notin suppressed
    <2>1. PICK d \in Deliveries : d = [job |-> j, tried |-> FALSE]
      BY DEF Deliveries
    <2>2. PICK pushed : pushed = Append(queue, d)
      OBVIOUS
    <2>3. PICK cut : cut = Capped(pushed)
      OBVIOUS
    <2>4. /\ dropped' = dropped \cup (Overflow(pushed) \cap known)
          /\ EnsureLoop(cut) /\ Retain(ended, timers, cut, dogs)
      BY <1>9, <2>1, <2>2, <2>3 DEF End
    <2>5. /\ Once(pushed) /\ Len(pushed) = Len(queue) + 1
          /\ Queued(pushed) = Queued(queue) \cup {j}
          /\ \A i : i # j /\ InFront(queue, i) => InFront(pushed, i)
      <3>1. d.job = j /\ d.job \notin Queued(queue)
        BY <1>5, <2>1
      <3>2. /\ Once(pushed) /\ Len(pushed) = Len(queue) + 1
            /\ Queued(pushed) = Queued(queue) \cup {d.job}
            /\ \A i : i # d.job /\ InFront(queue, i) => InFront(pushed, i)
        BY <1>7, <2>2, <3>1, PushQueue
      <3> QED  BY <3>1, <3>2
    <2>6. Len(pushed) <= MaxPending + 1
      BY <1>7, <2>5, LimitsAssumption DEF Once
    <2>7. /\ Once(cut) /\ Len(cut) <= MaxPending /\ Queued(cut) = Queued(pushed) \ Overflow(pushed)
          /\ Overflow(pushed) \subseteq Jobs
          /\ \A i : InFront(pushed, i) => InFront(cut, i)
      BY <2>3, <2>5, <2>6, CappedQueue
    <2>8. \A i \in Queued(cut) : status'[i] \in Reported /\ i \notin delivered'
      BY <1>3, <1>4, <1>5, <1>7, <2>5, <2>7 DEF Orderly
    <2>9. Orderly(cut, loop', held', status', delivered')
      <3>1. CASE loop = "off"
        BY <2>4, <2>7, <2>8, <3>1, OrderlyPump DEF EnsureLoop
      <3>2. CASE loop # "off"
        <4>1. UNCHANGED <<loop, held>>
          BY <2>4, <3>2 DEF EnsureLoop
        <4>2. held # Nobody => InFront(cut, held)
          BY <1>5, <1>7, <2>5, <2>7 DEF Orderly
        <4> QED  BY <1>7, <2>7, <2>8, <4>1, <4>2 DEF Orderly
      <3> QED  BY <3>1, <3>2
    <2>10. dropped' \in SUBSET Jobs
      BY <2>4, <2>7 DEF DeliveryInv, QueueInv
    <2>11. \A i \in known : status'[i] \in Reported => i \in Accounts(cut, suppressed)
      BY <1>3, <1>4, <1>5, <2>4, <2>5, <2>7 DEF DeliveryInv, ResultsAccounted, Accounts, Reported
    <2> HIDE DEF dogs, ended, timers
    <2> QED  BY <1>6, <2>4, <2>9, <2>10, <2>11, ForgetAccounts DEF Retain
  <1> QED  BY <1>8, <1>9

\* The callback returned: the result is delivered, and cannot be in the queue any more.
LEMMA OkDelivers ==
    ASSUME StoreInv, DeliveryInv, DeliverOk
    PROVE  DeliveryInv'
  <1>1. /\ loop = "calling" /\ delivered' = delivered \cup {held} /\ queue' = Skip(Taken)
        /\ Pump(queue')
        /\ UNCHANGED <<status, known, suppressed, dropped>>
    BY DEF DeliverOk, jobVars, storeVars
  <1>2. /\ held # Nobody /\ held \in Jobs /\ status[held] \in Reported
        /\ delivered \in SUBSET Jobs /\ dropped \in SUBSET Jobs
        /\ \A j \in delivered : status[j] \in Reported
        /\ \A j \in Queued(queue) : status[j] \in Reported /\ j \notin delivered
        /\ Len(queue) <= MaxPending /\ Len(queue) \in Nat /\ MaxPending \in Nat
    BY <1>1, LimitsAssumption DEF DeliveryInv, QueueInv, Orderly, Once
  <1>3. PICK q : q = Taken
    OBVIOUS
  <1>4. Once(q) /\ Len(q) <= Len(queue) /\ Queued(q) = Queued(queue) \ {held}
    BY <1>2, <1>3, TakenIs DEF DeliveryInv
  <1>5. Len(q) <= MaxPending
    BY <1>2, <1>4 DEF Once
  <1>6. \A j \in Queued(q) : status'[j] \in Reported /\ j \notin delivered'
    BY <1>1, <1>2, <1>4
  <1>7. QueueInv' /\ Queued(q) \ suppressed \subseteq Queued(queue')
    <2>1. queue' = Skip(q) /\ delivered' \in SUBSET Jobs /\ dropped' \in SUBSET Jobs
          /\ \A j \in delivered' : status'[j] \in Reported
      BY <1>1, <1>2, <1>3
    <2> QED  BY <1>1, <1>4, <1>5, <1>6, <2>1, SkipGoesOn
  <1>8. ResultsAccounted'
    BY <1>1, <1>4, <1>7 DEF DeliveryInv, ResultsAccounted
  <1> QED  BY <1>7, <1>8 DEF DeliveryInv

\* The callback failed: the delivery is tried again, unless the queue had to drop it.
LEMMA FailureDelivers ==
    ASSUME StoreInv, DeliveryInv, DeliverFails
    PROVE  DeliveryInv'
  <1>1. PICK q : q = Retried
    OBVIOUS
  <1>2. PICK cut : cut = Capped(q)
    OBVIOUS
  <1>3. /\ loop = "calling" /\ dropped' = dropped \cup (Overflow(q) \cap known)
        /\ queue' = Skip(cut) /\ Pump(queue')
        /\ UNCHANGED <<status, known, suppressed, delivered>>
    BY <1>1, <1>2 DEF DeliverFails, jobVars, storeVars
  <1>4. /\ held # Nobody /\ status[held] \in Reported /\ held \notin delivered
        /\ delivered \in SUBSET Jobs /\ dropped \in SUBSET Jobs
        /\ \A j \in delivered : status[j] \in Reported
        /\ \A j \in Queued(queue) : status[j] \in Reported /\ j \notin delivered
    BY <1>3 DEF DeliveryInv, QueueInv, Orderly
  <1>5. /\ Once(q) /\ Len(q) <= MaxPending + 1
        /\ Queued(q) = (Queued(queue) \ {held}) \cup ({held} \ suppressed)
    BY <1>1, <1>4, RetriedIs DEF DeliveryInv
  <1>6. /\ Once(cut) /\ Len(cut) <= MaxPending /\ Queued(cut) = Queued(q) \ Overflow(q)
        /\ Overflow(q) \subseteq Jobs
    BY <1>2, <1>5, CappedQueue
  <1>7. \A j \in Queued(cut) : status'[j] \in Reported /\ j \notin delivered'
    BY <1>3, <1>4, <1>5, <1>6
  <1>8. QueueInv' /\ Queued(cut) \ suppressed \subseteq Queued(queue')
    <2>1. delivered' \in SUBSET Jobs /\ dropped' \in SUBSET Jobs
          /\ \A j \in delivered' : status'[j] \in Reported
      BY <1>3, <1>4, <1>6
    <2> QED  BY <1>3, <1>6, <1>7, <2>1, SkipGoesOn
  <1>9. ResultsAccounted'
    BY <1>3, <1>5, <1>6, <1>8 DEF DeliveryInv, ResultsAccounted
  <1> QED  BY <1>8, <1>9 DEF DeliveryInv

\* The loop wakes from a sleep, or its `finally` has run.
LEMMA LoopDelivers ==
    ASSUME DeliveryInv, Wake \/ LoopEnds
    PROVE  DeliveryInv'
  <1>1. UNCHANGED <<status, known, suppressed, delivered, dropped>>
    BY DEF Wake, LoopEnds, jobVars, storeVars
  <1>2. /\ Once(queue) /\ Len(queue) <= MaxPending
        /\ \A j \in Queued(queue) : status'[j] \in Reported /\ j \notin delivered'
        /\ delivered' \in SUBSET Jobs /\ dropped' \in SUBSET Jobs
        /\ \A j \in delivered' : status'[j] \in Reported
    BY <1>1 DEF DeliveryInv, QueueInv, Orderly
  <1>3. CASE queue' = Skip(queue) /\ Pump(queue')
    <2>1. QueueInv' /\ Queued(queue) \ suppressed \subseteq Queued(queue')
      BY <1>2, <1>3, SkipGoesOn
    <2>2. ResultsAccounted'
      BY <1>1, <2>1 DEF DeliveryInv, ResultsAccounted
    <2> QED  BY <2>1, <2>2 DEF DeliveryInv
  <1>4. CASE queue' = queue /\ held' = held /\ loop = "sleeping" /\ loop' = "calling"
    <2>1. QueueInv'
      BY <1>1, <1>4 DEF DeliveryInv, QueueInv, Orderly
    <2> QED  BY <1>1, <1>4, <2>1 DEF DeliveryInv, ResultsAccounted
  <1>5. CASE queue' = Skip(queue) /\ queue' = <<>> /\ loop' = "off" /\ held' = Nobody
    <2>1. Queued(queue) \subseteq suppressed
      BY <1>2, <1>5, SkipQueue, EmptyQueue
    <2>2. QueueInv'
      BY <1>2, <1>5, EmptyQueue, LimitsAssumption DEF QueueInv, Orderly
    <2>3. ResultsAccounted'
      BY <1>1, <2>1 DEF DeliveryInv, ResultsAccounted
    <2> QED  BY <2>2, <2>3 DEF DeliveryInv
  <1> QED  BY <1>3, <1>4, <1>5 DEF Wake, LoopEnds, LoopCleared

\* Results are acknowledged and leave the queue.
LEMMA AcknowledgeDelivers ==
    ASSUME DeliveryInv, NEW S, Acknowledge(S)
    PROVE  DeliveryInv'
  <1>1. /\ suppressed' = suppressed \cup S /\ queue' = Without(queue, suppressed')
        /\ UNCHANGED <<status, known, loop, held, delivered, dropped>>
    BY DEF Acknowledge, jobVars, storeVars
  <1>2. PICK gone : gone = suppressed'
    OBVIOUS
  <1>3. PICK r : r = queue'
    OBVIOUS
  <1>4. Orderly(queue, loop, held, status, delivered) /\ Once(queue)
    BY DEF DeliveryInv, QueueInv, Orderly
  <1>5. r = Without(queue, gone)
    BY <1>1, <1>2, <1>3
  <1>6. Orderly(r, loop, held, status, delivered) /\ Queued(r) = Queued(queue) \ gone
    BY <1>4, <1>5, OrderlyWithout, WithoutQueue
  <1>7. QueueInv'
    BY <1>1, <1>3, <1>6 DEF QueueInv, DeliveryInv
  <1>8. ResultsAccounted'
    BY <1>1, <1>2, <1>3, <1>6 DEF DeliveryInv, ResultsAccounted
  <1> QED  BY <1>7, <1>8 DEF DeliveryInv

\* Jobs are cancelled, or the store is pruned: no result comes up, and none goes but with
\* its job.
LEMMA CancelDelivers ==
    ASSUME StoreInv, DeliveryInv,
           \/ \E j \in Jobs : Cancel(j) \/ Evict(j)
           \/ \E timers : CancelRunning(timers)
    PROVE  DeliveryInv'
  <1>1. UNCHANGED <<loop, held, delivered, dropped>>
    BY DEF Cancel, Evict, CancelRunning
  <1>2. \E gone, ended, timers, dogs : Forget(gone, ended, timers, queue, dogs)
    <2>1. CASE \E j \in Jobs : Evict(j)
      BY <2>1 DEF Evict
    <2>2. CASE \E j \in Jobs : Cancel(j)
      BY <2>2 DEF Cancel, Retain
    <2>3. CASE \E timers : CancelRunning(timers)
      BY <2>3 DEF CancelRunning, Retain
    <2> QED  BY <2>1, <2>2, <2>3
  <1>3. Kept /\ \A j \in known : status'[j] \in Reported => status[j] \in Reported
    <2>1. status \in [Jobs -> {"unused", "running"} \cup Outcomes] /\ known \in SUBSET Jobs
      BY DEF StoreInv, StoreTypes, StatusType
    <2>2. CASE \E j \in Jobs : Evict(j)
      BY <2>2 DEF Evict, Kept
    <2>3. CASE \E j \in Jobs : Cancel(j)
      <3>1. PICK j \in Jobs : status[j] = "running" /\ status' = [status EXCEPT ![j] = "cancelled"]
        BY <2>3 DEF Cancel, Running
      <3>2. \A i \in Jobs : status'[i] = IF i = j THEN "cancelled" ELSE status[i]
        BY <2>1, <3>1
      <3> QED  BY <2>1, <3>1, <3>2 DEF Kept, Reported, Outcomes
    <2>4. CASE \E timers : CancelRunning(timers)
      <3>1. \A i \in Jobs : status'[i] = IF i \in Running THEN "cancelled" ELSE status[i]
        BY <2>4 DEF CancelRunning
      <3> QED  BY <2>1, <3>1 DEF Kept, Reported, Outcomes, Running
    <2> QED  BY <2>2, <2>3, <2>4
  <1> QED  BY <1>1, <1>2, <1>3, QuietForgets

\* A job's run has settled, or the watchdog lost its patience.
LEMMA SettleDelivers ==
    ASSUME StoreInv, DeliveryInv, NEW j \in Jobs,
           Settle(j) \/ (GraceEnds(j) /\ j \in Running)
    PROVE  DeliveryInv'
  <1>1. CASE \E outcome \in Reported : status[j] = "running" /\ End(j, outcome)
    BY <1>1, EndDelivers
  <1>2. CASE Settle(j) /\ ~Undecided(j)
    <2>1. UNCHANGED <<status, loop, held, delivered, dropped>>
      BY <1>2 DEF Settle
    <2>2. \E gone, ended, timers, dogs : Forget(gone, ended, timers, queue, dogs)
      BY <1>2 DEF Settle, Retain
    <2>3. Kept /\ \A i \in known : status'[i] \in Reported => status[i] \in Reported
      BY <2>1 DEF Kept
    <2> QED  BY <2>1, <2>2, <2>3, QuietForgets
  <1>3. \/ ~Settle(j) \/ ~Undecided(j)
        \/ Undecided(j) /\ \E outcome \in Reported : End(j, outcome)
    BY DEF Settle, Reported
  <1>4. GraceEnds(j) /\ j \in Running => status[j] = "running" /\ \E outcome \in Reported : End(j, outcome)
    BY DEF GraceEnds, Reported, Running
  <1> QED  BY <1>1, <1>2, <1>3, <1>4 DEF Undecided

LEMMA RegisterDelivers ==
    ASSUME StoreInv, DeliveryInv, NEW j \in Jobs, Register(j)
    PROVE  DeliveryInv'
  <1>1. /\ status[j] = "unused" /\ status' = [status EXCEPT ![j] = "running"]
        /\ known' = known \cup {j} /\ suppressed' = suppressed \ {j}
        /\ UNCHANGED <<queue, loop, held, delivered, dropped>>
    BY DEF Register
  <1>2. status \in [Jobs -> {"unused", "running"} \cup Outcomes] /\ known \in SUBSET Jobs
    BY DEF StoreInv, StoreTypes, StatusType
  <1>3. \A i \in Jobs : status'[i] = IF i = j THEN "running" ELSE status[i]
    BY <1>1, <1>2
  <1>4. Kept
    BY <1>1, <1>3 DEF Kept, Outcomes
  <1>5. QueueInv'
    BY <1>1, <1>4, OrderlyStays DEF DeliveryInv, QueueInv, Kept, Reported, Outcomes
  <1>6. ResultsAccounted'
    BY <1>1, <1>2, <1>3 DEF DeliveryInv, ResultsAccounted
  <1> QED  BY <1>5, <1>6 DEF DeliveryInv

\* dispose() starts the loop if the queue is not empty; at its end it forgets everything.
LEMMA DisposeDelivers ==
    ASSUME DeliveryInv, DisposeWaited \/ DisposeDrained
    PROVE  DeliveryInv'
  <1>1. CASE DisposeWaited
    <2>1. UNCHANGED <<status, known, queue, suppressed, delivered, dropped>>
      BY <1>1 DEF DisposeWaited, jobVars, storeVars
    <2>2. Orderly(queue, loop', held', status, delivered)
      <3>1. CASE UNCHANGED <<loop, held>>
        BY <3>1 DEF DeliveryInv, QueueInv
      <3>2. CASE Pump(queue)
        BY <3>2, OrderlyPump DEF DeliveryInv, QueueInv, Orderly
      <3> QED  BY <1>1, <3>1, <3>2 DEF DisposeWaited, EnsureLoop
    <2>3. QueueInv'
      BY <2>1, <2>2 DEF DeliveryInv, QueueInv
    <2> QED  BY <2>1, <2>3 DEF DeliveryInv, ResultsAccounted
  <1>2. CASE DisposeDrained
    <2>1. known' = {} /\ queue' = <<>> /\ UNCHANGED <<status, loop, held, delivered, dropped>>
      BY <1>2 DEF DisposeDrained, jobVars
    <2>2. QueueInv'
      BY <2>1, EmptyQueue, LimitsAssumption DEF DeliveryInv, QueueInv, Orderly, InFront
    <2> QED  BY <2>1, <2>2 DEF DeliveryInv, ResultsAccounted
  <1> QED  BY <1>1, <1>2

LEMMA DeliveryStep ==
    ASSUME StoreInv, DeliveryInv, [Next]_vars
    PROVE  DeliveryInv'
  <1>1. CASE UNCHANGED <<status, known, deliveryVars>>
    BY <1>1 DEF DeliveryInv, QueueInv, ResultsAccounted, deliveryVars
  <1>2. ASSUME NEW j \in Jobs, JobStep(j) PROVE DeliveryInv'
    <2>1. CASE Finish(j) \/ Fire(j) \/ (GraceEnds(j) /\ j \notin Running)
      BY <1>1, <2>1 DEF Finish, Fire, GraceEnds, storeVars
    <2>2. CASE Register(j)
      BY <2>2, RegisterDelivers
    <2>3. CASE Settle(j) \/ (GraceEnds(j) /\ j \in Running)
      BY <2>3, SettleDelivers
    <2>4. CASE Evict(j) \/ Cancel(j)
      BY <2>4, CancelDelivers
    <2> QED  BY <1>2, <2>1, <2>2, <2>3, <2>4 DEF JobStep
  <1>3. ASSUME NEW S, Acknowledge(S) PROVE DeliveryInv'
    BY <1>3, AcknowledgeDelivers
  <1>4. CASE CancelAll \/ Dispose
    BY <1>4, CancelDelivers DEF CancelAll, Dispose
  <1>5. CASE UNCHANGED vars
    BY <1>1, <1>5 DEF vars, jobVars, storeVars
  <1> QED
    BY <1>2, <1>3, <1>4, <1>5, OkDelivers, FailureDelivers, LoopDelivers, DisposeDelivers DEF Next

LEMMA Invariance == Spec => [](StoreInv /\ DeliveryInv)
  <1>1. Init => DeliveryInv
    <2> SUFFICES ASSUME Init PROVE DeliveryInv
      OBVIOUS
    <2>1. /\ queue = <<>> /\ loop = "off" /\ held = Nobody /\ delivered = {} /\ dropped = {}
          /\ known = {}
      BY DEF Init
    <2>2. Orderly(queue, loop, held, status, delivered)
      BY <2>1, EmptyQueue, LimitsAssumption DEF Orderly
    <2> QED  BY <2>1, <2>2 DEF DeliveryInv, QueueInv, ResultsAccounted
  <1>2. StoreInv /\ DeliveryInv /\ [Next]_vars => DeliveryInv'
    BY DeliveryStep
  <1> QED  BY <1>1, <1>2, StoreInvariance, PTL DEF Spec

-----------------------------------------------------------------------------
\* Every variable stays in its domain, the queue within MaxPending, the finished jobs
\* within MaxRetained, however many jobs end in one step (job-manager.ts:
\* #dropOldestDeliveries, #pruneCompletedJobs).
THEOREM JobTypes == Spec => []TypeOK
  <1>1. StoreInv /\ DeliveryInv => TypeOK
    <2> SUFFICES ASSUME StoreInv, DeliveryInv PROVE TypeOK
      OBVIOUS
    <2>1. finished \in Seq(known \ Running)
      <3>1. finished \in Seq(Jobs) /\ DOMAIN finished = 1..Len(finished) /\ Len(finished) \in Nat
        BY DEF StoreInv, Finished
      <3>2. \A i \in DOMAIN finished : finished[i] \in known \ Running
        BY DEF StoreInv, Finished, Running, Outcomes
      <3> QED  BY <3>1, <3>2
    <2>2. /\ status \in [Jobs -> {"unused", "running", "completed", "failed", "cancelled"}]
          /\ race \in [Jobs -> {"open", "ok", "error", "settled"}]
          /\ watchdog \in [Jobs -> {"off", "armed", "grace"}]
          /\ known \subseteq Jobs /\ evicting \subseteq Jobs
          /\ disposal \in {"no", "waiting", "draining", "done"}
      <3>1. {"unused", "running"} \cup Outcomes = {"unused", "running", "completed", "failed", "cancelled"}
        BY DEF Outcomes
      <3> QED  BY <3>1 DEF StoreInv, StoreTypes, StatusType
    <2>3. /\ queue \in Seq([job : Jobs, tried : BOOLEAN]) /\ Len(queue) <= MaxPending
          /\ loop \in {"off", "sleeping", "calling", "ending"}
          /\ held \in Jobs \cup {Nobody} /\ (held = Nobody <=> loop \in {"off", "ending"})
      BY DEF DeliveryInv, QueueInv, Orderly, Once, Deliveries
    <2>4. suppressed \cup delivered \cup dropped \cup awaited \subseteq Jobs
      BY DEF StoreInv, StoreTypes, DeliveryInv, QueueInv
    <2> QED  BY <2>1, <2>2, <2>3, <2>4 DEF TypeOK, StoreInv
  <1> QED  BY <1>1, Invariance, PTL

\* The result of a job that is still listed is queued, delivered, acknowledged or marked
\* as dropped, however retries, acknowledgements, overflows and evictions interleave
\* (job-manager.ts: #enqueueDelivery, #runDeliveryLoop, acknowledgeDeliveries).
THEOREM NoResultIsLost == Spec => []ResultsAccounted
  <1>1. DeliveryInv => ResultsAccounted
    BY DEF DeliveryInv
  <1> QED  BY <1>1, Invariance, PTL

\* A queue in which no job is twice holds as many jobs as deliveries.
LEMMA OnceCounts ==
    ASSUME NEW q, Once(q)
    PROVE  Cardinality(Queued(q)) = Len(q)
  <1>1. q \in Seq(Deliveries) /\ DOMAIN q = 1..Len(q) /\ Len(q) \in Nat
    BY DEF Once
  <1> DEFINE f == [i \in 1..Len(q) |-> q[i].job]
  <1>2. \A i \in 1..Len(q) : f[i] \in Queued(q)
    BY <1>1 DEF Queued
  <1>3. \A i, k \in 1..Len(q) : f[i] = f[k] => i = k
    BY <1>1 DEF Once
  <1>4. \A j \in Queued(q) : \E i \in 1..Len(q) : f[i] = j
    BY <1>1 DEF Queued
  <1>5. f \in [1..Len(q) -> Queued(q)]
    BY <1>2
  <1>6. IsFiniteSet(1..Len(q)) /\ Cardinality(1..Len(q)) = Len(q)
    BY <1>1, FS_Interval
  <1> HIDE DEF f
  <1>7. f \in Bijection(1..Len(q), Queued(q))
    BY <1>3, <1>4, <1>5 DEF Bijection, Injection, Surjection, IsInjective
  <1>8. ExistsBijection(1..Len(q), Queued(q))
    BY <1>7 DEF ExistsBijection
  <1> QED  BY <1>6, <1>8, FS_Bijection

\* What was delivered does not come up again and nothing is queued twice, though the head
\* of the queue can change under a call that is under way (job-manager.ts:
\* #runDeliveryLoop).
THEOREM DeliveriesAreSingle == Spec => []DeliveredOnce
  <1>1. DeliveryInv => DeliveredOnce
    BY OnceCounts DEF DeliveryInv, QueueInv, Orderly, DeliveredOnce
  <1> QED  BY <1>1, Invariance, PTL

-----------------------------------------------------------------------------
\* A delivery that waits has a loop that will come to it.
QueueServed == queue # <<>> => loop # "off"

LEMMA NothingWithout ==
    ASSUME NEW gone
    PROVE  Without(<<>>, gone) = <<>>
  <1>1. PICK r : r = Without(<<>>, gone)
    OBVIOUS
  <1>2. Once(r) /\ Len(r) <= 0
    BY <1>1, EmptyQueue, WithoutQueue
  <1>3. r \in Seq(Deliveries) /\ Len(r) <= 0
    BY <1>2 DEF Once
  <1>4. r = <<>>
    BY <1>3
  <1> QED  BY <1>1, <1>4

LEMMA PumpServes ==
    ASSUME NEW q, Pump(q)
    PROVE  loop' # "off"
  BY DEF Pump

LEMMA ServedStep ==
    ASSUME QueueServed, [Next]_vars
    PROVE  QueueServed'
  <1>1. CASE UNCHANGED <<queue, loop>>
    BY <1>1 DEF QueueServed
  <1>2. CASE UNCHANGED loop /\ \E gone : queue' = Without(queue, gone)
    BY <1>2, NothingWithout DEF QueueServed
  <1>3. CASE \E q : Pump(q)
    BY <1>3, PumpServes DEF QueueServed
  <1>4. ASSUME NEW j \in Jobs, NEW outcome, End(j, outcome) PROVE QueueServed'
    <2>1. CASE j \in suppressed
      BY <1>2, <1>4, <2>1 DEF End, Retain, Forget
    <2>2. CASE j \notin suppressed
      <3>1. PICK q : EnsureLoop(q)
        BY <1>4, <2>2 DEF End
      <3>2. CASE loop = "off"
        BY <1>3, <3>1, <3>2 DEF EnsureLoop
      <3>3. CASE loop # "off"
        BY <3>1, <3>3 DEF EnsureLoop, QueueServed
      <3> QED  BY <3>2, <3>3
    <2> QED  BY <2>1, <2>2
  <1>5. ASSUME NEW j \in Jobs, JobStep(j) PROVE QueueServed'
    <2>1. CASE Register(j) \/ Finish(j) \/ Fire(j) \/ (GraceEnds(j) /\ j \notin Running)
      BY <1>1, <2>1 DEF Register, Finish, Fire, GraceEnds, deliveryVars
    <2>2. CASE Settle(j) \/ (GraceEnds(j) /\ j \in Running)
      <3>1. CASE \E outcome : End(j, outcome)
        BY <1>4, <3>1
      <3>2. CASE UNCHANGED loop /\ \E gone : queue' = Without(queue, gone)
        BY <1>2, <3>2
      <3> QED  BY <2>2, <3>1, <3>2 DEF Settle, GraceEnds, Retain, Forget
    <2>3. CASE Evict(j) \/ Cancel(j)
      BY <1>2, <2>3 DEF Evict, Cancel, Retain, Forget
    <2> QED  BY <1>5, <2>1, <2>2, <2>3 DEF JobStep
  <1>6. CASE CancelAll \/ Dispose
    <2>1. \E timers : CancelRunning(timers)
      BY <1>6 DEF CancelAll, Dispose
    <2> QED  BY <1>2, <2>1 DEF CancelRunning, Retain, Forget
  <1>7. ASSUME NEW S, Acknowledge(S) PROVE QueueServed'
    BY <1>2, <1>7 DEF Acknowledge
  <1>8. CASE DeliverOk \/ DeliverFails
    BY <1>3, <1>8 DEF DeliverOk, DeliverFails
  <1>9. CASE Wake
    <2>1. (loop' = "calling") \/ (\E q : Pump(q))
      BY <1>9 DEF Wake
    <2> QED  BY <1>3, <2>1 DEF QueueServed
  <1>10. CASE LoopEnds
    BY <1>3, <1>10 DEF LoopEnds, LoopCleared, QueueServed
  <1>11. CASE DisposeWaited
    BY <1>1, <1>3, <1>11 DEF DisposeWaited, EnsureLoop
  <1>12. CASE DisposeDrained
    BY <1>12 DEF DisposeDrained, QueueServed
  <1>13. CASE UNCHANGED vars
    BY <1>1, <1>13 DEF vars, deliveryVars
  <1> QED
    BY <1>5, <1>6, <1>7, <1>8, <1>9, <1>10, <1>11, <1>12, <1>13 DEF Next

\* No wake-up is lost: a result that comes in while the loop ends, between its last look
\* at the queue and the `finally` that clears it, does not wait for ever
\* (job-manager.ts: #ensureDeliveryLoop).
THEOREM NoWakeUpIsLost == Spec => []QueueServed
  <1>1. Init => QueueServed
    BY DEF Init, QueueServed
  <1>2. QueueServed /\ [Next]_vars => QueueServed'
    BY ServedStep
  <1> QED  BY <1>1, <1>2, PTL DEF Spec
=============================================================================
