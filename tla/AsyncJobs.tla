------------------------------ MODULE AsyncJobs ------------------------------
(***************************************************************************)
(* packages/coding-agent/src/async/job-manager.ts: the background jobs of  *)
(* a session and the delivery of their results to the model.  It runs on   *)
(* one JavaScript thread: a step is a call into the manager or the code    *)
(* from one await to the next.  A promise that has settled is followed by  *)
(* its continuation before any timer fires (Quiet); calls made from other  *)
(* continuations can come between.                                         *)
(*                                                                         *)
(* Time is left out: a timer that is set may fire at any moment, so a job  *)
(* with a watchdog is one that has stopped to report progress.  A job id   *)
(* is used for one job, and finished jobs are kept for a while (the        *)
(* retention the session leaves at its default of five minutes).           *)
(***************************************************************************)
EXTENDS Integers, Sequences, FiniteSets, FiniteSetsExt, SequencesExt

CONSTANTS
    Jobs,         \* background jobs
    Nobody,       \* no job
    MaxRunning,   \* maxRunningJobs
    MaxRetained,  \* MAX_RETAINED_FINISHED_JOBS
    MaxPending    \* MAX_PENDING_DELIVERIES

ASSUME LimitsAssumption ==
    /\ Nobody \notin Jobs
    /\ {MaxRunning, MaxRetained, MaxPending} \subseteq Nat \ {0}

VARIABLES
    status,      \* job.status, "unused" before registration
    race,        \* job.promise: the run against the watchdog, then its continuation
    watchdog,    \* #watchdogTimers: armed, in its grace window, or off
    known,       \* keys of #jobs
    finished,    \* known jobs that do not run, by endTime
    evicting,    \* keys of #evictionTimers
    queue,       \* #deliveries, with whether the delivery failed before
    loop,        \* #deliveryLoop: off, in a sleep, in the callback, or over but not cleared
    held,        \* the loop's `delivery` across its await
    suppressed,  \* #suppressedDeliveries
    delivered,   \* jobs whose onJobComplete has returned
    dropped,     \* jobs marked deliveryDropped
    disposal,    \* where dispose() is
    awaited      \* jobs whose promises dispose() waits for

jobVars == <<status, race, watchdog>>
storeVars == <<known, finished, evicting>>
deliveryVars == <<queue, loop, held, suppressed, delivered, dropped>>
disposalVars == <<disposal, awaited>>
vars == <<jobVars, storeVars, deliveryVars, disposalVars>>

Running == {j \in known : status[j] = "running"}

\* No continuation is due, so the event loop may turn to its timers.
Quiet == loop # "ending" /\ \A j \in Jobs : race[j] \notin {"ok", "error"}

Init ==
    /\ status = [j \in Jobs |-> "unused"]
    /\ race = [j \in Jobs |-> "open"]
    /\ watchdog = [j \in Jobs |-> "off"]
    /\ known = {}
    /\ finished = <<>>
    /\ evicting = {}
    /\ queue = <<>>
    /\ loop = "off"
    /\ held = Nobody
    /\ suppressed = {}
    /\ delivered = {}
    /\ dropped = {}
    /\ disposal = "no"
    /\ awaited = {}

-----------------------------------------------------------------------------
(***************************************************************************)
(* The delivery queue and its loop.                                        *)
(***************************************************************************)

Queued(q) == {q[i].job : i \in DOMAIN q}

\* What a sequence has at some of its places, in its order: SelectSeq, which the provers
\* know nothing of, by where and not by what it selects.
Remaining(s, places) ==
    LET nth(k) == CHOOSE i \in places : Cardinality({m \in places : m < i}) = k - 1
    IN  [k \in 1..Cardinality(places) |-> s[nth(k)]]

Without(q, gone) == Remaining(q, {i \in DOMAIN q : q[i].job \notin gone})

\* #dropOldestDeliveries: over its limit the queue loses the oldest delivery that is
\* not being made.
Overflow(q) ==
    IF Len(q) <= MaxPending THEN {}
    ELSE {q[IF loop = "calling" /\ Head(q).job = held THEN 2 ELSE 1].job}

\* Mutant: the queue has no limit.
Uncapped(q) == q

Capped(q) == Without(q, Overflow(q))

\* The loop shifts what was acknowledged before it takes a delivery up.
Skip(q) ==
    LET live == {i \in DOMAIN q : q[i].job \notin suppressed}
    IN  IF live = {} THEN <<>> ELSE SubSeq(q, Min(live), Len(q))

\* A turn of #runDeliveryLoop up to its next await, on the queue q.
Pump(q) ==
    \/ /\ q = <<>>
       /\ loop' = "ending"
       /\ held' = Nobody
    \/ /\ q # <<>>
       /\ held' = Head(q).job
       /\ loop' \in IF Head(q).tried THEN {"sleeping", "calling"} ELSE {"calling"}

\* Nothing acknowledged waits in a queue whose loop is off, so nothing is skipped.
EnsureLoop(q) ==
    IF loop = "off" THEN Pump(q) ELSE UNCHANGED <<loop, held>>

\* Mutant: the loop ends without a look at what came in meanwhile.
EndsBlindly(q) == loop' = "off" /\ held' = Nobody

\* The loop's `finally`: it is cleared, and started again for what came in meanwhile.
LoopCleared(q) ==
    IF q = <<>> THEN loop' = "off" /\ held' = Nobody ELSE Pump(q)

IsHead(j) == queue # <<>> /\ Head(queue).job = j

\* Mutant: the delivery that was made is shifted without a look at what is in front.
TakenBlindly == IF queue = <<>> THEN queue ELSE Tail(queue)

\* The queue after the callback: the delivery may have left it in between.
Taken == IF IsHead(held) THEN Tail(queue) ELSE queue

\* What was acknowledged during the call is not tried again.
Retried ==
    IF held \in suppressed THEN Taken ELSE Append(Taken, [job |-> held, tried |-> TRUE])

DeliverOk ==
    /\ loop = "calling"
    /\ delivered' = delivered \cup {held}
    /\ queue' = Skip(Taken)
    /\ Pump(queue')
    /\ UNCHANGED <<jobVars, storeVars, suppressed, dropped, disposalVars>>

DeliverFails ==
    /\ loop = "calling"
    /\ dropped' = dropped \cup (Overflow(Retried) \cap known)
    /\ queue' = Skip(Capped(Retried))
    /\ Pump(queue')
    /\ UNCHANGED <<jobVars, storeVars, suppressed, delivered, disposalVars>>

\* The sleep before a retry is over; the head may have been taken away meanwhile.
Wake ==
    /\ loop = "sleeping"
    /\ Quiet
    /\ IF IsHead(held) /\ held \notin suppressed
       THEN loop' = "calling" /\ UNCHANGED <<queue, held>>
       ELSE queue' = Skip(queue) /\ Pump(queue')
    /\ UNCHANGED <<jobVars, storeVars, suppressed, delivered, dropped, disposalVars>>

LoopEnds ==
    /\ loop = "ending"
    /\ queue' = Skip(queue)
    /\ LoopCleared(queue')
    /\ UNCHANGED <<jobVars, storeVars, suppressed, delivered, dropped, disposalVars>>

-----------------------------------------------------------------------------
(***************************************************************************)
(* The end of a job.                                                       *)
(***************************************************************************)

\* #cleanupJobArtifacts and the removal from #jobs, on top of what the step makes of
\* the finished jobs, the eviction timers, the queue and the watchdogs.
Forget(gone, ended, timers, q, dogs) ==
    /\ known' = known \ gone
    /\ finished' = Remaining(ended, {i \in DOMAIN ended : ended[i] \notin gone})
    /\ evicting' = timers \ gone
    /\ suppressed' = suppressed \ gone
    /\ queue' = Without(q, gone)
    /\ watchdog' = [j \in Jobs |-> IF j \in gone THEN "off" ELSE dogs[j]]

\* #pruneCompletedJobs: the finished jobs over the limit, the longest finished first.
Excess(ended) == {ended[i] : i \in 1..(Len(ended) - MaxRetained)}

\* #scheduleEviction, for the jobs in `timers` that have none yet.
Retain(ended, timers, q, dogs) == Forget(Excess(ended), ended, timers, q, dogs)

\* A running job completes or fails: its result is queued, its eviction scheduled.
End(j, outcome) ==
    LET pushed == Append(queue, [job |-> j, tried |-> FALSE])
        dogs   == [watchdog EXCEPT ![j] = "off"]
        ended  == Append(finished, j)
    IN  /\ status' = [status EXCEPT ![j] = outcome]
        /\ IF j \in suppressed
           THEN /\ UNCHANGED <<dropped, loop, held>>
                /\ Retain(ended, evicting \cup {j}, queue, dogs)
           ELSE /\ dropped' = dropped \cup (Overflow(pushed) \cap known)
                /\ EnsureLoop(Capped(pushed))
                /\ Retain(ended, evicting \cup {j}, Capped(pushed), dogs)
        /\ UNCHANGED delivered

-----------------------------------------------------------------------------
(***************************************************************************)
(* Calls into the manager, continuations and timers.                       *)
(***************************************************************************)

Register(j) ==
    /\ disposal = "no"
    /\ status[j] = "unused"
    /\ Cardinality(Running) < MaxRunning
    /\ status' = [status EXCEPT ![j] = "running"]
    /\ known' = known \cup {j}
    /\ suppressed' = suppressed \ {j}
    /\ \E dog \in {"armed", "off"} : watchdog' = [watchdog EXCEPT ![j] = dog]
    /\ UNCHANGED <<race, finished, evicting, queue, loop, held, delivered, dropped, disposalVars>>

\* The work itself returns or throws.
Finish(j) ==
    /\ status[j] # "unused"
    /\ race[j] = "open"
    /\ \E how \in {"ok", "error"} : race' = [race EXCEPT ![j] = how]
    /\ UNCHANGED <<status, watchdog, storeVars, deliveryVars, disposalVars>>

\* Mutant: the continuation does not look at what became of the job meanwhile.
StillRuns(j) == TRUE

\* Mutant: it looks for a timeout and forgets the cancellation.
NotTimedOut(j) == status[j] # "failed"

\* The job was neither cancelled nor timed out before its run settled.
Undecided(j) == status[j] = "running"

\* The continuation after `await runRace`.
Settle(j) ==
    /\ race[j] \in {"ok", "error"}
    /\ race' = [race EXCEPT ![j] = "settled"]
    /\ \/ /\ Undecided(j)
          /\ End(j, IF race[j] = "ok" THEN "completed" ELSE "failed")
       \/ /\ ~Undecided(j)
          /\ Retain(finished, evicting \cup {j}, queue, [watchdog EXCEPT ![j] = "off"])
          /\ UNCHANGED <<status, loop, held, delivered, dropped>>
    /\ UNCHANGED disposalVars

\* Mutant: the job is aborted and left to return by itself.
AbortOnly(j) == "off"

AfterAlarm(j) == IF j \in Running THEN "grace" ELSE "off"

\* #fireWatchdog: the job is aborted and has a grace window to return.
Fire(j) ==
    /\ watchdog[j] = "armed"
    /\ Quiet
    /\ watchdog' = [watchdog EXCEPT ![j] = AfterAlarm(j)]
    /\ UNCHANGED <<status, race, storeVars, deliveryVars, disposalVars>>

\* The grace window is over: the race is lost, and a job that still runs has failed.
GraceEnds(j) ==
    /\ watchdog[j] = "grace"
    /\ Quiet
    /\ race' = [race EXCEPT ![j] = IF @ = "open" THEN "error" ELSE @]
    /\ \/ /\ j \in Running
          /\ End(j, "failed")
       \/ /\ j \notin Running
          /\ watchdog' = [watchdog EXCEPT ![j] = "off"]
          /\ UNCHANGED <<status, storeVars, deliveryVars>>
    /\ UNCHANGED disposalVars

\* The retention of a finished job is over.
Evict(j) ==
    /\ j \in evicting
    /\ Quiet
    /\ Forget({j}, finished, evicting, queue, watchdog)
    /\ UNCHANGED <<status, race, loop, held, delivered, dropped, disposalVars>>

Cancel(j) ==
    /\ j \in Running
    /\ status' = [status EXCEPT ![j] = "cancelled"]
    /\ Retain(Append(finished, j), evicting \cup {j}, queue, watchdog)
    /\ UNCHANGED <<race, loop, held, delivered, dropped, disposalVars>>

\* cancelAll, with the eviction timers the caller leaves.  The jobs end in the order
\* they were registered in, which is left open here.
CancelRunning(timers) ==
    /\ status' = [j \in Jobs |-> IF j \in Running THEN "cancelled" ELSE status[j]]
    /\ \E order \in SetToSeqs(Running) :
          Retain(finished \o order, timers \cup Running, queue, [j \in Jobs |-> "off"])
    /\ UNCHANGED <<race, loop, held, delivered, dropped>>

CancelAll ==
    /\ CancelRunning(evicting)
    /\ UNCHANGED disposalVars

\* acknowledgeDeliveries, called by the await tool with the finished jobs it reports
\* and the running ones it mentions.
Acknowledge(S) ==
    /\ suppressed' = suppressed \cup S
    /\ queue' = Without(queue, suppressed')
    /\ UNCHANGED <<jobVars, storeVars, loop, held, delivered, dropped, disposalVars>>

\* Mutant: the drain has no timeout.
DrainEmpty == disposal = "draining" /\ queue = <<>>

\* drainDeliveries ends with the queue, or gives up after its timeout.
DrainOver == disposal = "draining"

\* dispose up to its first await, then up to its second, then to its end.
Dispose ==
    /\ disposal = "no"
    /\ disposal' = "waiting"
    /\ CancelRunning({})
    /\ awaited' = known'

DisposeWaited ==
    /\ disposal = "waiting"
    /\ \A j \in awaited : race[j] = "settled"
    /\ disposal' = "draining"
    /\ IF queue = <<>> THEN UNCHANGED <<loop, held>> ELSE EnsureLoop(queue)
    /\ UNCHANGED <<jobVars, storeVars, queue, suppressed, delivered, dropped, awaited>>

DisposeDrained ==
    /\ DrainOver
    /\ disposal' = "done"
    /\ known' = {}
    /\ finished' = <<>>
    /\ evicting' = {}
    /\ queue' = <<>>
    /\ suppressed' = {}
    /\ UNCHANGED <<jobVars, loop, held, delivered, dropped, awaited>>

JobStep(j) ==
    Register(j) \/ Finish(j) \/ Settle(j) \/ Fire(j) \/ GraceEnds(j) \/ Evict(j) \/ Cancel(j)

Next ==
    \/ \E j \in Jobs : JobStep(j)
    \/ \E S \in SUBSET {j \in Jobs : status[j] # "unused"} : Acknowledge(S)
    \/ CancelAll \/ DeliverOk \/ DeliverFails \/ Wake \/ LoopEnds
    \/ Dispose \/ DisposeWaited \/ DisposeDrained

Spec == Init /\ [][Next]_vars

(***************************************************************************)
(* Continuations run, timers fire and the callback returns: the event loop *)
(* sees to the first two, and a callback that waits for ever would hold    *)
(* the loop for ever.  The work of a job owes nothing.                     *)
(***************************************************************************)
Fairness ==
    /\ \A j \in Jobs : WF_vars(Settle(j)) /\ WF_vars(Fire(j)) /\ WF_vars(GraceEnds(j))
    /\ WF_vars(DeliverOk \/ DeliverFails) /\ WF_vars(Wake) /\ WF_vars(LoopEnds)
    /\ WF_vars(DisposeWaited) /\ WF_vars(DisposeDrained)

FairSpec == Spec /\ Fairness

\* A callback does not fail for ever for one job.
CallbackRecovers == \A j \in Jobs : SF_vars(held = j /\ DeliverOk)

\* The work of a cancelled job heeds its abort signal.
CancelledRunsEnd == \A j \in Jobs : WF_vars(status[j] = "cancelled" /\ Finish(j))

-----------------------------------------------------------------------------
(***************************************************************************)
(* Properties.                                                             *)
(***************************************************************************)

\* Every variable stays in its domain, the queue within its limit, and the store within
\* the jobs it may keep.
TypeOK ==
    /\ status \in [Jobs -> {"unused", "running", "completed", "failed", "cancelled"}]
    /\ race \in [Jobs -> {"open", "ok", "error", "settled"}]
    /\ watchdog \in [Jobs -> {"off", "armed", "grace"}]
    /\ known \subseteq Jobs
    /\ finished \in Seq(known \ Running) /\ Len(finished) <= MaxRetained
    /\ evicting \subseteq Jobs
    /\ queue \in Seq([job : Jobs, tried : BOOLEAN]) /\ Len(queue) <= MaxPending
    /\ loop \in {"off", "sleeping", "calling", "ending"}
    /\ held \in Jobs \cup {Nobody} /\ (held = Nobody <=> loop \in {"off", "ending"})
    /\ suppressed \cup delivered \cup dropped \cup awaited \subseteq Jobs
    /\ disposal \in {"no", "waiting", "draining", "done"}

\* The result of a job that is still listed is never lost without a trace: it is queued,
\* or was delivered, or acknowledged, or is marked as dropped, whatever retries,
\* acknowledgements, evictions and overflows came between.
ResultsAccounted ==
    \A j \in known : status[j] \in {"completed", "failed"} =>
        j \in Queued(queue) \cup delivered \cup suppressed \cup dropped

\* A result that was delivered does not come up again, and none is queued twice: not
\* when the watchdog and the run both end the job, nor when a call fails late.
DeliveredOnce ==
    /\ Queued(queue) \cap delivered = {}
    /\ Cardinality(Queued(queue)) = Len(queue)

\* The first outcome of a job is its last: the run, the watchdog and a cancellation
\* race for it, and the losers change nothing.
OutcomeIsFinal ==
    [][\A j \in Jobs :
          status[j] \in {"completed", "failed", "cancelled"} => status'[j] = status[j]]_vars

\* A job with a watchdog does not run for ever, whatever its work does.
WatchdogEndsJobs ==
    \A j \in Jobs : watchdog[j] = "armed" ~> status[j] # "running"

\* A queued result leaves the queue as long as no callback fails for ever: the loop is
\* neither lost between two deliveries nor stuck behind a retry.
DeliveriesEnd ==
    CallbackRecovers => \A j \in Jobs : j \in Queued(queue) ~> j \notin Queued(queue)

\* A manager that is disposed of comes to its end if cancelled work heeds its signal.
DisposeEnds == CancelledRunsEnd => (disposal = "waiting" ~> disposal = "done")

=============================================================================
