-------------------------- MODULE EditBrokerProofs --------------------------
(***************************************************************************)
(* Proofs about EditBroker, for any number of sessions, connections,       *)
(* files, code paths and transactions and any deadline.                    *)
(***************************************************************************)
EXTENDS EditBroker, TLAPS

(***************************************************************************)
(* Types.                                                                  *)
(***************************************************************************)

(* A grant stores well-typed intents.                                      *)
LEMMA GrantedType ==
    ASSUME intents \subseteq Intents, NEW s \in Sessions, NEW claims \in SUBSET Places
    PROVE  Granted(s, claims) \subseteq Intents
<1>1. [session : {s}, at : claims, left : {TTL}] \subseteq Intents
  BY ConfigAssumption DEF Intents
<1> QED
  BY <1>1 DEF Granted, Dropped, Unexpired

(* So does a claim, granted or refused.                                    *)
LEMMA ClaimType ==
    ASSUME intents \subseteq Intents, NEW s \in Sessions, NEW claims \in SUBSET Places,
           Claim(s, claims)
    PROVE  intents' \subseteq Intents
BY GrantedType DEF Claim, Unexpired

(* Recording a commit keeps revisions in their range.                      *)
LEMMA RecordCommitType ==
    ASSUME TypeOK, NEW s \in Sessions, NEW f \in Files, NEW claims \in SUBSET Places,
           NEW parent \in 0..(MaxRev - 1), RecordCommit(s, f, claims, parent)
    PROVE  latest' \in [Files -> 0..MaxRev] /\ intents' \subseteq Intents
<1>1. parent + 1 \in 0..MaxRev
  BY ConfigAssumption
<1> QED
  BY <1>1 DEF TypeOK, RecordCommit, Dropped

(* The places of one file in a request are places.                         *)
LEMMA FileClaims ==
    ASSUME NEW f \in Files, NEW paths \in SUBSET Paths
    PROVE  {f} \X paths \in SUBSET Places
BY DEF Places

(* Whatever becomes of the entries, the journal stays well typed.          *)
LEMMA AppendType ==
    ASSUME TypeOK, NEW T \in SUBSET Txns, NEW as \in Replayed, Append(T, as)
    PROVE  /\ journal' \in [Txns -> Replayed] /\ ended' \in [Txns -> Replayed]
           /\ unended' \in BOOLEAN /\ lost' \subseteq Txns
<1>1. PICK fate \in [T -> Fates] :
          LET fated(k) == {t \in T : fate[t] = k}
              written  == fated("unwritten") # T
              open     == fated("cut") \cup fated("last")
          IN  /\ ended' = [t \in Txns |-> IF t \in fated("line") THEN as ELSE ended[t]]
              /\ journal' = IF written
                            THEN [t \in Txns |-> IF t \in fated("last") THEN as ELSE ended'[t]]
                            ELSE journal
              /\ unended' = IF written THEN open # {} ELSE unended
              /\ lost' = lost \cup (T \ (fated("line") \cup fated("last")))
                              \cup (IF written THEN {t \in Txns : journal[t] # ended[t]} ELSE {})
  BY DEF Append
<1>2. ended' \in [Txns -> Replayed]
  BY <1>1 DEF TypeOK
<1>3. journal' \in [Txns -> Replayed]
  BY <1>1, <1>2 DEF TypeOK
<1>4. unended' \in BOOLEAN
  BY <1>1 DEF TypeOK
<1>5. lost' \subseteq Txns
  BY <1>1 DEF TypeOK
<1> QED
  BY <1>2, <1>3, <1>4, <1>5

LEMMA TypeClient == TypeOK /\ Client => TypeOK'
<1> SUFFICES ASSUME TypeOK, Client PROVE TypeOK'
  OBVIOUS
<1>1. ASSUME NEW c \in Conns, NEW s \in Sessions, Hello(c, s) PROVE TypeOK'
  BY <1>1, ConfigAssumption DEF TypeOK, Hello, journalVars
<1>2. ASSUME NEW c \in Conns, Hangup(c) PROVE TypeOK'
  BY <1>2 DEF TypeOK, Hangup, journalVars
<1>3. ASSUME NEW s \in Sessions, Die(s) PROVE TypeOK'
  BY <1>3, ConfigAssumption DEF TypeOK, Die, journalVars
<1> QED
  BY <1>1, <1>2, <1>3 DEF Client

LEMMA TypeSingleFile == TypeOK /\ SingleFile => TypeOK'
<1> SUFFICES ASSUME TypeOK, NEW c \in Conns,
                    \/ Disconnect(c)
                    \/ \E f \in Files, paths \in (SUBSET Paths) \ {{}} :
                          \/ Intent(c, f, paths)
                          \/ ReleaseIntent(c, f, paths)
                          \/ \E parent \in 0..(MaxRev - 1) : Commit(c, f, paths, parent)
             PROVE  TypeOK'
  BY DEF SingleFile
<1>1. CASE Disconnect(c)
  BY <1>1 DEF TypeOK, Disconnect, Deregister, Busy, journalVars
<1>2. ASSUME NEW f \in Files, NEW paths \in SUBSET Paths, Intent(c, f, paths)
      PROVE  TypeOK'
  <2>1. registered[c] \in Sessions
    BY <1>2 DEF TypeOK, Intent, Ready
  <2>2. intents' \subseteq Intents
    BY <1>2, <2>1, FileClaims, ClaimType DEF TypeOK, Intent
  <2> QED
    BY <1>2, <2>2 DEF TypeOK, Intent, journalVars
<1>3. ASSUME NEW f \in Files, NEW paths \in SUBSET Paths, ReleaseIntent(c, f, paths)
      PROVE  TypeOK'
  BY <1>3 DEF TypeOK, ReleaseIntent, Dropped, journalVars
<1>4. ASSUME NEW f \in Files, NEW paths \in SUBSET Paths, NEW parent \in 0..(MaxRev - 1),
             Commit(c, f, paths, parent)
      PROVE  TypeOK'
  <2>1. registered[c] \in Sessions
    BY <1>4 DEF TypeOK, Commit, Ready
  <2>2. latest' \in [Files -> 0..MaxRev] /\ intents' \subseteq Intents
    BY <1>4, <2>1, FileClaims, RecordCommitType DEF Commit
  <2> QED
    BY <1>4, <2>2 DEF TypeOK, Commit, journalVars
<1> QED
  BY <1>1, <1>2, <1>3, <1>4

LEMMA TypeMessages ==
    ASSUME TypeOK, NEW c \in Conns,
           \/ \E t \in Txns, claims \in (SUBSET Places) \ {{}} : MultiIntent(c, t, claims)
           \/ \E t \in Txns : RefuseCommit(c, t)
           \/ \E x \in active : MultiCommit(c, x) \/ MultiAbort(c, x)
    PROVE  TypeOK'
<1>1. ASSUME NEW t \in Txns, NEW claims \in SUBSET Places, MultiIntent(c, t, claims)
      PROVE  TypeOK'
  <2> DEFINE q == [conn |-> c, op |-> "grant", txn |-> t, todo |-> claims, done |-> {}]
  <2>1. q \in Requests
    BY DEF Requests
  <2>2. registered[c] # Closed /\ \A p \in requests : p.conn # c
    BY <1>1 DEF MultiIntent, Ready, Busy
  <2>3. requests' = requests \cup {q} /\ q.conn = c
    BY <1>1 DEF MultiIntent
  <2>4. /\ journal' \in [Txns -> Replayed] /\ ended' \in [Txns -> Replayed]
        /\ unended' \in BOOLEAN /\ lost' \subseteq Txns
    BY <1>1, AppendType DEF MultiIntent, Replayed
  <2> HIDE DEF q
  <2> QED
    BY <1>1, <2>1, <2>2, <2>3, <2>4 DEF TypeOK, MultiIntent
<1>2. ASSUME NEW t \in Txns, RefuseCommit(c, t) PROVE TypeOK'
  BY <1>2 DEF TypeOK, RefuseCommit, Ready, journalVars
<1>3. ASSUME NEW x \in active, MultiCommit(c, x) PROVE TypeOK'
  <2> DEFINE q == [conn |-> c, op |-> "commit", txn |-> x.txn, todo |-> x.claims, done |-> {}]
  <2>1. q \in Requests
    BY DEF Requests, TypeOK, TxnState
  <2>2. registered[c] # Closed /\ \A p \in requests : p.conn # c
    BY <1>3 DEF MultiCommit, Ready, Busy
  <2>3. requests' = requests \cup {q} /\ q.conn = c
    BY <1>3 DEF MultiCommit
  <2> HIDE DEF q
  <2> QED
    BY <1>3, <2>1, <2>2, <2>3 DEF TypeOK, MultiCommit, journalVars
<1>4. ASSUME NEW x \in active, MultiAbort(c, x) PROVE TypeOK'
  <2>1. x.txn \in Txns
    BY DEF TypeOK, TxnState
  <2>2. /\ journal' \in [Txns -> Replayed] /\ ended' \in [Txns -> Replayed]
        /\ unended' \in BOOLEAN /\ lost' \subseteq Txns
    BY <1>4, <2>1, AppendType DEF MultiAbort, Replayed
  <2> QED
    BY <1>4, <2>2 DEF TypeOK, MultiAbort, Release
<1> QED
  BY <1>1, <1>2, <1>3, <1>4

LEMMA TypeRequests ==
    ASSUME TypeOK, NEW q \in requests,
           \/ TryGrantMulti(q)
           \/ \E f \in Files, parent \in 0..(MaxRev - 1) : CommitFile(q, f, parent)
           \/ FinishCommit(q)
    PROVE  TypeOK'
<1> USE DEF TypeOK
<1>0. /\ q.conn \in Conns /\ q.txn \in Txns /\ q.todo \in SUBSET Places
      /\ q.done \in SUBSET Files /\ q \in Requests
      /\ registered[q.conn] \in Sessions
  BY DEF Requests
<1>1. CASE TryGrantMulti(q)
  <2> DEFINE x == [txn |-> q.txn, session |-> registered[q.conn], claims |-> q.todo,
                   left |-> TTL, committed |-> FALSE]
  <2>1. intents' \subseteq Intents
    BY <1>0, <1>1, ClaimType DEF TryGrantMulti
  <2>2. x \in TxnState
    BY <1>0, ConfigAssumption DEF TxnState
  <2>3. active' \subseteq active \cup {x}
    BY <1>1 DEF TryGrantMulti
  <2>4. requests' \subseteq requests
    BY <1>1 DEF TryGrantMulti
  <2> HIDE DEF x
  <2> QED
    BY <1>1, <2>1, <2>2, <2>3, <2>4 DEF TryGrantMulti, journalVars
<1>2. ASSUME NEW f \in Files, NEW parent \in 0..(MaxRev - 1), CommitFile(q, f, parent)
      PROVE  TypeOK'
  <2> DEFINE claims == {a \in q.todo : a[1] = f}
             next   == [q EXCEPT !.todo = @ \ claims, !.done = @ \cup {f}]
  <2>1. claims \in SUBSET Places
    BY <1>0
  <2>2. latest' \in [Files -> 0..MaxRev] /\ intents' \subseteq Intents
    BY <1>0, <1>2, <2>1, RecordCommitType DEF CommitFile
  <2>3. next \in Requests /\ next.conn = q.conn
    BY <1>0 DEF Requests
  <2>4. requests' \subseteq (requests \ {q}) \cup {next}
    BY <1>2 DEF CommitFile
  <2>5. UNCHANGED <<registered, hungup, sessions, active, doomed, journal, ended, unended, lost>>
    BY <1>2 DEF CommitFile, journalVars
  <2> HIDE DEF next, claims
  <2>6. requests' \subseteq Requests
    BY <2>3, <2>4
  <2>7. \A p \in requests' : registered'[p.conn] # Closed
    BY <2>3, <2>4, <2>5
  <2>8. \A p, r \in requests' : p.conn = r.conn => p = r
    BY <2>3, <2>4
  <2> QED
    BY <2>2, <2>5, <2>6, <2>7, <2>8
<1>3. CASE FinishCommit(q)
  <2>1. \A x \in active : [x EXCEPT !.committed = TRUE] \in TxnState
    BY DEF TxnState
  <2>2. active' \subseteq TxnState
    BY <1>3, <2>1 DEF FinishCommit
  <2>3. /\ journal' \in [Txns -> Replayed] /\ ended' \in [Txns -> Replayed]
        /\ unended' \in BOOLEAN /\ lost' \subseteq Txns
    BY <1>0, <1>3, AppendType DEF FinishCommit, Replayed
  <2> QED
    BY <1>3, <2>2, <2>3 DEF FinishCommit
<1> QED
  BY <1>1, <1>2, <1>3

LEMMA TypeDaemon == TypeOK /\ Daemon => TypeOK'
<1> SUFFICES ASSUME TypeOK, Daemon PROVE TypeOK'
  OBVIOUS
<1> USE DEF TypeOK
<1>1. CASE Sweep
  <2> DEFINE stale == {x \in active : Stale(x)}
             T == {x.txn : x \in stale}
  <2>1. T \in SUBSET Txns
    BY DEF TxnState
  <2>2. Append(T, "completed")
    BY <1>1 DEF Sweep
  <2>3. /\ journal' \in [Txns -> Replayed] /\ ended' \in [Txns -> Replayed]
        /\ unended' \in BOOLEAN /\ lost' \subseteq Txns
    BY <2>1, <2>2, AppendType DEF Replayed
  <2> QED
    BY <1>1, <2>3 DEF Sweep
<1>2. CASE ReapScan
  BY <1>2 DEF ReapScan, journalVars
<1>3. CASE ReapDead
  BY <1>3 DEF ReapDead, Deregister, journalVars
<1>4. CASE Tick
  <2>1. \A i \in intents : [i EXCEPT !.left = IF @ > 0 THEN @ - 1 ELSE 0] \in Intents
    BY ConfigAssumption DEF Intents
  <2>2. \A x \in active : [x EXCEPT !.left = IF @ > -1 THEN @ - 1 ELSE -1] \in TxnState
    BY ConfigAssumption DEF TxnState
  <2> QED
    BY <1>4, <2>1, <2>2 DEF Tick, journalVars
<1>5. CASE Restart
  <2>1. /\ journal' \in [Txns -> Replayed] /\ ended' \in [Txns -> Replayed]
        /\ unended' \in BOOLEAN /\ lost' \subseteq Txns
    BY <1>5, AppendType DEF Restart, Replayed
  <2> QED
    BY <1>5, <2>1, ConfigAssumption DEF Restart
<1> QED
  BY <1>1, <1>2, <1>3, <1>4, <1>5 DEF Daemon

(* Every step of the broker keeps every variable in its domain.            *)
LEMMA TypeStep == TypeOK /\ [Next]_vars => TypeOK'
<1> SUFFICES ASSUME TypeOK, [Next]_vars PROVE TypeOK'
  OBVIOUS
<1>1. CASE MultiFile
  BY <1>1, TypeMessages, TypeRequests DEF MultiFile
<1>2. CASE UNCHANGED vars
  BY <1>2 DEF TypeOK, vars, journalVars
<1> QED
  BY <1>1, <1>2, TypeClient, TypeSingleFile, TypeDaemon DEF Next

(* The type invariant of the broker, for every set of sessions,            *)
(* connections, files, code paths and transactions.                        *)
THEOREM BrokerTypeCorrect == Spec => []TypeOK
<1>1. ASSUME Init PROVE TypeOK
  <2>1. journal \in [Txns -> Replayed] /\ ended \in [Txns -> Replayed]
    BY <1>1 DEF Init, Replayed
  <2>2. unended \in BOOLEAN /\ lost \subseteq Txns
    BY <1>1 DEF Init
  <2>3. latest \in [Files -> 0..MaxRev]
    BY <1>1, ConfigAssumption DEF Init
  <2>4. registered \in [Conns -> Sessions \cup {Closed}]
    BY <1>1 DEF Init
  <2>5. sessions \in [Sessions -> {"absent", "alive", "dead"}]
    BY <1>1 DEF Init
  <2>6. hungup = {} /\ intents = {} /\ active = {} /\ requests = {} /\ doomed = {}
    BY <1>1 DEF Init
  <2> QED
    BY <2>1, <2>2, <2>3, <2>4, <2>5, <2>6 DEF TypeOK
<1> QED
  BY <1>1, TypeStep, PTL DEF Spec

(***************************************************************************)
(* Exclusion.  It is inductive as it stands: only a grant adds intents,    *)
(* and a grant is refused unless every unexpired claim on its places is    *)
(* the session's own, which it replaces.                                   *)
(***************************************************************************)

LEMMA FewerIntents == IntentExclusion /\ intents' \subseteq intents => IntentExclusion'
BY DEF IntentExclusion

LEMMA ClaimExclusion ==
    ASSUME IntentExclusion, NEW s, NEW claims, Claim(s, claims)
    PROVE  IntentExclusion'
<1>1. CASE Contested(s, claims)
  BY <1>1, FewerIntents DEF Claim, Unexpired
<1>2. CASE ~Contested(s, claims)
  <2> SUFFICES ASSUME NEW i \in Granted(s, claims), NEW j \in Granted(s, claims), i.at = j.at
               PROVE  i = j
    BY <1>2 DEF Claim, IntentExclusion
  <2> DEFINE new  == [session : {s}, at : claims, left : {TTL}]
             kept == Unexpired(FilesOf(claims)) \cap Dropped(s, claims)
  <2>1. ASSUME NEW k \in kept PROVE k.at \notin claims
    BY <1>2, <2>1 DEF Contested, Dropped
  <2>2. ASSUME NEW k \in new, NEW l \in new, k.at = l.at PROVE k = l
    BY <2>2
  <2>3. ASSUME NEW k \in new PROVE k.at \in claims
    BY <2>3
  <2>4. ASSUME NEW k \in kept, NEW l \in kept, k.at = l.at PROVE k = l
    BY <2>4 DEF IntentExclusion, Dropped
  <2>5. i \in new \cup kept /\ j \in new \cup kept
    BY DEF Granted
  <2> HIDE DEF new, kept
  <2> QED
    BY <2>1, <2>2, <2>3, <2>4, <2>5
<1> QED
  BY <1>1, <1>2

LEMMA TickExclusion == TypeOK /\ IntentExclusion /\ Tick => IntentExclusion'
<1> SUFFICES ASSUME TypeOK, IntentExclusion, Tick, NEW i \in intents', NEW j \in intents', i.at = j.at
             PROVE  i = j
  BY DEF IntentExclusion
<1> DEFINE later(k) == [k EXCEPT !.left = IF @ > 0 THEN @ - 1 ELSE 0]
<1>1. PICK k \in intents : i = later(k)
  BY DEF Tick
<1>2. PICK l \in intents : j = later(l)
  BY DEF Tick
<1>3. later(k).at = k.at /\ later(l).at = l.at
  BY DEF TypeOK, Intents
<1> QED
  BY <1>1, <1>2, <1>3 DEF IntentExclusion

LEMMA ExclusionStep == TypeOK /\ IntentExclusion /\ [Next]_vars => IntentExclusion'
<1> SUFFICES ASSUME TypeOK, IntentExclusion, [Next]_vars PROVE IntentExclusion'
  OBVIOUS
<1>1. CASE Client
  BY <1>1, FewerIntents DEF Client, Hello, Hangup, Die
<1>2. CASE SingleFile
  <2>1. PICK c \in Conns :
           \/ Disconnect(c)
           \/ \E f \in Files, paths \in SUBSET Paths :
                 \/ Intent(c, f, paths)
                 \/ ReleaseIntent(c, f, paths)
                 \/ \E parent \in 0..(MaxRev - 1) : Commit(c, f, paths, parent)
    BY <1>2 DEF SingleFile
  <2>2. CASE Disconnect(c)
    BY <2>2, FewerIntents DEF Disconnect, Deregister
  <2>3. ASSUME NEW f, NEW paths, Intent(c, f, paths) PROVE IntentExclusion'
    BY <2>3, ClaimExclusion DEF Intent
  <2>4. ASSUME NEW f, NEW paths, ReleaseIntent(c, f, paths) PROVE IntentExclusion'
    BY <2>4, FewerIntents DEF ReleaseIntent, Dropped
  <2>5. ASSUME NEW f, NEW paths, NEW parent, Commit(c, f, paths, parent)
        PROVE  IntentExclusion'
    BY <2>5, FewerIntents DEF Commit, RecordCommit, Dropped
  <2> QED
    BY <2>1, <2>2, <2>3, <2>4, <2>5
<1>3. CASE MultiFile
  <2>1. ASSUME NEW c, NEW t, NEW claims, MultiIntent(c, t, claims) PROVE IntentExclusion'
    BY <2>1, FewerIntents DEF MultiIntent
  <2>2. ASSUME NEW c, NEW t, RefuseCommit(c, t) PROVE IntentExclusion'
    BY <2>2, FewerIntents DEF RefuseCommit
  <2>3. ASSUME NEW c, NEW x, MultiCommit(c, x) PROVE IntentExclusion'
    BY <2>3, FewerIntents DEF MultiCommit
  <2>4. ASSUME NEW c, NEW x, MultiAbort(c, x) PROVE IntentExclusion'
    BY <2>4, FewerIntents DEF MultiAbort, Release
  <2>5. ASSUME NEW q, TryGrantMulti(q) PROVE IntentExclusion'
    BY <2>5, ClaimExclusion DEF TryGrantMulti
  <2>6. ASSUME NEW q, NEW f, NEW parent, CommitFile(q, f, parent) PROVE IntentExclusion'
    BY <2>6, FewerIntents DEF CommitFile, RecordCommit, Dropped
  <2>7. ASSUME NEW q, FinishCommit(q) PROVE IntentExclusion'
    BY <2>7, FewerIntents DEF FinishCommit
  <2> QED
    BY <1>3, <2>1, <2>2, <2>3, <2>4, <2>5, <2>6, <2>7 DEF MultiFile
<1>4. CASE Daemon
  <2>1. CASE Sweep
    BY <2>1, FewerIntents DEF Sweep
  <2>2. CASE ReapScan \/ ReapDead
    BY <2>2, FewerIntents DEF ReapScan, ReapDead, Deregister
  <2>3. CASE Restart
    BY <2>3, FewerIntents DEF Restart
  <2> QED
    BY <1>4, <2>1, <2>2, <2>3, TickExclusion DEF Daemon
<1>5. CASE UNCHANGED vars
  BY <1>5, FewerIntents DEF vars
<1> QED
  BY <1>1, <1>2, <1>3, <1>4, <1>5 DEF Next

(* No two sessions ever hold the same code path of a file, and a session   *)
(* holds it once, however many sessions, connections and transactions      *)
(* compete for it: record_intent, try_grant_multi, record_commit,          *)
(* release_txn, deregister and the sweeps taken together.                  *)
THEOREM OneHolder == Spec => []IntentExclusion
<1>1. Init => IntentExclusion
  BY DEF Init, IntentExclusion
<1> QED
  BY <1>1, ExclusionStep, BrokerTypeCorrect, PTL DEF Spec

(***************************************************************************)
(* Revisions.                                                              *)
(***************************************************************************)

LEMMA RecordCommitAdvances ==
    ASSUME TypeOK, NEW s, NEW f \in Files, NEW claims, NEW parent \in 0..(MaxRev - 1),
           RecordCommit(s, f, claims, parent), NEW g \in Files
    PROVE  latest'[g] \in Int /\ latest'[g] >= latest[g]
<1>1. latest[g] \in 0..MaxRev /\ latest[f] \in 0..MaxRev
  BY DEF TypeOK
<1>2. CASE Accepts(f, parent)
  BY <1>1, <1>2, ConfigAssumption DEF RecordCommit, Accepts, TypeOK
<1>3. CASE ~Accepts(f, parent)
  BY <1>1, <1>3, ConfigAssumption DEF RecordCommit
<1> QED
  BY <1>2, <1>3

LEMMA RevisionStep ==
    ASSUME TypeOK, [Next]_vars, NEW f \in Files, latest'[f] < latest[f]
    PROVE  \A c \in Conns : registered'[c] = Closed
<1>0. latest[f] \in Int /\ ~(latest'[f] = latest[f])
  BY ConfigAssumption DEF TypeOK
<1>1. CASE Restart
  BY <1>1 DEF Restart
<1>2. CASE ~Restart
  <2>1. ASSUME latest' = latest PROVE FALSE
    BY <1>0, <2>1
  <2>2. ASSUME NEW c, NEW g \in Files, NEW paths, NEW parent \in 0..(MaxRev - 1),
               Commit(c, g, paths, parent)
        PROVE  FALSE
    <3>1. RecordCommit(registered[c], g, {g} \X paths, parent)
      BY <2>2 DEF Commit
    <3>2. latest'[f] >= latest[f] /\ latest'[f] \in Int
      BY <3>1, RecordCommitAdvances
    <3> QED
      BY <1>0, <3>2
  <2>3. ASSUME NEW q, NEW g \in Files, NEW parent \in 0..(MaxRev - 1),
               CommitFile(q, g, parent)
        PROVE  FALSE
    <3>1. RecordCommit(registered[q.conn], g, {a \in q.todo : a[1] = g}, parent)
      BY <2>3 DEF CommitFile
    <3>2. latest'[f] >= latest[f] /\ latest'[f] \in Int
      BY <3>1, RecordCommitAdvances
    <3> QED
      BY <1>0, <3>2
  <2>4. \/ latest' = latest
        \/ \E c \in Conns, g \in Files, paths \in SUBSET Paths, parent \in 0..(MaxRev - 1) :
              Commit(c, g, paths, parent)
        \/ \E q \in requests, g \in Files, parent \in 0..(MaxRev - 1) :
              CommitFile(q, g, parent)
    BY <1>2 DEF Next, Client, SingleFile, MultiFile, Daemon, Hello, Hangup, Die, Disconnect,
                Intent, ReleaseIntent, MultiIntent, RefuseCommit, MultiCommit, MultiAbort,
                TryGrantMulti, FinishCommit, Sweep, ReapScan, ReapDead, Tick, vars
  <2> QED
    BY <2>1, <2>2, <2>3, <2>4
<1> QED
  BY <1>1, <1>2

(* A commit on an overtaken revision is never accepted: the revision a     *)
(* broker reports for a file only grows while that broker runs.            *)
THEOREM RevisionsOnlyAdvance == Spec => RevisionsAdvance
<1>1. TypeOK /\ [Next]_vars =>
         [\A f \in Files : latest'[f] < latest[f] => \A c \in Conns : registered'[c] = Closed]_vars
  BY RevisionStep
<1> QED
  BY <1>1, BrokerTypeCorrect, PTL DEF Spec, RevisionsAdvance

(***************************************************************************)
(* Owners.                                                                 *)
(***************************************************************************)

Connected(s) == \E c \in Conns : registered[c] = s

\* A step that leaves the connections alone and stores claims only for owners that
\* held some, or for the session of the task that takes it.
LEMMA SameConnections ==
    ASSUME OwnersConnected, registered' = registered,
           \A i \in intents' : Connected(i.session) \/ \E j \in intents : j.session = i.session,
           \A x \in active' : Connected(x.session) \/ \E y \in active : y.session = x.session
    PROVE  OwnersConnected'
BY DEF OwnersConnected, Connected

LEMMA ClaimOwners ==
    ASSUME NEW s, NEW claims, Claim(s, claims), NEW i \in intents'
    PROVE  i.session = s \/ i \in intents
<1>1. \A j \in [session : {s}, at : claims, left : {TTL}] : j.session = s
  OBVIOUS
<1> QED
  BY <1>1 DEF Claim, Granted, Unexpired

LEMMA OwnersStep == TypeOK /\ OwnersConnected /\ [Next]_vars => OwnersConnected'
<1> SUFFICES ASSUME TypeOK, OwnersConnected, [Next]_vars PROVE OwnersConnected'
  OBVIOUS
<1>1. CASE Client
  <2>1. ASSUME NEW c \in Conns, NEW s \in Sessions, Hello(c, s) PROVE OwnersConnected'
    <3>1. registered[c] = Closed /\ registered \in [Conns -> Sessions \cup {Closed}]
      BY <2>1 DEF Hello, TypeOK
    <3>2. ASSUME NEW r \in Sessions, Connected(r) PROVE Connected(r)'
      BY <2>1, <3>1, <3>2, ConfigAssumption DEF Connected, Hello
    <3>3. (\A i \in intents : i.session \in Sessions) /\ \A x \in active : x.session \in Sessions
      BY DEF TypeOK, Intents, TxnState
    <3> QED
      BY <2>1, <3>2, <3>3 DEF OwnersConnected, Connected, Hello
  <2>2. ASSUME NEW c \in Conns, Hangup(c) PROVE OwnersConnected'
    BY <2>2, SameConnections DEF Hangup
  <2>3. ASSUME NEW s \in Sessions, Die(s) PROVE OwnersConnected'
    BY <2>3, SameConnections DEF Die
  <2> QED
    BY <1>1, <2>1, <2>2, <2>3 DEF Client
<1>2. CASE SingleFile
  <2>1. PICK c \in Conns :
           \/ Disconnect(c)
           \/ \E f \in Files, paths \in SUBSET Paths :
                 \/ Intent(c, f, paths)
                 \/ ReleaseIntent(c, f, paths)
                 \/ \E parent \in 0..(MaxRev - 1) : Commit(c, f, paths, parent)
    BY <1>2 DEF SingleFile
  <2>2. CASE Disconnect(c)
    <3>1. ASSUME NEW r, r # registered[c], Connected(r) PROVE Connected(r)'
      BY <2>2, <3>1 DEF Connected, Disconnect, TypeOK
    <3> QED
      BY <2>2, <3>1 DEF OwnersConnected, Connected, Disconnect, Deregister
  <2>3. ASSUME NEW f, NEW paths, Intent(c, f, paths) PROVE OwnersConnected'
    BY <2>3, ClaimOwners, SameConnections DEF Intent, Connected
  <2>4. ASSUME NEW f, NEW paths, ReleaseIntent(c, f, paths) PROVE OwnersConnected'
    BY <2>4, SameConnections DEF ReleaseIntent, Dropped
  <2>5. ASSUME NEW f, NEW paths, NEW parent, Commit(c, f, paths, parent)
        PROVE  OwnersConnected'
    BY <2>5, SameConnections DEF Commit, RecordCommit, Dropped
  <2> QED
    BY <2>1, <2>2, <2>3, <2>4, <2>5
<1>3. CASE MultiFile
  <2>1. ASSUME NEW c, NEW t, NEW claims, MultiIntent(c, t, claims) PROVE OwnersConnected'
    BY <2>1, SameConnections DEF MultiIntent
  <2>2. ASSUME NEW c, NEW t, RefuseCommit(c, t) PROVE OwnersConnected'
    BY <2>2, SameConnections DEF RefuseCommit
  <2>3. ASSUME NEW c, NEW x, MultiCommit(c, x) PROVE OwnersConnected'
    BY <2>3, SameConnections DEF MultiCommit
  <2>4. ASSUME NEW c, NEW x, MultiAbort(c, x) PROVE OwnersConnected'
    BY <2>4, SameConnections DEF MultiAbort, Release
  <2>5. ASSUME NEW q \in requests, TryGrantMulti(q) PROVE OwnersConnected'
    <3>1. q.conn \in Conns
      BY DEF TypeOK, Requests
    <3>2. \A i \in intents' : i.session = registered[q.conn] \/ i \in intents
      BY <2>5, ClaimOwners DEF TryGrantMulti
    <3>3. \A x \in active' : x.session = registered[q.conn] \/ x \in active
      BY <2>5 DEF TryGrantMulti
    <3>4. registered' = registered
      BY <2>5 DEF TryGrantMulti
    <3> QED
      BY <3>1, <3>2, <3>3, <3>4, SameConnections DEF Connected
  <2>6. ASSUME NEW q, NEW f, NEW parent, CommitFile(q, f, parent) PROVE OwnersConnected'
    BY <2>6, SameConnections DEF CommitFile, RecordCommit, Dropped
  <2>7. ASSUME NEW q, FinishCommit(q) PROVE OwnersConnected'
    <3>1. \A x \in active : [x EXCEPT !.committed = TRUE].session = x.session
      BY DEF TypeOK, TxnState
    <3>2. \A x \in active' : \E y \in active : y.session = x.session
      BY <2>7, <3>1 DEF FinishCommit
    <3> QED
      BY <2>7, <3>2, SameConnections DEF FinishCommit
  <2> QED
    BY <1>3, <2>1, <2>2, <2>3, <2>4, <2>5, <2>6, <2>7 DEF MultiFile
<1>4. CASE Daemon
  <2>1. CASE Sweep
    BY <2>1, SameConnections DEF Sweep
  <2>2. CASE ReapScan \/ ReapDead
    BY <2>2, SameConnections DEF ReapScan, ReapDead, Deregister
  <2>3. CASE Restart
    BY <2>3 DEF Restart, OwnersConnected
  <2>4. CASE Tick
    <3>1. \A i \in intents : [i EXCEPT !.left = IF @ > 0 THEN @ - 1 ELSE 0].session = i.session
      BY DEF TypeOK, Intents
    <3>2. \A x \in active : [x EXCEPT !.left = IF @ > -1 THEN @ - 1 ELSE -1].session = x.session
      BY DEF TypeOK, TxnState
    <3>3. \A i \in intents' : \E j \in intents : j.session = i.session
      BY <2>4, <3>1 DEF Tick
    <3>4. \A x \in active' : \E y \in active : y.session = x.session
      BY <2>4, <3>2 DEF Tick
    <3> QED
      BY <2>4, <3>3, <3>4, SameConnections DEF Tick
  <2> QED
    BY <1>4, <2>1, <2>2, <2>3, <2>4 DEF Daemon
<1>5. CASE UNCHANGED vars
  BY <1>5, SameConnections DEF vars
<1> QED
  BY <1>1, <1>2, <1>3, <1>4, <1>5 DEF Next

(* A claim never outlives its owner's connections: the deregistration at   *)
(* the end of conn.rs handle takes every intent and every transaction of   *)
(* the session, and no later step of the broker stores one for it.         *)
THEOREM ClaimsHaveOwners == Spec => []OwnersConnected
<1>1. Init => OwnersConnected
  BY DEF Init, OwnersConnected
<1> QED
  BY <1>1, OwnersStep, BrokerTypeCorrect, PTL DEF Spec

(***************************************************************************)
(* Recovery.  What the journal tells is not inductive: it needs that an id *)
(* stands for one transaction, that nothing is recorded for an id between  *)
(* its journal entry and its grant, and that the lines already ended tell  *)
(* nothing that the last one, which the next entry may spoil, conceals.    *)
(***************************************************************************)

Undecided(q) == q.op = "grant"

\* An id in use is one the journal knows or has lost an entry of.
Used(t) == journal[t] # "unknown" \/ t \in lost

\* What the journal has of a transaction that is open, and of one that is not.
ToldOpen(t) ==
    /\ journal[t] # "completed" /\ ended[t] # "completed"
    /\ t \notin lost => journal[t] = "incomplete"
ToldOver(t) == t \notin lost => journal[t] = "completed"

Conceals == \A t \in Txns : journal[t] = "unknown" => ended[t] = "unknown"

\* What an id of a transaction stands for: an id in use names one transaction, and while
\* its claim is still to be decided it names nothing else.
TxnIds ==
    /\ \A x \in active : Used(x.txn)
    /\ \A q \in requests : Used(q.txn)
    /\ \A x, y \in active : x.txn = y.txn => x = y
    /\ \A q \in requests : Undecided(q) =>
          /\ ToldOpen(q.txn)
          /\ \A x \in active : x.txn # q.txn
          /\ \A p \in requests : p.txn = q.txn => p = q

Told ==
    \A x \in active : /\ ~x.committed => ToldOpen(x.txn)
                      /\ x.committed => ToldOver(x.txn)

TxnInv == TxnIds /\ Told /\ Conceals

\* What an append does to each transaction, whatever becomes of its entries.
LEMMA Appended ==
    ASSUME TypeOK, NEW T \in SUBSET Txns, NEW as \in Replayed, Append(T, as), NEW t \in Txns
    PROVE  /\ t \in lost => t \in lost'
           /\ ended'[t] = ended[t] \/ (t \in T /\ ended'[t] = as)
           /\ journal'[t] \in {journal[t], ended[t]} \/ (t \in T /\ journal'[t] = as)
           /\ t \notin lost' => journal'[t] = IF t \in T THEN as ELSE journal[t]
           /\ journal'[t] = journal[t] \/ journal'[t] = ended'[t] \/ journal'[t] = as
           /\ ended'[t] # ended[t] => journal'[t] = as
<1>1. PICK fate \in [T -> Fates] :
          LET fated(k) == {u \in T : fate[u] = k}
              written  == fated("unwritten") # T
          IN  /\ ended' = [u \in Txns |-> IF u \in fated("line") THEN as ELSE ended[u]]
              /\ journal' = IF written
                            THEN [u \in Txns |-> IF u \in fated("last") THEN as ELSE ended'[u]]
                            ELSE journal
              /\ lost' = lost \cup (T \ (fated("line") \cup fated("last")))
                              \cup (IF written THEN {u \in Txns : journal[u] # ended[u]} ELSE {})
  BY DEF Append
<1> DEFINE fated(k) == {u \in T : fate[u] = k}
           written  == fated("unwritten") # T
<1>2. ended'[t] = IF t \in fated("line") THEN as ELSE ended[t]
  BY <1>1
<1>3. CASE written
  <2>1. journal'[t] = IF t \in fated("last") THEN as ELSE ended'[t]
    BY <1>1, <1>3
  <2>2. t \notin lost' => /\ t \notin lost /\ journal[t] = ended[t]
                          /\ t \in T => t \in fated("line") \/ t \in fated("last")
    BY <1>1, <1>3
  <2>3. t \in lost => t \in lost'
    BY <1>1
  <2>4. fated("line") \subseteq T /\ fated("last") \subseteq T
    OBVIOUS
  <2> HIDE DEF fated
  <2> QED
    BY <1>2, <2>1, <2>2, <2>3, <2>4
<1>4. CASE ~written
  <2>1. journal' = journal
    BY <1>1, <1>4
  <2>2. t \notin fated("line") /\ t \notin fated("last")
    BY <1>4
  <2>3. lost' = lost \cup T
    BY <1>1, <1>4
  <2> HIDE DEF fated
  <2> QED
    BY <1>2, <2>1, <2>2, <2>3
<1> QED
  BY <1>3, <1>4

\* A transaction that is not written about keeps what the journal tells of it.
LEMMA AppendSpares ==
    ASSUME TypeOK, NEW T \in SUBSET Txns, NEW as \in Replayed, Append(T, as),
           NEW t \in Txns \ T, Used(t)
    PROVE  Used(t)' /\ (ToldOpen(t) => ToldOpen(t)') /\ (ToldOver(t) => ToldOver(t)')
BY Appended DEF Used, ToldOpen, ToldOver

\* An id that is written about is in use; nothing is concealed that was not.
LEMMA AppendUses ==
    ASSUME TypeOK, NEW T \in SUBSET Txns, NEW as \in {"incomplete", "completed"},
           Append(T, as), Conceals
    PROVE  (\A t \in T : Used(t)') /\ Conceals'
<1>1. as \in Replayed
  BY DEF Replayed
<1>2. ASSUME NEW t \in T PROVE Used(t)'
  BY <1>1, Appended DEF Used
<1>3. ASSUME NEW t \in Txns, journal'[t] = "unknown" PROVE ended'[t] = "unknown"
  BY <1>1, <1>3, Appended DEF Conceals
<1> QED
  BY <1>2, <1>3 DEF Conceals

\* A step that forgets transactions and requests and leaves the journal alone.
LEMMA FewerTxns ==
    ASSUME TxnInv, active' \subseteq active, requests' \subseteq requests, UNCHANGED journalVars
    PROVE  TxnInv'
BY DEF TxnInv, TxnIds, Told, Used, ToldOpen, ToldOver, Conceals, Undecided, journalVars

\* A step that drops the transactions of X, which no claim is pending for, and closes
\* them in the journal.
LEMMA ClosedTxns ==
    ASSUME TypeOK, TxnInv, NEW X \in SUBSET active, active' = active \ X,
           requests' = requests, Append({x.txn : x \in X}, "completed")
    PROVE  TxnInv'
<1> DEFINE T == {x.txn : x \in X}
<1>1. (\A x \in active : x.txn \in Txns) /\ \A q \in requests : q.txn \in Txns
  BY DEF TypeOK, TxnState, Requests
<1>2. T \in SUBSET Txns /\ "completed" \in Replayed
  BY <1>1 DEF Replayed
<1>3. \A x \in active' : x \in active /\ x.txn \in Txns \ T
  BY <1>1 DEF TxnInv, TxnIds
<1>4. (\A t \in T : Used(t)') /\ Conceals'
  BY <1>2, AppendUses DEF TxnInv
<1>5. \A q \in requests : Undecided(q) => q.txn \in Txns \ T
  BY <1>1 DEF TxnInv, TxnIds
<1> HIDE DEF T
<1>6. ASSUME NEW t \in Txns \ T, Used(t)
      PROVE  Used(t)' /\ (ToldOpen(t) => ToldOpen(t)') /\ (ToldOver(t) => ToldOver(t)')
  BY <1>2, <1>6, AppendSpares DEF T
<1>7. (\A x \in active' : Used(x.txn)') /\ Told'
  BY <1>3, <1>6 DEF TxnInv, TxnIds, Told
<1>8. \A q \in requests' : Used(q.txn)'
  BY <1>1, <1>4, <1>6 DEF TxnInv, TxnIds
<1>9. \A q \in requests' : Undecided(q) => ToldOpen(q.txn)'
  BY <1>5, <1>6 DEF TxnInv, TxnIds
<1> QED
  BY <1>3, <1>4, <1>7, <1>8, <1>9 DEF TxnInv, TxnIds, Undecided

LEMMA TxnMultiIntent ==
    ASSUME TypeOK, TxnInv, NEW c \in Conns, NEW t \in Txns, NEW claims \in SUBSET Places,
           MultiIntent(c, t, claims)
    PROVE  TxnInv'
<1> DEFINE new == [conn |-> c, op |-> "grant", txn |-> t, todo |-> claims, done |-> {}]
<1>1. ~Used(t) /\ Append({t}, "incomplete") /\ "incomplete" \in Replayed
  BY DEF MultiIntent, Used, Replayed
<1>2. requests' = requests \cup {new} /\ active' = active
  BY DEF MultiIntent
<1>3. \A x \in active : x.txn \in Txns \ {t} /\ Used(x.txn)
  BY <1>1 DEF TypeOK, TxnState, TxnInv, TxnIds
<1>4. \A q \in requests : q.txn \in Txns \ {t} /\ Used(q.txn)
  BY <1>1 DEF TypeOK, Requests, TxnInv, TxnIds
<1>5. new.txn = t /\ Undecided(new)
  BY DEF Undecided
<1> HIDE DEF new
<1>6. ASSUME NEW u \in Txns \ {t}, Used(u)
      PROVE  Used(u)' /\ (ToldOpen(u) => ToldOpen(u)') /\ (ToldOver(u) => ToldOver(u)')
  BY <1>1, <1>6, AppendSpares
<1>7. Used(t)' /\ Conceals'
  BY <1>1, AppendUses DEF TxnInv
<1>8. ToldOpen(t)'
  <2>1. journal[t] = "unknown" /\ ended[t] = "unknown"
    BY <1>1 DEF Used, TxnInv, Conceals
  <2> QED
    BY <1>1, <2>1, Appended DEF ToldOpen
<1>9. (\A x \in active' : Used(x.txn)') /\ Told'
  BY <1>2, <1>3, <1>6 DEF TxnInv, Told
<1>10. \A q \in requests' : Used(q.txn)' /\ (Undecided(q) => ToldOpen(q.txn)')
  BY <1>2, <1>4, <1>5, <1>6, <1>7, <1>8 DEF TxnInv, TxnIds
<1> QED
  BY <1>2, <1>3, <1>4, <1>5, <1>7, <1>9, <1>10 DEF TxnInv, TxnIds, Undecided

LEMMA TxnGrant ==
    ASSUME TypeOK, TxnInv, NEW q \in requests, TryGrantMulti(q)
    PROVE  TxnInv'
<1> DEFINE new == [txn |-> q.txn, session |-> registered[q.conn], claims |-> q.todo,
                   left |-> TTL, committed |-> FALSE]
<1>1. active' \subseteq active \cup {new} /\ new.txn = q.txn /\ ~new.committed
  BY DEF TryGrantMulti
<1>2. requests' = requests \ {q} /\ UNCHANGED <<journal, ended, lost>>
  BY DEF TryGrantMulti, journalVars
<1>3. Undecided(q)
  BY DEF TryGrantMulti, Undecided
<1>4. /\ ToldOpen(q.txn) /\ Used(q.txn)
      /\ \A x \in active : x.txn # q.txn
      /\ \A p \in requests' : p.txn # q.txn
  BY <1>2, <1>3 DEF TxnInv, TxnIds
<1> HIDE DEF new
<1> QED
  BY <1>1, <1>2, <1>4
     DEF TxnInv, TxnIds, Told, Used, ToldOpen, ToldOver, Conceals, Undecided

LEMMA TxnMultiCommit ==
    ASSUME TypeOK, TxnInv, NEW c \in Conns, NEW x \in active, MultiCommit(c, x)
    PROVE  TxnInv'
<1> DEFINE new == [conn |-> c, op |-> "commit", txn |-> x.txn, todo |-> x.claims, done |-> {}]
<1>1. requests' = requests \cup {new} /\ active' = active /\ UNCHANGED <<journal, ended, lost>>
  BY DEF MultiCommit, journalVars
<1>2. new.txn = x.txn /\ ~Undecided(new)
  BY DEF Undecided
<1> HIDE DEF new
<1> QED
  BY <1>1, <1>2 DEF TxnInv, TxnIds, Told, Used, ToldOpen, ToldOver, Conceals, Undecided

LEMMA TxnCommitFile ==
    ASSUME TypeOK, TxnInv, NEW q \in requests, NEW f, NEW parent, CommitFile(q, f, parent)
    PROVE  TxnInv'
<1> DEFINE next == [q EXCEPT !.todo = @ \ {a \in q.todo : a[1] = f}, !.done = @ \cup {f}]
<1>1. /\ requests' \subseteq (requests \ {q}) \cup {next} /\ active' = active
      /\ UNCHANGED <<journal, ended, lost>>
  BY DEF CommitFile, journalVars
<1>2. next.txn = q.txn /\ ~Undecided(next) /\ ~Undecided(q)
  BY DEF CommitFile, Undecided, TypeOK, Requests
<1> HIDE DEF next
<1> QED
  BY <1>1, <1>2 DEF TxnInv, TxnIds, Told, Used, ToldOpen, ToldOver, Conceals, Undecided

LEMMA TxnFinish ==
    ASSUME TypeOK, TxnInv, NEW q \in requests, FinishCommit(q)
    PROVE  TxnInv'
<1> DEFINE marked(x) == IF x.txn = q.txn THEN [x EXCEPT !.committed = TRUE] ELSE x
<1>1. \A x \in active : marked(x).txn = x.txn /\ (x.txn = q.txn => marked(x).committed)
  BY DEF TypeOK, TxnState
<1>2. \A y \in active' : \E x \in active : y = marked(x)
  BY DEF FinishCommit
<1>3. q.txn \in Txns /\ Append({q.txn}, "completed") /\ "completed" \in Replayed
  BY DEF FinishCommit, TypeOK, Requests, Replayed
<1>4. requests' = requests \ {q} /\ q.op = "commit"
  BY DEF FinishCommit
<1>5. (\A x \in active : x.txn \in Txns) /\ \A p \in requests : p.txn \in Txns
  BY DEF TypeOK, TxnState, Requests
<1>6. \A p \in requests : Undecided(p) => p.txn # q.txn
  BY <1>4 DEF TxnInv, TxnIds, Undecided
<1>7. Used(q.txn)' /\ Conceals'
  BY <1>3, AppendUses DEF TxnInv
<1>8. ToldOver(q.txn)'
  BY <1>3, Appended DEF ToldOver
<1>9. ASSUME NEW u \in Txns \ {q.txn}, Used(u)
      PROVE  Used(u)' /\ (ToldOpen(u) => ToldOpen(u)') /\ (ToldOver(u) => ToldOver(u)')
  BY <1>3, <1>9, AppendSpares
<1>10. ASSUME NEW y \in active'
      PROVE  /\ y.txn \in Txns /\ Used(y.txn)'
             /\ ~y.committed => ToldOpen(y.txn)'
             /\ y.committed => ToldOver(y.txn)'
             /\ \E x \in active : y.txn = x.txn
  <2>1. PICK x \in active : y = marked(x)
    BY <1>2
  <2>2. CASE x.txn = q.txn
    BY <1>1, <1>3, <1>7, <1>8, <2>1, <2>2
  <2>3. CASE x.txn # q.txn
    BY <1>5, <1>9, <2>1, <2>3 DEF TxnInv, TxnIds, Told
  <2> QED
    BY <2>2, <2>3
<1>11. ASSUME NEW y \in active', NEW z \in active', y.txn = z.txn PROVE y = z
  <2>1. PICK w \in active : y = marked(w)
    BY <1>2
  <2>2. PICK v \in active : z = marked(v)
    BY <1>2
  <2>3. w.txn = v.txn
    BY <1>1, <1>11, <2>1, <2>2
  <2>4. w = v
    BY <2>3 DEF TxnInv, TxnIds
  <2> QED
    BY <2>1, <2>2, <2>4
<1> HIDE DEF marked
<1>12. \A p \in requests' : Used(p.txn)' /\ (Undecided(p) => ToldOpen(p.txn)')
  BY <1>4, <1>5, <1>6, <1>7, <1>9 DEF TxnInv, TxnIds
<1>13. TxnIds'
  BY <1>4, <1>10, <1>11, <1>12 DEF TxnInv, TxnIds, Undecided
<1>14. Told'
  BY <1>10 DEF Told
<1> QED
  BY <1>7, <1>13, <1>14 DEF TxnInv

LEMMA TxnTick ==
    ASSUME TypeOK, TxnInv, Tick
    PROVE  TxnInv'
<1> DEFINE later(x) == [x EXCEPT !.left = IF @ > -1 THEN @ - 1 ELSE -1]
<1>1. \A x \in active : later(x).txn = x.txn /\ later(x).committed = x.committed
  BY DEF TypeOK, TxnState
<1>2. \A y \in active' : \E x \in active : y = later(x)
  BY DEF Tick
<1>3. requests' = requests /\ UNCHANGED <<journal, ended, lost>>
  BY DEF Tick, journalVars
<1> HIDE DEF later
<1>4. TxnIds'
  BY <1>1, <1>2, <1>3 DEF TxnInv, TxnIds, Used, ToldOpen, Undecided
<1>5. Told' /\ Conceals'
  BY <1>1, <1>2, <1>3 DEF TxnInv, Told, ToldOpen, ToldOver, Conceals
<1> QED
  BY <1>4, <1>5 DEF TxnInv

LEMMA TxnStep == TypeOK /\ TxnInv /\ [Next]_vars => TxnInv'
<1> SUFFICES ASSUME TypeOK, TxnInv, [Next]_vars PROVE TxnInv'
  OBVIOUS
<1>1. CASE Client
  BY <1>1, FewerTxns DEF Client, Hello, Hangup, Die
<1>2. CASE SingleFile
  BY <1>2, FewerTxns DEF SingleFile, Disconnect, Deregister, Intent, ReleaseIntent, Commit
<1>3. CASE MultiFile
  <2>1. ASSUME NEW c \in Conns, NEW t \in Txns, RefuseCommit(c, t) PROVE TxnInv'
    BY <2>1, FewerTxns DEF RefuseCommit
  <2>2. ASSUME NEW c \in Conns, NEW x \in active, MultiAbort(c, x) PROVE TxnInv'
    <3>1. active' = active \ {x} /\ requests' = requests
      BY <2>2 DEF MultiAbort, Release
    <3>2. {y.txn : y \in {x}} = {x.txn}
      OBVIOUS
    <3>3. Append({y.txn : y \in {x}}, "completed")
      BY <2>2, <3>2 DEF MultiAbort
    <3> QED
      BY <3>1, <3>3, ClosedTxns
  <2> QED
    BY <1>3, <2>1, <2>2, TxnMultiIntent, TxnGrant, TxnMultiCommit, TxnCommitFile, TxnFinish
       DEF MultiFile
<1>4. CASE Daemon
  <2>1. CASE Sweep
    <3> DEFINE stale == {x \in active : Stale(x)}
    <3>1. active' = active \ stale /\ requests' = requests
      BY <2>1 DEF Sweep
    <3>2. Append({x.txn : x \in stale}, "completed")
      BY <2>1 DEF Sweep
    <3> QED
      BY <3>1, <3>2, ClosedTxns
  <2>2. CASE ReapScan \/ ReapDead
    BY <2>2, FewerTxns DEF ReapScan, ReapDead, Deregister
  <2>3. CASE Restart
    <3>1. Conceals'
      BY <2>3, AppendUses DEF Restart, TxnInv
    <3> QED
      BY <2>3, <3>1 DEF Restart, TxnInv, TxnIds, Told
  <2> QED
    BY <1>4, <2>1, <2>2, <2>3, TxnTick DEF Daemon
<1>5. CASE UNCHANGED vars
  BY <1>5, FewerTxns DEF vars
<1> QED
  BY <1>1, <1>2, <1>3, <1>4, <1>5 DEF Next

(* Whatever appends fail, are cut short or spoil the line before them, the *)
(* journal never closes a transaction that is open, and of one it has lost *)
(* no entry of it tells whether it is open: what replay_journal makes of   *)
(* it after a crash at any moment is what the broker held.  A transaction  *)
(* with a lost entry may be missed, or rolled back once it is over.        *)
THEOREM JournalIsTrue == Spec => []JournalTells
<1>1. Init => TxnInv
  BY DEF Init, TxnInv, TxnIds, Told, Conceals
<1>2. Spec => []TxnInv
  BY <1>1, TxnStep, BrokerTypeCorrect, PTL DEF Spec
<1>3. TypeOK /\ TxnInv => JournalTells
  BY DEF TypeOK, TxnState, Replayed, TxnInv, Told, ToldOpen, ToldOver, JournalTells
<1> QED
  BY <1>2, <1>3, BrokerTypeCorrect, PTL
=============================================================================
