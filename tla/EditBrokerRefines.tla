-------------------------- MODULE EditBrokerRefines --------------------------
(***************************************************************************)
(* The edit broker implements the table of locks of EditLocks, for any     *)
(* number of sessions, connections, files, transactions and ticks.  Every  *)
(* step of the broker leaves what is held and asked alone, or is one step  *)
(* of the table.  What a step needs of the state before it is TypeOK alone:*)
(* in particular that a task is in one request at a time.                  *)
(***************************************************************************)
EXTENDS EditBrokerProofs

\* Who is held by whom depends on the intents that have not expired.
LEMMA HeldIs ==
    ASSUME NEW h
    PROVE  h \in Held <=> \E i \in intents : i.left > 0 /\ h = <<i.session, i.at>>
  BY DEF Held

\* Dropping intents, and nothing else, gives places up.
LEMMA FewerHeld ==
    ASSUME intents' \subseteq intents, Asked' = Asked
    PROVE  \E H \in SUBSET Held : Locks!GiveUp(H)
  <1>1. Held' \subseteq Held
    BY DEF Held
  <1>2. (Held \ Held') \in SUBSET Held /\ Held' = Held \ (Held \ Held')
    BY <1>1
  <1> QED  BY <1>2 DEF Locks!GiveUp

\* What a claim that is refused leaves behind holds the same places.
LEMMA ExpiredHoldNothing ==
    ASSUME intents \subseteq Intents, NEW files, intents' = Unexpired(files)
    PROVE  Held' = Held
  BY DEF Unexpired, Held, Intents

\* The broker refuses a claim if and only if a peer holds one of its places.
LEMMA ContestedIsHeld ==
    ASSUME NEW s, NEW claims \in SUBSET Places
    PROVE  Contested(s, claims) <=> ~Locks!Free(s, claims)
  <1>1. ASSUME NEW i \in Unexpired(FilesOf(claims)), i.session # s, i.at \in claims
        PROVE  ~Locks!Free(s, claims)
    <2>1. i.at[1] \in FilesOf(claims)
      BY <1>1 DEF FilesOf
    <2>2. i \in intents /\ i.left > 0
      BY <1>1, <2>1 DEF Unexpired
    <2>3. <<i.session, i.at>> \in Held
      BY <2>2, HeldIs
    <2> QED  BY <1>1, <2>3 DEF Locks!Free
  <1>2. ASSUME NEW h \in Held, h[2] \in claims, h[1] # s
        PROVE  Contested(s, claims)
    <2>1. PICK i \in intents : i.left > 0 /\ h = <<i.session, i.at>>
      BY HeldIs
    <2>2. i \in Unexpired(FilesOf(claims)) /\ i.session # s /\ i.at \in claims
      BY <1>2, <2>1 DEF Unexpired
    <2> QED  BY <2>2 DEF Contested
  <1> QED  BY <1>1, <1>2 DEF Contested, Locks!Free

\* A claim that is granted takes all of its places.
LEMMA GrantTakes ==
    ASSUME intents \subseteq Intents, NEW s \in Sessions, NEW claims \in SUBSET Places,
           intents' = Granted(s, claims), ~Contested(s, claims)
    PROVE  Locks!Take(s, claims)
  <1> DEFINE new == [session : {s}, at : claims, left : {TTL}]
  <1>1. \A i \in new : i.session = s /\ i.at \in claims /\ i.left > 0
    BY ConfigAssumption
  <1>2. ASSUME NEW h \in Held'
        PROVE  h \in Held \cup ({s} \X claims)
    <2>1. PICK i \in Granted(s, claims) : i.left > 0 /\ h = <<i.session, i.at>>
      BY DEF Held
    <2>2. CASE i \in new
      BY <1>1, <2>1, <2>2
    <2>3. CASE i \in intents
      BY <2>1, <2>3, HeldIs
    <2> QED  BY <2>1, <2>2, <2>3 DEF Granted, Unexpired
  <1>3. ASSUME NEW a \in claims
        PROVE  <<s, a>> \in Held'
    <2>1. [session |-> s, at |-> a, left |-> TTL] \in Granted(s, claims)
      BY DEF Granted
    <2>2. TTL > 0
      BY ConfigAssumption
    <2> QED  BY <2>1, <2>2 DEF Held
  <1>4. ASSUME NEW h \in Held
        PROVE  h \in Held'
    <2>1. PICK i \in intents : i.left > 0 /\ h = <<i.session, i.at>>
      BY HeldIs
    <2>2. CASE i \in Dropped(s, claims)
      <3>1. i \in Granted(s, claims)
        BY <2>1, <2>2 DEF Granted, Unexpired
      <3> QED  BY <2>1, <3>1 DEF Held
    <2>3. CASE i \notin Dropped(s, claims)
      <3>1. i.session = s /\ i.at \in claims
        BY <2>3 DEF Dropped
      <3> QED  BY <1>3, <2>1, <3>1
    <2> QED  BY <2>2, <2>3
  <1>5. \A h \in {s} \X claims : h \in Held'
    BY <1>3
  <1> QED  BY <1>2, <1>4, <1>5 DEF Locks!Take

-----------------------------------------------------------------------------
Asking(q) == [client |-> q.conn, session |-> registered[q.conn], claims |-> q.todo]

\* Which requests wait for a grant, and for whom, is all that Asked depends on.
LEMMA SameAsked ==
    ASSUME \A q \in requests : registered'[q.conn] = registered[q.conn],
           {q \in requests' : q.op = "grant"} = {q \in requests : q.op = "grant"}
    PROVE  Asked' = Asked
  BY DEF Asked

LEMMA SimClient ==
    ASSUME TypeOK, Client
    PROVE  UNCHANGED <<Held, Asked>>
  <1>1. intents' = intents /\ requests' = requests
    BY DEF Client, Hello, Hangup, Die
  <1>2. ASSUME NEW c \in Conns, NEW s \in Sessions, Hello(c, s), NEW q \in requests
        PROVE  registered'[q.conn] = registered[q.conn]
    <2>1. registered[c] = Closed /\ registered' = [registered EXCEPT ![c] = s]
      BY <1>2 DEF Hello
    <2>2. registered[q.conn] # Closed /\ q.conn \in Conns
      BY DEF TypeOK, Requests
    <2> QED  BY <2>1, <2>2 DEF TypeOK
  <1>3. \A q \in requests : registered'[q.conn] = registered[q.conn]
    BY <1>2 DEF Client, Hangup, Die
  <1> QED  BY <1>1, <1>3, SameAsked DEF Held

LEMMA SimIntent ==
    ASSUME TypeOK, NEW c \in Conns, NEW f \in Files, NEW paths \in SUBSET Paths,
           Intent(c, f, paths)
    PROVE  Locks!Next \/ UNCHANGED <<Held, Asked>>
  <1> DEFINE s == registered[c]
             claims == {f} \X paths
  <1>1. Claim(s, claims) /\ UNCHANGED <<registered, requests>>
    BY DEF Intent
  <1>2. s \in Sessions /\ claims \in SUBSET Places
    BY FileClaims DEF Intent, Ready, TypeOK
  <1>3. Asked' = Asked
    BY <1>1, SameAsked
  <1>4. intents \subseteq Intents
    BY DEF TypeOK
  <1>5. CASE Contested(s, claims)
    <2>1. intents' = Unexpired(FilesOf(claims))
      BY <1>1, <1>5 DEF Claim
    <2> HIDE DEF s, claims
    <2> QED  BY <1>3, <1>4, <2>1, ExpiredHoldNothing
  <1>6. CASE ~Contested(s, claims)
    <2>1. intents' = Granted(s, claims)
      BY <1>1, <1>6 DEF Claim
    <2>2. Locks!Take(s, claims) /\ Locks!Free(s, claims)
      <3> HIDE DEF s, claims
      <3> QED  BY <1>2, <1>4, <1>6, <2>1, GrantTakes, ContestedIsHeld
    <2>3. Locks!ClaimFile(s, f, paths)
      BY <1>3, <2>2 DEF Locks!ClaimFile
    <2> QED  BY <1>2, <2>3 DEF Locks!Next
  <1> QED  BY <1>5, <1>6

\* The steps that end claims and answer nothing.
LEMMA SimGiveUp ==
    ASSUME intents' \subseteq intents, Asked' = Asked
    PROVE  Locks!Next
  BY FewerHeld DEF Locks!Next

LEMMA SimSingleFile ==
    ASSUME TypeOK, SingleFile
    PROVE  Locks!Next \/ UNCHANGED <<Held, Asked>>
  <1>1. PICK c \in Conns :
           \/ Disconnect(c)
           \/ \E f \in Files, paths \in (SUBSET Paths) \ {{}} :
                 \/ Intent(c, f, paths)
                 \/ ReleaseIntent(c, f, paths)
                 \/ \E parent \in 0..(MaxRev - 1) : Commit(c, f, paths, parent)
    BY DEF SingleFile
  <1>2. CASE Disconnect(c)
    <2>1. intents' \subseteq intents /\ requests' = requests
      BY <1>2 DEF Disconnect, Deregister
    <2>2. \A q \in requests : registered'[q.conn] = registered[q.conn]
      BY <1>2 DEF Disconnect, Busy, TypeOK
    <2> QED  BY <2>1, <2>2, SameAsked, SimGiveUp
  <1>3. ASSUME NEW f \in Files, NEW paths \in SUBSET Paths, Intent(c, f, paths)
        PROVE  Locks!Next \/ UNCHANGED <<Held, Asked>>
    BY <1>3, SimIntent
  <1>4. ASSUME NEW f \in Files, NEW paths \in SUBSET Paths, NEW parent \in 0..(MaxRev - 1),
               ReleaseIntent(c, f, paths) \/ Commit(c, f, paths, parent)
        PROVE  Locks!Next
    <2>1. intents' \subseteq intents /\ UNCHANGED <<registered, requests>>
      BY <1>4 DEF ReleaseIntent, Commit, RecordCommit, Dropped
    <2> QED  BY <2>1, SameAsked, SimGiveUp
  <1>5. 0 \in 0..(MaxRev - 1)
    BY ConfigAssumption
  <1> QED  BY <1>1, <1>2, <1>3, <1>4, <1>5

-----------------------------------------------------------------------------
LEMMA SimMultiIntent ==
    ASSUME TypeOK, NEW c \in Conns, NEW t \in Txns, NEW claims \in SUBSET Places,
           MultiIntent(c, t, claims)
    PROVE  Locks!Next
  <1> DEFINE new == [conn |-> c, op |-> "grant", txn |-> t, todo |-> claims, done |-> {}]
             ask == [client |-> c, session |-> registered[c], claims |-> claims]
  <1>1. /\ requests' = requests \cup {new}
        /\ UNCHANGED <<registered, intents>>
    BY DEF MultiIntent
  <1>2. \A q \in requests : q.conn # c
    BY DEF MultiIntent, Ready, Busy
  <1>3. registered[c] \in Sessions
    BY DEF MultiIntent, Ready, TypeOK
  <1>4. ask \notin Asked
    BY <1>2 DEF Asked
  <1>5. Asked' = Asked \cup {ask}
    <2>1. Asked = {Asking(q) : q \in {r \in requests : r.op = "grant"}}
      BY DEF Asked, Asking
    <2>2. Asked' = {Asking(q) : q \in {r \in requests \cup {new} : r.op = "grant"}}
      BY <1>1 DEF Asked, Asking
    <2>3. Asking(new) = ask /\ new.op = "grant"
      BY DEF Asking
    <2>4. {r \in requests \cup {new} : r.op = "grant"} =
             {r \in requests : r.op = "grant"} \cup {new}
      BY <2>3
    <2> HIDE DEF new, ask
    <2> QED  BY <2>1, <2>2, <2>3, <2>4
  <1>6. ask \in Locks!Claims
    BY <1>3 DEF Locks!Claims, Locks!Places, Places
  <1>7. Held' = Held
    BY <1>1 DEF Held
  <1>8. Locks!Ask(ask)
    BY <1>4, <1>5, <1>7 DEF Locks!Ask
  <1> QED  BY <1>6, <1>8 DEF Locks!Next

LEMMA SimGrant ==
    ASSUME TypeOK, NEW q \in requests, TryGrantMulti(q)
    PROVE  Locks!Next
  <1> DEFINE s == registered[q.conn]
             claims == q.todo
  <1>1. /\ Claim(s, claims) /\ q.op = "grant" /\ requests' = requests \ {q}
        /\ registered' = registered
    BY DEF TryGrantMulti
  <1>2. /\ s \in Sessions /\ claims \in SUBSET Places /\ intents \subseteq Intents
        /\ \A r \in requests : r.conn = q.conn => r = q
    BY DEF TypeOK, Requests
  <1>3. Asking(q) \in Asked /\ Asking(q).session = s /\ Asking(q).claims = claims
    BY <1>1 DEF Asked, Asking
  <1>4. Asked' = Asked \ {Asking(q)}
    <2>1. \A r \in requests : r # q => Asking(r) # Asking(q)
      BY <1>2 DEF Asking
    <2>2. Asked = {Asking(r) : r \in {p \in requests : p.op = "grant"}}
      BY DEF Asked, Asking
    <2>3. Asked' = {Asking(r) : r \in {p \in requests \ {q} : p.op = "grant"}}
      BY <1>1 DEF Asked, Asking
    <2> QED  BY <2>1, <2>2, <2>3
  <1> HIDE DEF s, claims
  <1>5. CASE Contested(s, claims)
    <2>1. intents' = Unexpired(FilesOf(claims))
      BY <1>1, <1>5 DEF Claim
    <2>2. Held' = Held
      BY <1>2, <2>1, ExpiredHoldNothing
    <2>3. ~Locks!Free(s, claims)
      BY <1>2, <1>5, ContestedIsHeld
    <2>4. Locks!Refuse(Asking(q))
      BY <1>3, <1>4, <2>2, <2>3 DEF Locks!Refuse
    <2> QED  BY <1>3, <2>4 DEF Locks!Next
  <1>6. CASE ~Contested(s, claims)
    <2>1. intents' = Granted(s, claims)
      BY <1>1, <1>6 DEF Claim
    <2>2. Locks!Take(s, claims) /\ Locks!Free(s, claims)
      BY <1>2, <1>6, <2>1, GrantTakes, ContestedIsHeld
    <2>3. Locks!Grant(Asking(q))
      BY <1>3, <1>4, <2>2 DEF Locks!Grant
    <2> QED  BY <1>3, <2>3 DEF Locks!Next
  <1> QED  BY <1>5, <1>6

LEMMA SimMultiFile ==
    ASSUME TypeOK, MultiFile
    PROVE  Locks!Next \/ UNCHANGED <<Held, Asked>>
  <1>1. ASSUME NEW c \in Conns, NEW t \in Txns, NEW claims \in SUBSET Places,
               MultiIntent(c, t, claims)
        PROVE  Locks!Next
    BY <1>1, SimMultiIntent
  <1>2. ASSUME NEW c \in Conns, NEW t \in Txns, RefuseCommit(c, t)
        PROVE  UNCHANGED <<Held, Asked>>
    BY <1>2 DEF RefuseCommit, Held, Asked
  <1>3. ASSUME NEW c \in Conns, NEW x \in active, MultiCommit(c, x)
        PROVE  UNCHANGED <<Held, Asked>>
    <2>1. UNCHANGED <<registered, intents>>
      BY <1>3 DEF MultiCommit
    <2>2. {q \in requests' : q.op = "grant"} = {q \in requests : q.op = "grant"}
      BY <1>3 DEF MultiCommit
    <2> QED  BY <2>1, <2>2, SameAsked DEF Held
  <1>4. ASSUME NEW c \in Conns, NEW x \in active, MultiAbort(c, x)
        PROVE  Locks!Next
    <2>1. intents' \subseteq intents /\ UNCHANGED <<registered, requests>>
      BY <1>4 DEF MultiAbort, Release
    <2> QED  BY <2>1, SameAsked, SimGiveUp
  <1>5. ASSUME NEW q \in requests, TryGrantMulti(q)
        PROVE  Locks!Next
    BY <1>5, SimGrant
  <1>6. ASSUME NEW q \in requests, NEW f \in Files, NEW parent \in 0..(MaxRev - 1),
               CommitFile(q, f, parent)
        PROVE  Locks!Next
    <2> DEFINE next == [q EXCEPT !.todo = @ \ {a \in q.todo : a[1] = f}, !.done = @ \cup {f}]
    <2>1. intents' \subseteq intents /\ UNCHANGED registered
      BY <1>6 DEF CommitFile, RecordCommit, Dropped
    <2>2. /\ q.op = "commit" /\ next.op = "commit"
          /\ requests' \subseteq (requests \ {q}) \cup {next}
          /\ requests \ {q} \subseteq requests'
      BY <1>6 DEF CommitFile, TypeOK, Requests
    <2> HIDE DEF next
    <2>3. {r \in requests' : r.op = "grant"} = {r \in requests : r.op = "grant"}
      BY <2>2
    <2> QED  BY <2>1, <2>3, SameAsked, SimGiveUp
  <1>7. ASSUME NEW q \in requests, FinishCommit(q)
        PROVE  UNCHANGED <<Held, Asked>>
    <2>1. UNCHANGED <<registered, intents>>
      BY <1>7 DEF FinishCommit
    <2>2. {r \in requests' : r.op = "grant"} = {r \in requests : r.op = "grant"}
      BY <1>7 DEF FinishCommit
    <2> QED  BY <2>1, <2>2, SameAsked DEF Held
  <1> QED  BY <1>1, <1>2, <1>3, <1>4, <1>5, <1>6, <1>7 DEF MultiFile

-----------------------------------------------------------------------------
LEMMA SimTick ==
    ASSUME TypeOK, Tick
    PROVE  Locks!Next
  <1> DEFINE later(k) == [k EXCEPT !.left = IF @ > 0 THEN @ - 1 ELSE 0]
  <1>1. Asked' = Asked
    BY SameAsked DEF Tick
  <1>2. ASSUME NEW h \in Held'
        PROVE  h \in Held
    <2>1. PICK i \in intents' : i.left > 0 /\ h = <<i.session, i.at>>
      BY DEF Held
    <2>2. PICK k \in intents : i = later(k)
      BY DEF Tick
    <2>3. k.left \in 0..TTL /\ i.session = k.session /\ i.at = k.at
      BY <2>2 DEF TypeOK, Intents
    <2>4. k.left > 0
      BY <2>1, <2>2, <2>3, ConfigAssumption DEF TypeOK, Intents
    <2> QED  BY <2>1, <2>3, <2>4, HeldIs
  <1>3. (Held \ Held') \in SUBSET Held /\ Held' = Held \ (Held \ Held')
    BY <1>2
  <1> QED  BY <1>1, <1>3 DEF Locks!Next, Locks!GiveUp

LEMMA SimDaemon ==
    ASSUME TypeOK, Daemon
    PROVE  Locks!Next \/ UNCHANGED <<Held, Asked>>
  <1>1. CASE Sweep
    <2>1. intents' \subseteq intents /\ UNCHANGED <<registered, requests>>
      BY <1>1 DEF Sweep
    <2> QED  BY <2>1, SameAsked, SimGiveUp
  <1>2. CASE ReapScan
    BY <1>2 DEF ReapScan, Held, Asked
  <1>3. CASE ReapDead
    <2>1. intents' \subseteq intents /\ UNCHANGED <<registered, requests>>
      BY <1>3 DEF ReapDead, Deregister
    <2> QED  BY <2>1, SameAsked, SimGiveUp
  <1>4. CASE Tick
    BY <1>4, SimTick
  <1>5. CASE Restart
    <2>1. Held' = {} /\ Asked' = {}
      BY <1>5 DEF Restart, Held, Asked
    <2> QED  BY <2>1 DEF Locks!Next, Locks!Crash
  <1> QED  BY <1>1, <1>2, <1>3, <1>4, <1>5 DEF Daemon

\* The broker is a table of locks (state.rs record_intent, try_grant_multi, release_intent,
\* deregister, expire_stale_txns): every run of it is a run of EditLocks.
THEOREM BrokerImplementsLocks == Spec => ImplementsLocks
  <1>1. Init => Locks!Init
    BY DEF Init, Locks!Init, Held, Asked
  <1>2. TypeOK /\ [Next]_vars => [Locks!Next]_(Locks!vars)
    <2> SUFFICES ASSUME TypeOK, [Next]_vars PROVE Locks!Next \/ UNCHANGED <<Held, Asked>>
      BY DEF Locks!vars
    <2>1. CASE UNCHANGED vars
      BY <2>1 DEF vars, Held, Asked
    <2> QED  BY <2>1, SimClient, SimSingleFile, SimMultiFile, SimDaemon DEF Next
  <1> QED  BY <1>1, <1>2, BrokerTypeCorrect, PTL DEF Spec, ImplementsLocks, Locks!Spec

=============================================================================
