----------------------------- MODULE EditBroker -----------------------------
(***************************************************************************)
(* crates/pi-edit-broker: the daemon that coordinates edits of one host's  *)
(* sessions.  Each client connection has a task (conn.rs); all tasks and   *)
(* the reaper (reaper.rs) share one BrokerState (state.rs) behind a        *)
(* RwLock.  A step of this module is what a task does under one            *)
(* acquisition of that lock: handlers that take it more than once          *)
(* (MultiIntent, which journals before it locks, MultiCommit, which locks  *)
(* once per file, and the reaper, which looks for dead sessions under a    *)
(* read lock and deregisters them under a write lock) are several steps.   *)
(*                                                                         *)
(* Time is kept as what is left: a stored deadline `expires_at` is the     *)
(* number of ticks until it, and Tick moves every deadline closer.         *)
(***************************************************************************)
EXTENDS Integers, FiniteSets

CONSTANTS
    Sessions,   \* session ids a client may say hello with
    Conns,      \* client connections
    Files,      \* canonical file paths
    Paths,      \* code paths inside a file
    Txns,       \* ids of multi-file transactions, each used for one attempt
    Closed,     \* "no session": a connection that is not open
    TTL,        \* ticks an intent is granted for
    MaxRev,     \* bound: highest revision a client commits
    Fates       \* bound: what may become of an entry of the journal, see Append

ASSUME ConfigAssumption ==
    /\ Closed \notin Sessions
    /\ TTL \in Nat \ {0}
    /\ MaxRev \in Nat \ {0}
    /\ Fates \subseteq {"line", "glued", "cut", "last", "unwritten"}

VARIABLES
    registered, \* conn.rs `registered` of each connection's task
    hungup,     \* connections whose client end is gone or that the task is leaving
    sessions,   \* state.rs `sessions`: absent, or the state of the recorded pid
    intents,    \* state.rs `intents`
    latest,     \* state.rs `latest_rev`, 0 for a file with no entry
    active,     \* state.rs `active_txns`
    requests,   \* multi-file requests a task is in the middle of
    doomed,     \* sessions the reaper saw dead and has not deregistered yet
    journal,    \* what replay_journal makes of each transaction now
    ended,      \* what it makes of the lines that are ended by a newline
    unended,    \* the last line is not
    lost        \* history: transactions with an entry that replay does not read

journalVars == <<journal, ended, unended, lost>>
vars == <<registered, hungup, sessions, intents, latest, active, requests, doomed, journalVars>>

Places == Files \X Paths
FilesOf(claims) == {a[1] : a \in claims}

Intents  == [session : Sessions, at : Places, left : 0..TTL]
TxnState == [txn : Txns, session : Sessions, claims : SUBSET Places,
             left : -1..TTL, committed : BOOLEAN]
Replayed == {"unknown", "incomplete", "completed"}
Requests == [conn : Conns, op : {"grant", "commit"}, txn : Txns,
             todo : SUBSET Places, done : SUBSET Files]

Init ==
    /\ registered = [c \in Conns |-> Closed]
    /\ hungup = {}
    /\ sessions = [s \in Sessions |-> "absent"]
    /\ intents = {}
    /\ latest = [f \in Files |-> 0]
    /\ active = {}
    /\ requests = {}
    /\ doomed = {}
    /\ journal = [t \in Txns |-> "unknown"] /\ ended = journal /\ unended = FALSE /\ lost = {}

-----------------------------------------------------------------------------
(***************************************************************************)
(* BrokerState: what its methods compute.                                  *)
(***************************************************************************)

Dropped(s, claims) == {i \in intents : ~(i.session = s /\ i.at \in claims)}

Unexpired(files) == {i \in intents : i.left > 0 \/ i.at[1] \notin files}

\* Mutant: several places are refused only if peers hold all of them.
ContestedEverywhere(s, claims) ==
    \A a \in claims : \E i \in Unexpired({a[1]}) : i.session # s /\ i.at = a

Contested(s, claims) ==
    \E i \in Unexpired(FilesOf(claims)) : i.session # s /\ i.at \in claims

Granted(s, claims) ==
    (Unexpired(FilesOf(claims)) \cap Dropped(s, claims))
        \cup [session : {s}, at : claims, left : {TTL}]

\* Mutant: what is free is claimed although another place is a peer's.
ClaimWhatIsFree(s, claims) ==
    intents' = Granted(s, {a \in claims : ~Contested(s, {a})})

\* record_intent and try_grant_multi: expired intents of the files go whatever is
\* decided; the claims are stored only if no peer holds one of them.
Claim(s, claims) ==
    intents' = IF Contested(s, claims) THEN Unexpired(FilesOf(claims))
                                       ELSE Granted(s, claims)

\* Mutant: the latest revision is not compared with the parent.
AcceptsAll(f, parent) == TRUE

\* record_commit accepts a commit whose parent is not behind the latest revision.
Accepts(f, parent) == latest[f] <= parent

RecordCommit(s, f, claims, parent) ==
    IF Accepts(f, parent)
    THEN /\ latest' = [latest EXCEPT ![f] = parent + 1]
         /\ intents' = Dropped(s, claims)
    ELSE UNCHANGED <<latest, intents>>

\* Mutant: the transactions of a session outlive it.
DeregisterIntents(S) ==
    /\ intents' = {i \in intents : i.session \notin S}
    /\ active' = active
    /\ sessions' = [s \in Sessions |-> IF s \in S THEN "absent" ELSE sessions[s]]

\* Mutant: only the session record is removed.
DeregisterRecord(S) ==
    /\ intents' = intents
    /\ active' = active
    /\ sessions' = [s \in Sessions |-> IF s \in S THEN "absent" ELSE sessions[s]]

Deregister(S) ==
    /\ intents' = {i \in intents : i.session \notin S}
    /\ active' = {x \in active : x.session \notin S}
    /\ sessions' = [s \in Sessions |-> IF s \in S THEN "absent" ELSE sessions[s]]

\* release_txn of each transaction of X: its claims leave with it.
Release(X) ==
    /\ intents' = {i \in intents : \A x \in X : i.session # x.session \/ i.at \notin x.claims}
    /\ active' = active \ X

\* append_entry for each transaction of T, which replay then takes as `as`.  The file is
\* not buffered and the newline is a write of its own; callers drop the error, and a kill
\* may come between two writes.  So an entry has a line of its own; ends the line that
\* was left unended, and replay skips both ("glued"); is cut short; is whole but for its
\* newline, and is read as long as nothing follows ("last"); or is not written at all.
Append(T, as) ==
    \E fate \in [T -> Fates] :
        LET fated(k) == {t \in T : fate[t] = k}
            written  == fated("unwritten") # T
            open     == fated("cut") \cup fated("last")
        IN  /\ fated("glued") # {} => unended
            /\ fated("line") \cup fated("last") # {} => ~unended \/ fated("glued") # {}
            /\ \A t, u \in open : t = u
            /\ ended' = [t \in Txns |-> IF t \in fated("line") THEN as ELSE ended[t]]
            /\ journal' = IF written
                          THEN [t \in Txns |-> IF t \in fated("last") THEN as ELSE ended'[t]]
                          ELSE journal
            /\ unended' = IF written THEN open # {} ELSE unended
            /\ lost' = lost \cup (T \ (fated("line") \cup fated("last")))
                            \cup (IF written THEN {t \in Txns : journal[t] # ended[t]} ELSE {})

-----------------------------------------------------------------------------
(***************************************************************************)
(* Clients.  A client opens a connection and says hello; it goes away by   *)
(* `bye`, by dropping the socket, or by dying with its process.            *)
(***************************************************************************)

Busy(c) == \E q \in requests : q.conn = c
\* Mutant: a task reads its next message before it is done with the last one.
ReadyAnyway(c) == registered[c] # Closed /\ c \notin hungup

Ready(c) == registered[c] # Closed /\ c \notin hungup /\ ~Busy(c)

\* A client says hello once per connection: a second hello on the same one is left out.
Hello(c, s) ==
    /\ registered[c] = Closed
    /\ registered' = [registered EXCEPT ![c] = s]
    /\ sessions' = [sessions EXCEPT ![s] = "alive"]
    /\ UNCHANGED <<hungup, intents, latest, active, requests, doomed, journalVars>>

Hangup(c) ==
    /\ registered[c] # Closed
    /\ c \notin hungup
    /\ hungup' = hungup \cup {c}
    /\ UNCHANGED <<registered, sessions, intents, latest, active, requests, doomed, journalVars>>

Die(s) ==
    /\ sessions[s] = "alive"
    /\ sessions' = [sessions EXCEPT ![s] = "dead"]
    /\ hungup' = hungup \cup {c \in Conns : registered[c] = s}
    /\ UNCHANGED <<registered, intents, latest, active, requests, doomed, journalVars>>

(***************************************************************************)
(* Connection tasks: single-file messages.                                 *)
(***************************************************************************)

Intent(c, f, paths) ==
    /\ Ready(c)
    /\ Claim(registered[c], {f} \X paths)
    /\ UNCHANGED <<registered, hungup, sessions, latest, active, requests, doomed, journalVars>>

Commit(c, f, paths, parent) ==
    /\ Ready(c)
    /\ RecordCommit(registered[c], f, {f} \X paths, parent)
    /\ UNCHANGED <<registered, hungup, sessions, active, requests, doomed, journalVars>>

ReleaseIntent(c, f, paths) ==
    /\ Ready(c)
    /\ intents' = Dropped(registered[c], {f} \X paths)
    /\ UNCHANGED <<registered, hungup, sessions, latest, active, requests, doomed, journalVars>>

\* The read ended or the task left its loop: the session named by this task's own
\* hello is deregistered.
Disconnect(c) ==
    /\ c \in hungup
    /\ ~Busy(c)
    /\ Deregister({registered[c]})
    /\ registered' = [registered EXCEPT ![c] = Closed]
    /\ hungup' = hungup \ {c}
    /\ UNCHANGED <<latest, requests, doomed, journalVars>>

(***************************************************************************)
(* Connection tasks: multi-file transactions.                              *)
(***************************************************************************)

\* TxnStarted is journalled before anything is known about the claims.
MultiIntent(c, t, claims) ==
    /\ Ready(c)
    /\ journal[t] = "unknown" /\ t \notin lost
    /\ Append({t}, "incomplete")
    /\ requests' = requests \cup
           {[conn |-> c, op |-> "grant", txn |-> t, todo |-> claims, done |-> {}]}
    /\ UNCHANGED <<registered, hungup, sessions, intents, latest, active, doomed>>

TryGrantMulti(q) ==
    LET s == registered[q.conn]
        new == [txn |-> q.txn, session |-> s, claims |-> q.todo, left |-> TTL,
                committed |-> FALSE]
    IN  /\ q.op = "grant"
        /\ Claim(s, q.todo)
        /\ active' = IF Contested(s, q.todo)
                     THEN active ELSE {x \in active : x.txn # q.txn} \cup {new}
        /\ requests' = requests \ {q}
        /\ UNCHANGED <<registered, hungup, sessions, latest, doomed, journalVars>>

\* The transaction is looked up under a read lock; the files are committed later.
MultiCommit(c, x) ==
    /\ Ready(c)
    /\ registered[c] = x.session
    /\ requests' = requests \cup
           {[conn |-> c, op |-> "commit", txn |-> x.txn, todo |-> x.claims, done |-> {}]}
    /\ UNCHANGED <<registered, hungup, sessions, intents, latest, active, doomed, journalVars>>

\* An unknown transaction or a peer's: the task answers with an error and leaves.
RefuseCommit(c, t) ==
    /\ Ready(c)
    /\ \A x \in active : x.txn = t => x.session # registered[c]
    /\ hungup' = hungup \cup {c}
    /\ UNCHANGED <<registered, sessions, intents, latest, active, requests, doomed, journalVars>>

CommitFile(q, f, parent) ==
    LET claims == {a \in q.todo : a[1] = f}
        next   == [q EXCEPT !.todo = @ \ claims, !.done = @ \cup {f}]
    IN  /\ q.op = "commit"
        /\ f \in FilesOf(q.todo)
        /\ RecordCommit(registered[q.conn], f, claims, parent)
        /\ requests' = (requests \ {q}) \cup (IF Accepts(f, parent) THEN {next} ELSE {})
        /\ UNCHANGED <<registered, hungup, sessions, active, doomed, journalVars>>

\* Mutant: the transaction is journalled and not marked.
FinishUnmarked(q) ==
    /\ q.op = "commit"
    /\ q.todo = {}
    /\ Append({q.txn}, "completed")
    /\ requests' = requests \ {q}
    /\ UNCHANGED <<registered, hungup, sessions, intents, latest, active, doomed>>

\* Every file was accepted: mark_txn_committed, whose result is ignored, and the
\* journal entry, with no await between them.
FinishCommit(q) ==
    /\ q.op = "commit"
    /\ q.todo = {}
    /\ active' = {IF x.txn = q.txn THEN [x EXCEPT !.committed = TRUE] ELSE x : x \in active}
    /\ Append({q.txn}, "completed")
    /\ requests' = requests \ {q}
    /\ UNCHANGED <<registered, hungup, sessions, intents, latest, doomed>>

\* An abort of an unknown transaction or of a peer's changes nothing.
MultiAbort(c, x) ==
    /\ Ready(c)
    /\ registered[c] = x.session
    /\ Release({x})
    /\ Append({x.txn}, "completed")
    /\ UNCHANGED <<registered, hungup, sessions, latest, requests, doomed>>

-----------------------------------------------------------------------------
(***************************************************************************)
(* The reaper, the clock, and a restart of the daemon.                     *)
(***************************************************************************)

\* Mutant: an overdue transaction is waited for one tick longer than the clock shows.
StaleLater(x) == ~x.committed /\ x.left < -1

Stale(x) == ~x.committed /\ x.left < 0

Sweep ==
    LET stale == {x \in active : Stale(x)}
    IN  /\ intents' = {i \in intents : /\ i.left > 0
                                       /\ \A x \in stale : \/ i.session # x.session
                                                           \/ i.at \notin x.claims}
        /\ active' = active \ stale
        /\ Append({x.txn : x \in stale}, "completed")
        /\ UNCHANGED <<registered, hungup, sessions, latest, requests, doomed>>

ReapScan ==
    /\ doomed = {}
    /\ doomed' = {s \in Sessions : sessions[s] = "dead"}
    /\ UNCHANGED <<registered, hungup, sessions, intents, latest, active, requests, journalVars>>

ReapDead ==
    /\ doomed # {}
    /\ Deregister(doomed)
    /\ doomed' = {}
    /\ UNCHANGED <<registered, hungup, latest, requests, journalVars>>

Tick ==
    /\ intents' = {[i EXCEPT !.left = IF @ > 0 THEN @ - 1 ELSE 0] : i \in intents}
    /\ active' = {[x EXCEPT !.left = IF @ > -1 THEN @ - 1 ELSE -1] : x \in active}
    /\ UNCHANGED <<registered, hungup, sessions, latest, requests, doomed, journalVars>>

\* A kill, a signal or the grace period ends the daemon; the next one starts from
\* an empty state and closes the transactions the journal leaves open.
Restart ==
    /\ registered' = [c \in Conns |-> Closed]
    /\ hungup' = {}
    /\ sessions' = [s \in Sessions |-> "absent"]
    /\ intents' = {}
    /\ latest' = [f \in Files |-> 0]
    /\ active' = {}
    /\ requests' = {}
    /\ doomed' = {}
    /\ Append({t \in Txns : journal[t] = "incomplete"}, "completed")

-----------------------------------------------------------------------------
Client ==
    \/ \E c \in Conns, s \in Sessions : Hello(c, s)
    \/ \E c \in Conns : Hangup(c)
    \/ \E s \in Sessions : Die(s)

SingleFile ==
    \E c \in Conns :
        \/ Disconnect(c)
        \/ \E f \in Files, paths \in (SUBSET Paths) \ {{}} :
              \/ Intent(c, f, paths)
              \/ ReleaseIntent(c, f, paths)
              \/ \E parent \in 0..(MaxRev - 1) : Commit(c, f, paths, parent)

MultiFile ==
    \/ \E c \in Conns :
          \/ \E t \in Txns, claims \in (SUBSET Places) \ {{}} : MultiIntent(c, t, claims)
          \/ \E t \in Txns : RefuseCommit(c, t)
          \/ \E x \in active : MultiCommit(c, x) \/ MultiAbort(c, x)
    \/ \E q \in requests :
          \/ TryGrantMulti(q)
          \/ \E f \in Files, parent \in 0..(MaxRev - 1) : CommitFile(q, f, parent)
          \/ FinishCommit(q)

Daemon == Sweep \/ ReapScan \/ ReapDead \/ Tick \/ Restart

Next == Client \/ SingleFile \/ MultiFile \/ Daemon

Spec == Init /\ [][Next]_vars

(***************************************************************************)
(* The runtime polls every ready task, so a task whose client is gone      *)
(* reaches its disconnect and a handler in the middle of a request goes    *)
(* on.  The reaper's intervals and the clock keep running as well; what    *)
(* needs them says so.  Clients owe nothing.                               *)
(***************************************************************************)
Proceeds(c) ==
    \E q \in requests :
        /\ q.conn = c
        /\ \/ TryGrantMulti(q)
           \/ \E f \in Files, parent \in 0..(MaxRev - 1) : CommitFile(q, f, parent)
           \/ FinishCommit(q)

TaskFairness == \A c \in Conns : WF_vars(Disconnect(c)) /\ WF_vars(Proceeds(c))

TaskSpec == Spec /\ TaskFairness

ReaperFairness == WF_vars(Sweep) /\ WF_vars(Tick)

-----------------------------------------------------------------------------
(***************************************************************************)
(* Properties.                                                             *)
(***************************************************************************)

\* Every variable stays in its domain; a task is in at most one request, and only a
\* registered connection's task is in one.
TypeOK ==
    /\ registered \in [Conns -> Sessions \cup {Closed}]
    /\ hungup \subseteq {c \in Conns : registered[c] # Closed}
    /\ sessions \in [Sessions -> {"absent", "alive", "dead"}]
    /\ intents \subseteq Intents
    /\ latest \in [Files -> 0..MaxRev]
    /\ active \subseteq TxnState
    /\ requests \subseteq Requests
    /\ \A q \in requests : registered[q.conn] # Closed
    /\ \A p, q \in requests : p.conn = q.conn => p = q
    /\ doomed \subseteq Sessions
    /\ journal \in [Txns -> Replayed] /\ ended \in [Txns -> Replayed]
    /\ unended \in BOOLEAN /\ lost \subseteq Txns

\* A code path of a file has one claim at most: no two sessions hold it, whatever
\* single and multi-file claims, renewals, expiries and releases led there, and one
\* session never holds it with two deadlines.
IntentExclusion == \A i, j \in intents : i.at = j.at => i = j

\* Nothing is held for a session that no connection stands for: when the last task
\* of an owner has left, its intents and its transactions have left with it.  It rests
\* on one hello per connection: a second one, for another session, would overwrite
\* `registered` without deregistering the first.
OwnersConnected ==
    /\ \A i \in intents : \E c \in Conns : registered[c] = i.session
    /\ \A x \in active : \E c \in Conns : registered[c] = x.session

\* Whatever appends fail, are cut short or spoil the line before them, the journal never
\* has a transaction completed that the broker holds open; and of a transaction it has
\* lost no entry of, it tells after a crash at any moment whether it was open.  One with
\* a lost entry may be forgotten, or rolled back although it is committed.
JournalTells ==
    \A x \in active :
        /\ ~x.committed => journal[x.txn] \in {"unknown", "incomplete"}
        /\ x.txn \notin lost => (journal[x.txn] = "incomplete" <=> ~x.committed)

\* The latest revision of a file goes back only when the broker itself restarts: a
\* commit made on a revision that a peer has overtaken is never accepted.
RevisionsAdvance ==
    [][\A f \in Files : latest'[f] < latest[f] => \A c \in Conns : registered'[c] = Closed]_vars

\* What the table of intents says of EditLocks: expired intents hold nothing.
Held == {<<i.session, i.at>> : i \in {j \in intents : j.left > 0}}

Asked ==
    {[client |-> q.conn, session |-> registered[q.conn], claims |-> q.todo] :
        q \in {r \in requests : r.op = "grant"}}

Locks == INSTANCE EditLocks WITH Clients <- Conns, held <- Held, asked <- Asked

\* The broker implements a table of locks: whatever expires, disconnects, is reaped or
\* swept meanwhile, a place goes from one session to another only through nobody, a
\* multi-file claim ends with all of its places or with nothing new, and it is refused
\* only because a peer holds one of them just then.
ImplementsLocks == Locks!Spec

Represented(s) == \E c \in Conns : registered[c] = s /\ c \notin hungup

\* An owner that goes away never blocks its peers for ever: its claims are given up
\* unless the session comes back on another connection.  The tasks alone see to it:
\* neither the deadlines nor the reaper are needed.  It rests on one hello per
\* connection, as OwnersConnected does.
OwnerReclaimed ==
    \A s \in Sessions :
        ~Represented(s) ~> (Represented(s) \/ \A i \in intents : i.session # s)

\* A transaction that is open is committed or rolled back in the end, by its client,
\* by the loss of its client or by the reaper, whose intervals this needs.
OpenTxnSettles ==
    ReaperFairness =>
        \A t \in Txns :
            (\E x \in active : x.txn = t /\ ~x.committed)
                ~> ~(\E x \in active : x.txn = t /\ ~x.committed)

=============================================================================
