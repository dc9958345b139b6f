------------------------------ MODULE EditLocks ------------------------------
(***************************************************************************)
(* What crates/pi-edit-broker promises its clients, without connections,   *)
(* deadlines, transactions or a journal: a place of a file is held by one  *)
(* session at a time, a claim takes all of its places or none, and it is   *)
(* refused only because of a peer.  EditBroker implements this.            *)
(***************************************************************************)
EXTENDS Integers, FiniteSets

CONSTANTS
    Sessions,   \* who may hold a place
    Clients,    \* who asks, for a session
    Files,      \* canonical file paths
    Paths       \* code paths inside a file

VARIABLES
    held,       \* who holds what
    asked       \* claims over several files that have not been answered

vars == <<held, asked>>

Places == Files \X Paths

Claims == [client : Clients, session : Sessions, claims : SUBSET Places]

Init == held = {} /\ asked = {}

Free(s, A) == \A h \in held : h[2] \in A => h[1] = s

Take(s, A) == held' = held \cup ({s} \X A)

\* A claim within one file is answered at once.
ClaimFile(s, f, paths) ==
    /\ Free(s, {f} \X paths)
    /\ Take(s, {f} \X paths)
    /\ UNCHANGED asked

Ask(c) ==
    /\ c \notin asked
    /\ asked' = asked \cup {c}
    /\ UNCHANGED held

Grant(c) ==
    /\ Free(c.session, c.claims)
    /\ Take(c.session, c.claims)
    /\ asked' = asked \ {c}

Refuse(c) ==
    /\ ~Free(c.session, c.claims)
    /\ asked' = asked \ {c}
    /\ UNCHANGED held

\* Places are released, run out, or are taken from a session that has gone.
GiveUp(H) ==
    /\ held' = held \ H
    /\ UNCHANGED asked

\* The daemon ends, and with it all it knew.
Crash == held' = {} /\ asked' = {}

Next ==
    \/ \E s \in Sessions, f \in Files, paths \in SUBSET Paths : ClaimFile(s, f, paths)
    \/ \E c \in Claims : Ask(c)
    \/ \E c \in asked : Grant(c) \/ Refuse(c)
    \/ \E H \in SUBSET held : GiveUp(H)
    \/ Crash

Spec == Init /\ [][Next]_vars

=============================================================================
