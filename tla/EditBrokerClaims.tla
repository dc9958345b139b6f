-------------------------- MODULE EditBrokerClaims --------------------------
(***************************************************************************)
(* What comments of the edit broker say of it, for a run that shows where  *)
(* the code does otherwise.                                                *)
(***************************************************************************)
EXTENDS EditBroker

\* conn.rs: the task of a superseded hello "will disconnect on its next read and clean
\* up naturally".  A session whose client is connected and alive stays registered.
LiveSessionRegistered ==
    \A c \in Conns :
        registered[c] # Closed /\ c \notin hungup => sessions[registered[c]] # "absent"

=============================================================================
