---------------------------- MODULE SessionLease -----------------------------
(***************************************************************************)
(* What EngineInner::wait_reconnection promises to the callers of the      *)
(* engine's API: a lease on the current session.  The session is replaced  *)
(* only while nobody holds a lease, a session that was replaced never      *)
(* comes back, and a closed engine gives out no lease.                     *)
(***************************************************************************)
CONSTANTS Session, First, NoSession, Caller

VARIABLES
  current,    \* the session that API calls work on
  closed,     \* the engine was closed
  users,      \* the session each caller holds a lease on
  replacing,  \* a reconnection excludes every lease
  fresh       \* sessions that were never current

leaseVars == <<current, closed, users, replacing, fresh>>

Init ==
  /\ current = First
  /\ closed = FALSE
  /\ users = [c \in Caller |-> NoSession]
  /\ replacing = FALSE
  /\ fresh = Session \ {First}

Acquire(c) ==
  /\ ~closed /\ ~replacing
  /\ users[c] = NoSession
  /\ users' = [users EXCEPT ![c] = current]
  /\ UNCHANGED <<current, closed, replacing, fresh>>

Release(c) ==
  /\ users' = [users EXCEPT ![c] = NoSession]
  /\ UNCHANGED <<current, closed, replacing, fresh>>

BeginReplace ==
  /\ ~replacing
  /\ \A c \in Caller : users[c] = NoSession
  /\ replacing' = TRUE
  /\ UNCHANGED <<current, closed, users, fresh>>

(* The replacement succeeds with the session s ...                          *)
Replace(s) ==
  /\ replacing
  /\ s \in fresh
  /\ current' = s
  /\ fresh' = fresh \ {s}
  /\ UNCHANGED <<closed, users, replacing>>

(* ... or s is abandoned.                                                   *)
Discard(s) ==
  /\ replacing
  /\ fresh' = fresh \ {s}
  /\ UNCHANGED <<current, closed, users, replacing>>

EndReplace ==
  /\ replacing' = FALSE
  /\ UNCHANGED <<current, closed, users, fresh>>

Shut ==
  /\ closed' = TRUE
  /\ UNCHANGED <<current, users, replacing, fresh>>

Next ==
  \/ \E c \in Caller : Acquire(c) \/ Release(c)
  \/ \E s \in Session : Replace(s) \/ Discard(s)
  \/ BeginReplace \/ EndReplace \/ Shut

Spec == Init /\ [][Next]_leaseVars
=============================================================================
