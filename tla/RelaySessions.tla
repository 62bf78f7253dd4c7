---------------------------- MODULE RelaySessions ----------------------------
(***************************************************************************)
(* What the relay server's registry promises: an endpoint has a stack of   *)
(* sessions, in the order in which they were accepted, and is reached      *)
(* through the newest of those that are left.                              *)
(***************************************************************************)
EXTENDS Naturals, Sequences, FiniteSets

CONSTANTS Endpoints, Conns, Owner, MaxSessions, MaxPerEndpoint

VARIABLES
    sessions,  \* the sessions of an endpoint, oldest first
    seen       \* the connections that have been accepted or refused

vars == <<sessions, seen>>

Online == UNION {{sessions[e][i] : i \in 1..Len(sessions[e])} : e \in Endpoints}
Without(s, i) == [j \in 1..Len(s) - 1 |-> IF j < i THEN s[j] ELSE s[j + 1]]

Init == sessions = [e \in Endpoints |-> <<>>] /\ seen = {}

\* A connection is accepted once, as the newest, and only within the limits.
Accept(c) ==
    LET e == Owner[c] IN
    /\ c \notin seen
    /\ Len(sessions[e]) < MaxPerEndpoint
    /\ Cardinality(Online) < MaxSessions
    /\ seen' = seen \cup {c}
    /\ sessions' = [sessions EXCEPT ![e] = Append(@, c)]

Refuse(c) ==
    /\ c \notin seen
    /\ seen' = seen \cup {c}
    /\ UNCHANGED sessions

\* A session ends, whatever its place; the others keep theirs.
Leave(c) ==
    LET e == Owner[c] IN
    /\ \E i \in 1..Len(sessions[e]) :
          /\ sessions[e][i] = c
          /\ sessions' = [sessions EXCEPT ![e] = Without(@, i)]
    /\ UNCHANGED seen

\* Shutdown takes all sessions of an endpoint at once.
Close(e) ==
    /\ sessions' = [sessions EXCEPT ![e] = <<>>]
    /\ UNCHANGED seen

Next ==
    \/ \E c \in Conns : Accept(c) \/ Refuse(c) \/ Leave(c)
    \/ \E e \in Endpoints : Close(e)

Spec == Init /\ [][Next]_vars

=============================================================================
