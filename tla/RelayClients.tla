---------------------------- MODULE RelayClients ----------------------------
(***************************************************************************)
(* The relay server's registry of connected clients (struct Clients) and   *)
(* the per-connection actors that feed it.                                 *)
(*                                                                         *)
(* An endpoint may hold several connections at once: the newest is the     *)
(* active one, the older ones wait, inactive, to be promoted again.  The   *)
(* registry is a concurrent map; every action below is what one thread     *)
(* does while it holds the lock of one map entry, and `unregister`, which  *)
(* drops that lock before it informs the peers, is split there.            *)
(***************************************************************************)
EXTENDS Naturals, Sequences, FiniteSets

CONSTANTS
    Endpoints,       \* endpoint ids
    Conns,           \* connection ids; an id is never used twice
    Owner,           \* the endpoint that authenticated on a connection
    NoConn,          \* "no map entry"
    MaxSessions,     \* max_registered_sessions
    MaxPerEndpoint,  \* max_sessions_per_endpoint
    QueueCap,        \* channel_capacity of a client's two queues
    MaxShutdowns     \* bound: how often Clients::shutdown is called

ASSUME OwnerAssumption == Owner \in [Conns -> Endpoints]
ASSUME NoConnAssumption == NoConn \notin Conns
ASSUME BoundsAssumption ==
    /\ MaxSessions \in Nat \ {0}
    /\ MaxPerEndpoint \in Nat \ {0}
    /\ QueueCap \in Nat \ {0}
    /\ MaxShutdowns \in Nat

VARIABLES
    active,     \* ClientState.active, NoConn when the map has no entry
    inactive,   \* ClientState.inactive, oldest first
    sentTo,     \* Inner.sent_to; the empty set when the map has no entry
    permits,    \* free permits of the registered_sessions semaphore
    phase,      \* how far a connection's actor has come
    cancelled,  \* live connections whose `done` token is cancelled
    packets,    \* packet_queue of a client: the sources of its datagrams
    messages,   \* message_queue of a client
    notifying,  \* peers that a running unregister still has to inform
    closing,    \* endpoints that a running Clients::shutdown has yet to remove
    draining,   \* clients that shutdown removed and waits for
    stopped     \* how often Clients::shutdown has been called

registryVars == <<active, inactive, sentTo, permits>>
actorVars == <<phase, cancelled, notifying>>
queueVars == <<packets, messages>>
shutdownVars == <<closing, draining, stopped>>
vars == <<registryVars, actorVars, queueVars, shutdownVars>>

Phases == {"fresh", "running", "ending", "notifying", "closed"}
Messages == [kind : {"gone", "same", "healthy"}, about : Endpoints]
Gone(e) == [kind |-> "gone", about |-> e]
Same(e) == [kind |-> "same", about |-> e]
Healthy(e) == [kind |-> "healthy", about |-> e]

Elements(s) == {s[i] : i \in 1..Len(s)}

\* The connections of the registry's entry for e.
Sessions(e) ==
    IF active[e] = NoConn THEN {} ELSE {active[e]} \cup Elements(inactive[e])
Registered == UNION {Sessions(e) : e \in Endpoints}

\* try_send on a bounded queue: a full queue drops the item.
TrySend(q, x) == IF Len(q) < QueueCap THEN Append(q, x) ELSE q

\* Vec::retain of all but the element at i.
Without(s, i) == [j \in 1..Len(s) - 1 |-> IF j < i THEN s[j] ELSE s[j + 1]]

Init ==
    /\ active = [e \in Endpoints |-> NoConn]
    /\ inactive = [e \in Endpoints |-> <<>>]
    /\ sentTo = [e \in Endpoints |-> {}]
    /\ permits = MaxSessions
    /\ phase = [c \in Conns |-> "fresh"]
    /\ cancelled = {}
    /\ packets = [c \in Conns |-> <<>>]
    /\ messages = [c \in Conns |-> <<>>]
    /\ notifying = [c \in Conns |-> {}]
    /\ closing = {}
    /\ draining = {}
    /\ stopped = 0

-----------------------------------------------------------------------------
\* The id of a connection whose registration fails is gone with its stream.
Refuse(c) ==
    /\ phase' = [phase EXCEPT ![c] = "closed"]
    /\ UNCHANGED <<registryVars, cancelled, notifying, queueVars, shutdownVars>>

\* register: no session permit is left, or the endpoint has its share; in the
\* second case the permit that was taken is released with its lease.
RegisterRefused(c) ==
    LET e == Owner[c] IN
    /\ phase[c] = "fresh"
    /\ \/ permits = 0
       \/ active[e] # NoConn /\ 1 + Len(inactive[e]) >= MaxPerEndpoint
    /\ Refuse(c)

\* register: there is room, but the task group does not take the new actor;
\* an actor that never ran does not unregister.
RegisterUnspawned(c) ==
    LET e == Owner[c] IN
    /\ phase[c] = "fresh"
    /\ permits > 0
    /\ active[e] = NoConn \/ 1 + Len(inactive[e]) < MaxPerEndpoint
    /\ Refuse(c)

\* register on a vacant entry.
RegisterFirst(c) ==
    LET e == Owner[c] IN
    /\ phase[c] = "fresh"
    /\ permits > 0
    /\ active[e] = NoConn
    /\ active' = [active EXCEPT ![e] = c]
    /\ permits' = permits - 1
    /\ phase' = [phase EXCEPT ![c] = "running"]
    /\ UNCHANGED <<inactive, sentTo, cancelled, notifying, queueVars, shutdownVars>>

\* Mutated form of RegisterAgain: the replaced connection is forgotten.
RegisterAgainForgets(c) ==
    LET e == Owner[c] IN
    /\ phase[c] = "fresh"
    /\ permits > 0
    /\ active[e] # NoConn
    /\ active' = [active EXCEPT ![e] = c]
    /\ phase' = [phase EXCEPT ![c] = "running"]
    /\ UNCHANGED <<inactive, sentTo, permits, cancelled, notifying, queueVars, shutdownVars>>

\* register on an occupied entry: the old connection is told and set aside.
RegisterAgain(c) ==
    LET e == Owner[c]
        old == active[e] IN
    /\ phase[c] = "fresh"
    /\ permits > 0
    /\ old # NoConn
    /\ 1 + Len(inactive[e]) < MaxPerEndpoint
    /\ active' = [active EXCEPT ![e] = c]
    /\ inactive' = [inactive EXCEPT ![e] = Append(@, old)]
    /\ messages' = [messages EXCEPT ![old] = TrySend(@, Same(e))]
    /\ permits' = permits - 1
    /\ phase' = [phase EXCEPT ![c] = "running"]
    /\ UNCHANGED <<sentTo, cancelled, notifying, packets, shutdownVars>>

-----------------------------------------------------------------------------
\* The actor's loop returns: its token is cancelled, its stream ends or fails,
\* a write or a pong times out.  The next thing it does is to drop itself.
RunReturns(c) ==
    /\ phase[c] = "running"
    /\ phase' = [phase EXCEPT ![c] = "ending"]
    /\ UNCHANGED <<registryVars, cancelled, notifying, queueVars, shutdownVars>>

\* Mutated form of UnregisterLast: the waiting connections are not looked at.
UnregisterLastAlways(c) ==
    LET e == Owner[c] IN
    /\ phase[c] = "ending"
    /\ active[e] = c
    /\ active' = [active EXCEPT ![e] = NoConn]
    /\ sentTo' = [sentTo EXCEPT ![e] = {}]
    /\ permits' = permits + 1
    /\ notifying' = [notifying EXCEPT ![c] = sentTo[e]]
    /\ phase' = [phase EXCEPT ![c] = "notifying"]
    /\ UNCHANGED <<inactive, cancelled, queueVars, shutdownVars>>

\* unregister of the endpoint's last connection: the entry goes, and with it
\* the record of whom the endpoint has sent to.
UnregisterLast(c) ==
    LET e == Owner[c] IN
    /\ phase[c] = "ending"
    /\ active[e] = c
    /\ inactive[e] = <<>>
    /\ active' = [active EXCEPT ![e] = NoConn]
    /\ sentTo' = [sentTo EXCEPT ![e] = {}]
    /\ permits' = permits + 1
    /\ notifying' = [notifying EXCEPT ![c] = sentTo[e]]
    /\ phase' = [phase EXCEPT ![c] = "notifying"]
    /\ UNCHANGED <<inactive, cancelled, queueVars, shutdownVars>>

\* Mutated form of UnregisterPromote: the oldest is promoted.
UnregisterPromoteOldest(c) ==
    LET e == Owner[c]
        next == inactive[e][1] IN
    /\ phase[c] = "ending"
    /\ active[e] = c
    /\ Len(inactive[e]) > 0
    /\ active' = [active EXCEPT ![e] = next]
    /\ inactive' = [inactive EXCEPT ![e] = Tail(@)]
    /\ messages' = [messages EXCEPT ![next] = TrySend(@, Healthy(e))]
    /\ permits' = permits + 1
    /\ phase' = [phase EXCEPT ![c] = "notifying"]
    /\ UNCHANGED <<sentTo, cancelled, notifying, packets, shutdownVars>>

\* unregister of the active connection while others wait: the newest of them
\* is promoted and told so.
UnregisterPromote(c) ==
    LET e == Owner[c]
        n == Len(inactive[e])
        next == inactive[e][n] IN
    /\ phase[c] = "ending"
    /\ active[e] = c
    /\ n > 0
    /\ active' = [active EXCEPT ![e] = next]
    /\ inactive' = [inactive EXCEPT ![e] = SubSeq(@, 1, n - 1)]
    /\ messages' = [messages EXCEPT ![next] = TrySend(@, Healthy(e))]
    /\ permits' = permits + 1
    /\ phase' = [phase EXCEPT ![c] = "notifying"]
    /\ UNCHANGED <<sentTo, cancelled, notifying, packets, shutdownVars>>

\* Mutated form of UnregisterInactive: the inactive list is left as it is.
UnregisterInactiveKeeps(c) ==
    /\ phase[c] = "ending"
    /\ active[Owner[c]] # c
    /\ phase' = [phase EXCEPT ![c] = "notifying"]
    /\ UNCHANGED <<registryVars, cancelled, notifying, queueVars, shutdownVars>>

\* unregister of a connection that waits, inactive.
UnregisterInactive(c) ==
    LET e == Owner[c] IN
    /\ phase[c] = "ending"
    /\ active[e] \notin {c, NoConn}
    /\ \E i \in 1..Len(inactive[e]) :
          /\ inactive[e][i] = c
          /\ inactive' = [inactive EXCEPT ![e] = Without(@, i)]
    /\ permits' = permits + 1
    /\ phase' = [phase EXCEPT ![c] = "notifying"]
    /\ UNCHANGED <<active, sentTo, cancelled, notifying, queueVars, shutdownVars>>

\* unregister of a connection whose entry shutdown has taken out of the map;
\* a newer entry of the same endpoint is left alone.
UnregisterRemoved(c) ==
    /\ phase[c] = "ending"
    /\ c \notin Sessions(Owner[c])
    /\ phase' = [phase EXCEPT ![c] = "notifying"]
    /\ UNCHANGED <<registryVars, cancelled, notifying, queueVars, shutdownVars>>

Unregister(c) ==
    \/ UnregisterLast(c)
    \/ UnregisterPromote(c)
    \/ UnregisterInactive(c)
    \/ UnregisterRemoved(c)

\* unregister, after it released the entry: one peer is told that the endpoint
\* is gone, if that peer is still connected.
NotifyPeer(c, p) ==
    LET to == active[p] IN
    /\ phase[c] = "notifying"
    /\ p \in notifying[c]
    /\ notifying' = [notifying EXCEPT ![c] = @ \ {p}]
    /\ messages' = IF to = NoConn \/ phase[to] = "closed" THEN messages
                   ELSE [messages EXCEPT ![to] = TrySend(@, Gone(Owner[c]))]
    /\ UNCHANGED <<registryVars, phase, cancelled, packets, shutdownVars>>

\* The actor's fields are dropped: its queues close.
ActorDropped(c) ==
    /\ phase[c] = "notifying"
    /\ notifying[c] = {}
    /\ phase' = [phase EXCEPT ![c] = "closed"]
    /\ packets' = [packets EXCEPT ![c] = <<>>]
    /\ messages' = [messages EXCEPT ![c] = <<>>]
    /\ cancelled' = cancelled \ {c}
    /\ UNCHANGED <<registryVars, notifying, shutdownVars>>

-----------------------------------------------------------------------------
\* The send record of an endpoint has room for MaxSessions peers.
Recorded(peers, d) ==
    IF Cardinality(peers) < MaxSessions THEN peers \cup {d} ELSE peers

\* send_packet: connection c relays a datagram to endpoint d.  The packet
\* goes to d's active connection; only a packet that was queued is recorded.
SendPacket(c, d) ==
    LET e == Owner[c]
        to == active[d] IN
    /\ phase[c] = "running"
    /\ to # NoConn
    /\ IF phase[to] = "closed"
       THEN /\ cancelled' = cancelled \cup {to}
            /\ UNCHANGED <<packets, sentTo>>
       ELSE /\ Len(packets[to]) < QueueCap
            /\ packets' = [packets EXCEPT ![to] = Append(@, e)]
            /\ sentTo' = [sentTo EXCEPT ![e] = Recorded(@, d)]
            /\ UNCHANGED cancelled
    /\ UNCHANGED <<active, inactive, permits, phase, notifying, messages, shutdownVars>>

\* The actor writes the next packet to its client.
WritePacket(c) ==
    /\ phase[c] = "running"
    /\ c \notin cancelled
    /\ packets[c] # <<>>
    /\ packets' = [packets EXCEPT ![c] = Tail(@)]
    /\ UNCHANGED <<registryVars, actorVars, messages, shutdownVars>>

\* Mutated form of WriteMessage: messages do not wait for the packets.
WriteMessageAnytime(c) ==
    /\ phase[c] = "running"
    /\ c \notin cancelled
    /\ messages[c] # <<>>
    /\ messages' = [messages EXCEPT ![c] = Tail(@)]
    /\ UNCHANGED <<registryVars, actorVars, packets, shutdownVars>>

\* The actor writes the next message; packets come first.
WriteMessage(c) ==
    /\ phase[c] = "running"
    /\ c \notin cancelled
    /\ packets[c] = <<>>
    /\ messages[c] # <<>>
    /\ messages' = [messages EXCEPT ![c] = Tail(@)]
    /\ UNCHANGED <<registryVars, actorVars, packets, shutdownVars>>

\* disconnect of one connection, or of all connections of an endpoint.
Disconnect(e, which) ==
    /\ which \subseteq Sessions(e)
    /\ which = Sessions(e) \/ Cardinality(which) = 1
    /\ ~ which \subseteq cancelled
    /\ cancelled' = cancelled \cup which
    /\ UNCHANGED <<registryVars, phase, notifying, queueVars, shutdownVars>>

-----------------------------------------------------------------------------
\* Clients::shutdown: collect the keys ...
Shutdown ==
    /\ stopped < MaxShutdowns
    /\ closing = {} /\ draining = {}
    /\ stopped' = stopped + 1
    /\ closing' = {e \in Endpoints : active[e] # NoConn}
    /\ UNCHANGED <<registryVars, actorVars, queueVars, draining>>

\* Mutated form of ShutdownRemove: the entry is read and not removed.
ShutdownRemoveReads(e) ==
    /\ e \in closing
    /\ closing' = closing \ {e}
    /\ draining' = draining \cup Sessions(e)
    /\ UNCHANGED <<registryVars, actorVars, queueVars, stopped>>

\* ... take their entries out of the map, one lock at a time ...
ShutdownRemove(e) ==
    /\ e \in closing
    /\ closing' = closing \ {e}
    /\ draining' = draining \cup Sessions(e)
    /\ active' = [active EXCEPT ![e] = NoConn]
    /\ inactive' = [inactive EXCEPT ![e] = <<>>]
    /\ UNCHANGED <<sentTo, permits, actorVars, queueVars, stopped>>

\* ... then cancel all that was removed ...
ShutdownCancel ==
    /\ closing = {}
    /\ LET live == {c \in draining : phase[c] # "closed"} IN
       /\ ~ live \subseteq cancelled
       /\ cancelled' = cancelled \cup live
    /\ UNCHANGED <<registryVars, phase, notifying, queueVars, shutdownVars>>

\* ... and join each actor, after which its Client and its lease are dropped.
ShutdownJoin(c) ==
    /\ closing = {}
    /\ c \in draining
    /\ phase[c] = "closed"
    /\ draining' = draining \ {c}
    /\ permits' = permits + 1
    /\ UNCHANGED <<active, inactive, sentTo, actorVars, queueVars, closing, stopped>>

-----------------------------------------------------------------------------
ActorStep(c) ==
    \/ RegisterRefused(c)
    \/ RegisterUnspawned(c)
    \/ RegisterFirst(c)
    \/ RegisterAgain(c)
    \/ RunReturns(c)
    \/ Unregister(c)
    \/ \E p \in Endpoints : NotifyPeer(c, p)
    \/ ActorDropped(c)
    \/ \E d \in Endpoints : SendPacket(c, d)
    \/ WritePacket(c)
    \/ WriteMessage(c)

ServerStep ==
    \/ \E e \in Endpoints : \E which \in SUBSET Sessions(e) : Disconnect(e, which)
    \/ Shutdown
    \/ \E e \in Endpoints : ShutdownRemove(e)
    \/ ShutdownCancel
    \/ \E c \in Conns : ShutdownJoin(c)

Next == (\E c \in Conns : ActorStep(c)) \/ ServerStep

\* A spawned task is polled until it ends.  Only a cancelled actor is sure to
\* leave its loop: the peer may keep the stream of any other open for ever.
Fairness ==
    \A c \in Conns :
        /\ WF_vars(c \in cancelled /\ RunReturns(c))
        /\ WF_vars(Unregister(c))
        /\ WF_vars(\E p \in Endpoints : NotifyPeer(c, p))
        /\ WF_vars(ActorDropped(c))

Spec == Init /\ [][Next]_vars
FairSpec == Spec /\ Fairness

-----------------------------------------------------------------------------
TypeOK ==
    /\ active \in [Endpoints -> Conns \cup {NoConn}]
    /\ inactive \in [Endpoints -> Seq(Conns)]
    /\ sentTo \in [Endpoints -> SUBSET Endpoints]
    /\ permits \in Nat
    /\ phase \in [Conns -> Phases]
    /\ cancelled \in SUBSET Conns
    /\ packets \in [Conns -> Seq(Endpoints)]
    /\ messages \in [Conns -> Seq(Messages)]
    /\ notifying \in [Conns -> SUBSET Endpoints]
    /\ closing \in SUBSET Endpoints
    /\ draining \in SUBSET Conns
    /\ stopped \in Nat

\* A session permit is held by exactly the connections that are in the
\* registry and those that shutdown still waits for, whichever way the others
\* left: refused, unregistered while active, while inactive, or drained.
PermitsAccounted ==
    permits + Cardinality(Registered \cup draining) = MaxSessions

\* Every connection in the registry belongs to the endpoint it is filed under,
\* is filed once, and has an actor that has yet to unregister it: the registry
\* never keeps a connection whose actor is already past its unregister.
NoZombies ==
    \A e \in Endpoints :
        /\ \A c \in Sessions(e) : Owner[c] = e /\ phase[c] \in {"running", "ending"}
        /\ \A i \in 1..Len(inactive[e]) :
              /\ inactive[e][i] # active[e]
              /\ \A j \in 1..Len(inactive[e]) : inactive[e][i] = inactive[e][j] => i = j
        /\ active[e] = NoConn => inactive[e] = <<>>

\* An actor that still runs is in the registry or was taken out by shutdown:
\* no connection keeps relaying without being reachable or accounted for.
NoOrphans ==
    \A c \in Conns :
        phase[c] \in {"running", "ending"} => c \in Registered \cup draining

\* What shutdown waits for is out of the registry, for good: a reconnecting
\* endpoint gets a new entry and the old connection never returns to it.
DrainedApart ==
    \A c \in draining : phase[c] # "fresh" /\ c \notin Sessions(Owner[c])

\* As long as one connection of an endpoint is registered, one is active: the
\* departure of the active one hands its role over in the same step, so that
\* the endpoint is never unreachable in between (shutdown excepted).
StaysReachable ==
    [][\A e \in Endpoints :
          active[e] # NoConn /\ active'[e] = NoConn
              => Cardinality(Sessions(e)) = 1 \/ e \in closing]_vars

\* The registry as the stacks of sessions that RelaySessions specifies.
Stack == [e \in Endpoints |->
             IF active[e] = NoConn THEN <<>> ELSE Append(inactive[e], active[e])]
Seen == {c \in Conns : phase[c] # "fresh"}
Service == INSTANCE RelaySessions WITH sessions <- Stack, seen <- Seen

\* register, unregister and shutdown together implement RelaySessions: the
\* active connection is always the newest that is left, the others wait in the
\* order in which they came, none comes back, and none is accepted beyond the
\* limits, in whatever order connections end.
ServesNewest == Service!Spec

\* disconnect starts a shutdown that does happen: a cancelled connection
\* leaves the registry.
CancelledLeaves ==
    []<>(cancelled \cap Registered = {})

=============================================================================
