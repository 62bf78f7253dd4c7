----------------------------- MODULE RelayRoutes -----------------------------
(***************************************************************************)
(* The relay server's registry composed with the clients at the other end  *)
(* of its connections: which endpoints an ActiveRelayActor believes it can *)
(* reach through the relay (ConnectedRelayState).  A frame that the server *)
(* writes is handled in the same step: the stream between them is FIFO and *)
(* nothing else changes this part of the client's state.  Disconnect and   *)
(* shutdown of the server are left out: to a client they are a connection  *)
(* that ends; a connection that is refused never has a client.             *)
(***************************************************************************)
EXTENDS RelayClients

VARIABLES
    present,  \* endpoints_present of the client on a connection
    lastSrc,  \* last_packet_src, as a set of at most one endpoint
    missed    \* history: of whose departure a client will not be told

routeVars == <<present, lastSrc, missed>>

RInit ==
    /\ Init
    /\ present = [c \in Conns |-> {}]
    /\ lastSrc = [c \in Conns |-> {}]
    /\ missed = [c \in Conns |-> {}]

-----------------------------------------------------------------------------
\* handle_relay_msg, Datagrams: the route is entered only when the sender is
\* not the sender of the packet before.
HandleDatagrams(c) ==
    /\ WritePacket(c)
    /\ LET src == Head(packets[c]) IN
       /\ lastSrc' = [lastSrc EXCEPT ![c] = {src}]
       /\ present' = IF lastSrc[c] = {src} THEN present
                     ELSE [present EXCEPT ![c] = @ \cup {src}]
    /\ UNCHANGED missed

\* handle_relay_msg, EndpointGone.
HandleEndpointGone(c) ==
    /\ WriteMessage(c)
    /\ Head(messages[c]).kind = "gone"
    /\ present' = [present EXCEPT ![c] = @ \ {Head(messages[c]).about}]
    /\ UNCHANGED <<lastSrc, missed>>

\* handle_relay_msg, Status and Health: logged.
HandleStatus(c) ==
    /\ WriteMessage(c)
    /\ Head(messages[c]).kind # "gone"
    /\ UNCHANGED routeVars

\* The server's notification of p goes to one connection of p and is dropped
\* when the queue of that one is full.
Notify(c, p) ==
    /\ NotifyPeer(c, p)
    /\ LET to == active[p] IN
       missed' = [d \in Conns |->
                     IF d \in Sessions(p) /\ (d # to \/ Len(messages[d]) >= QueueCap)
                     THEN missed[d] \cup {Owner[c]} ELSE missed[d]]
    /\ UNCHANGED <<present, lastSrc>>

\* A relayed packet: the route it makes is on the server's books unless the
\* send record of its source is full.
Relay(c, d) ==
    /\ SendPacket(c, d)
    /\ missed' = [to \in Conns |->
                     IF to = active[d] /\ d \notin sentTo'[Owner[c]]
                     THEN missed[to] \cup {Owner[c]} ELSE missed[to]]
    /\ UNCHANGED <<present, lastSrc>>

\* The connection ends: run_connected returns and drops its state.
Lost(c) ==
    /\ ActorDropped(c)
    /\ present' = [present EXCEPT ![c] = {}]
    /\ lastSrc' = [lastSrc EXCEPT ![c] = {}]
    /\ missed' = [missed EXCEPT ![c] = {}]

\* What the server does without writing a frame.
Silent(c) ==
    /\ \/ RegisterFirst(c)
       \/ RegisterAgain(c)
       \/ RunReturns(c)
       \/ Unregister(c)
    /\ UNCHANGED routeVars

RNext ==
    \E c \in Conns :
        \/ HandleDatagrams(c)
        \/ HandleEndpointGone(c)
        \/ HandleStatus(c)
        \/ \E p \in Endpoints : Notify(c, p) \/ Relay(c, p)
        \/ Lost(c)
        \/ Silent(c)

RSpec == RInit /\ [][RNext]_<<vars, routeVars>>

-----------------------------------------------------------------------------
\* A route is never forgotten by the server: an endpoint that a connected
\* client believes present is on the books for that client (its departure will
\* be announced), or its departure is being announced, or the announcement
\* went to a newer connection of the client or found its queue full, or the
\* send record of the endpoint had no room.  sent_to, the notifications after
\* the lock and the order in which the two queues are served must all play
\* together for it.
RoutesRevocable ==
    \A c \in Conns : \A e \in present[c] :
        LET b == Owner[c] IN
        phase[c] = "running" =>
            \/ b \in sentTo[e]
            \/ e \in missed[c]
            \/ Gone(e) \in Elements(messages[c])
            \/ \E d \in Conns : Owner[d] = e /\ b \in notifying[d]

=============================================================================
