------------------------------ MODULE HyParView ------------------------------
(***************************************************************************)
(* The swarm membership protocol of one gossip topic: the handlers of      *)
(* hyparview::State, and a swarm of nodes that run them over connections   *)
(* that deliver in order, are dropped by either side and may break.        *)
(*                                                                         *)
(* A handler maps the state of a node to the set of its possible outcomes  *)
(* (the code picks peers at random).  The outcome carries, in `out`, what  *)
(* the handler pushed.                                                     *)
(***************************************************************************)
EXTENDS Integers, Sequences, FiniteSets

CONSTANTS
    Nodes,
    ActiveCap, PassiveCap,          \* active_view_capacity, passive_view_capacity
    ARWL, PRWL, SRWL,               \* the random walk lengths
    ShuffleActive, ShufflePassive,  \* shuffle_active_view_count, ..._passive_...
    MaxJoins, MaxShuffles, MaxLosses, MaxQuits  \* bounds on a behaviour

ASSUME CapsAssumption ==
    /\ ActiveCap \in Nat \ {0} /\ PassiveCap \in Nat \ {0}
    /\ ARWL \in Nat /\ PRWL \in Nat /\ SRWL \in Nat
    /\ ShuffleActive \in Nat /\ ShufflePassive \in Nat
ASSUME NodesAssumption == IsFiniteSet(Nodes)

-----------------------------------------------------------------------------
(* Messages and the events a handler pushes. *)

Join == [kind |-> "Join"]
ForwardJoin(p, ttl) == [kind |-> "ForwardJoin", peer |-> p, ttl |-> ttl]
Shuffle(o, nodes, ttl) == [kind |-> "Shuffle", origin |-> o, nodes |-> nodes, ttl |-> ttl]
ShuffleReply(nodes) == [kind |-> "ShuffleReply", nodes |-> nodes]
Neighbor(pr) == [kind |-> "Neighbor", priority |-> pr]
Disconnect(alive) == [kind |-> "Disconnect", alive |-> alive]

\* What a handler has pushed: mail to peers, in order; connections to drop; the
\* NeighborUp and NeighborDown of the application; timers to schedule.
Nothing == [mail |-> [p \in Nodes |-> <<>>], drop |-> {}, up |-> {}, down |-> {}, timer |-> {}]
Send(t, ps, m) ==
    [t EXCEPT !.out.mail = [p \in Nodes |-> IF p \in ps THEN Append(@[p], m) ELSE @[p]]]
Drop(t, p) == [t EXCEPT !.out.drop = @ \cup {p}]
Up(t, p) == [t EXCEPT !.out.up = @ \cup {p}]
Down(t, p) == [t EXCEPT !.out.down = @ \cup {p}]
Timer(t, p) == [t EXCEPT !.out.timer = @ \cup {p}]

\* hyparview::State of a node that has just joined; `alive` stands for
\* alive_disconnect_peers.
Fresh == [active |-> {}, passive |-> {}, pending |-> {}, alive |-> {}, out |-> Nothing]

Lesser(a, b) == IF a < b THEN a ELSE b
\* Ttl::next
TtlNext(ttl) == IF ttl = 0 THEN 0 ELSE ttl - 1
\* shuffled_and_capped
Capped(S, n) == {T \in SUBSET S : Cardinality(T) = Lesser(n, Cardinality(S))}

-----------------------------------------------------------------------------
(* Helpers of the handlers. *)

SendNeighbor(t, p, pr) ==
    IF p \in t.pending THEN t
    ELSE Send([t EXCEPT !.pending = @ \cup {p}], {p}, Neighbor(pr))

\* Mutated form of AddPassive: a peer that is active is added as well.
AddPassiveAny(t, me, ps) ==
    LET new == ps \ {me} IN
    IF new \subseteq t.passive THEN {t}
    ELSE {[t EXCEPT !.passive = q] :
             q \in {q \in Capped(t.passive \cup new, PassiveCap) : q \cap new # {}}}

\* add_passive for each of some peers, in any order; each time the view is
\* full a random member goes, so what is left includes one of them.
AddPassive(t, me, ps) ==
    LET new == ps \ (t.active \cup {me}) IN
    IF new \subseteq t.passive THEN {t}
    ELSE {[t EXCEPT !.passive = q] :
             q \in {q \in Capped(t.passive \cup new, PassiveCap) : q \cap new # {}}}

\* What send_shuffle_reply sends: passive peers, filled up with active ones.
ReplyNodes(active, passive, len) ==
    IF Cardinality(passive) >= len THEN Capped(passive, len)
    ELSE {passive \cup a : a \in Capped(active, len - Cardinality(passive))}

SendShuffleReply(t, to, len) ==
    {Send(t, {to}, ShuffleReply(nodes)) : nodes \in ReplyNodes(t.active, t.passive, len)}

SendDisconnect(t, p, alive) ==
    {Drop(Send(r, {p}, Disconnect(alive)), p) :
        r \in SendShuffleReply(t, p, ShuffleActive + ShufflePassive)}

\* refill_active_from_passive
Refill(t, skip) ==
    LET candidates == t.passive \ (skip \cup t.pending)
        pr == IF t.active = {} THEN "high" ELSE "low" IN
    IF Cardinality(t.active) + Cardinality(t.pending) >= ActiveCap \/ candidates = {}
    THEN {t}
    ELSE {Timer(SendNeighbor(t, p, pr), p) : p \in candidates}

\* Mutated form of RemoveActiveByIndex: the application is not told.
RemoveQuietly(t, me, p, reason) ==
    LET gone == [t EXCEPT !.active = @ \ {p}] IN
    UNION {AddPassive(r, me, {p}) :
              r \in IF reason = "random" THEN SendDisconnect(gone, p, TRUE)
                    ELSE {Drop(gone, p)}}

\* remove_active_by_index; the reason is "random", "closed", or what a
\* Disconnect message said of its sender: "alive" or "leaving".
RemoveActiveByIndex(t, me, p, reason) ==
    LET gone == Down([t EXCEPT !.active = @ \ {p}], p)
        keep == reason \in {"random", "alive"} \/ (reason = "closed" /\ p \in t.alive)
        told == IF reason = "random" THEN SendDisconnect(gone, p, TRUE)
                ELSE {Drop(gone, p)}
        mark(r) == [r EXCEPT !.alive = IF reason = "closed" THEN @ \ {p}
                                       ELSE IF keep THEN @ \cup {p} ELSE @] IN
    IF keep THEN {mark(r) : r \in UNION {AddPassive(q, me, {p}) : q \in told}}
    ELSE {mark(r) : r \in told}

RemoveActive(t, me, p, reason) ==
    UNION {Refill(r, {p}) : r \in RemoveActiveByIndex(t, me, p, reason)}

ActiveIsFull(t) == Cardinality(t.active) >= ActiveCap

\* add_active_unchecked
AddActiveUnchecked(t, p, pr, reply) ==
    LET added == Up([t EXCEPT !.passive = @ \ {p}, !.active = @ \cup {p}], p) IN
    IF reply THEN SendNeighbor(added, p, pr) ELSE added

\* add_active, where it returns true ...
AddActive(t, me, p, pr, reply) ==
    IF p \in t.active THEN {IF reply THEN SendNeighbor(t, p, pr) ELSE t}
    ELSE {AddActiveUnchecked(r, p, pr, reply) :
             r \in IF ActiveIsFull(t)
                   THEN UNION {RemoveActiveByIndex(t, me, q, "random") : q \in t.active}
                   ELSE {t}}
\* ... which it does unless:
Refuses(t, me, p, pr) == p = me \/ (p \notin t.active /\ pr = "low" /\ ActiveIsFull(t))

-----------------------------------------------------------------------------
(* The handlers. *)

OnJoin(t, me, p) ==
    LET added == IF Refuses(t, me, p, "high") THEN {t} ELSE AddActive(t, me, p, "high", TRUE) IN
    {Send(r, r.active \ {p}, ForwardJoin(p, ARWL)) : r \in added}

OnForwardJoin(t, me, from, p, ttl) ==
    IF p \in t.active \/ ttl = 0 \/ Cardinality(t.active) <= 1
    THEN {SendNeighbor(t, p, "high")}
    ELSE UNION {IF p \in r.pending THEN {r}
                ELSE {Send(r, {next}, ForwardJoin(p, TtlNext(ttl))) : next \in r.active \ {from}} :
                   r \in IF ttl = PRWL THEN AddPassive(t, me, {p}) ELSE {t}}

\* Mutated form of OnNeighbor: a reply is replied to.
OnNeighborReplies(t, me, from, pr) ==
    LET r == [t EXCEPT !.pending = @ \ {from}] IN
    IF Refuses(r, me, from, pr) THEN SendDisconnect(r, from, TRUE)
    ELSE AddActive(r, me, from, pr, TRUE)

OnNeighbor(t, me, from, pr) ==
    LET isReply == from \in t.pending
        r == [t EXCEPT !.pending = @ \ {from}] IN
    IF Refuses(r, me, from, pr) THEN SendDisconnect(r, from, TRUE)
    ELSE AddActive(r, me, from, pr, ~ isReply)

\* Mutated form of OnShuffle: the walk may go on to the origin.
OnShuffleBack(t, me, from, m) ==
    IF m.ttl = 0 \/ Cardinality(t.active) <= 1
    THEN UNION {SendShuffleReply(r, m.origin, Cardinality(m.nodes)) :
                   r \in AddPassive(t, me, m.nodes)}
    ELSE LET others == t.active \ {from} IN
         IF others = {} THEN {t}
         ELSE {Send(t, {n}, Shuffle(m.origin, m.nodes, TtlNext(m.ttl))) : n \in others}

OnShuffle(t, me, from, m) ==
    IF m.ttl = 0 \/ Cardinality(t.active) <= 1
    THEN UNION {SendShuffleReply(r, m.origin, Cardinality(m.nodes)) :
                   r \in AddPassive(t, me, m.nodes)}
    ELSE LET others == t.active \ {m.origin, from} IN
         IF others = {} THEN {t}
         ELSE {Send(t, {n}, Shuffle(m.origin, m.nodes, TtlNext(m.ttl))) : n \in others}

OnShuffleReply(t, me, nodes) == UNION {Refill(r, {}) : r \in AddPassive(t, me, nodes)}

OnDisconnect(t, me, from, alive) ==
    LET r == [t EXCEPT !.pending = @ \ {from}] IN
    IF from \in r.active THEN RemoveActive(r, me, from, IF alive THEN "alive" ELSE "leaving")
    ELSE IF alive /\ from \in r.passive THEN {[r EXCEPT !.alive = @ \cup {from}]}
    ELSE {r}

HandleMessage(t, me, from, m) ==
    LET done == CASE m.kind = "Join" -> OnJoin(t, me, from)
                  [] m.kind = "ForwardJoin" -> OnForwardJoin(t, me, from, m.peer, m.ttl)
                  [] m.kind = "Shuffle" -> OnShuffle(t, me, from, m)
                  [] m.kind = "ShuffleReply" -> OnShuffleReply(t, me, m.nodes)
                  [] m.kind = "Neighbor" -> OnNeighbor(t, me, from, m.priority)
                  [] m.kind = "Disconnect" -> OnDisconnect(t, me, from, m.alive) IN
    {IF m.kind # "Disconnect" /\ from \notin r.active THEN Drop(r, from) ELSE r : r \in done}

HandleConnectionClosed(t, me, p) ==
    LET r == [t EXCEPT !.pending = @ \ {p}] IN
    IF p \in r.active THEN RemoveActive(r, me, p, "closed")
    ELSE {[r EXCEPT !.alive = @ \ {p}, !.passive = IF p \in r.alive THEN @ ELSE @ \ {p}]}

HandleShuffleTimer(t, me) ==
    IF t.active = {} THEN {t}
    ELSE UNION {{Send(t, {n}, Shuffle(me, a \cup b \cup {me}, SRWL)) :
                    a \in Capped(t.active \ {n}, ShuffleActive),
                    b \in Capped(t.passive \ {n}, ShufflePassive)} : n \in t.active}

HandlePendingNeighborTimer(t, p) ==
    IF p \notin t.pending THEN {t}
    ELSE Refill([t EXCEPT !.pending = @ \ {p}, !.passive = @ \ {p}], {})

\* The active peers leave one after the other, each told of those that are left.
HandleQuit(t) ==
    LET k == Cardinality(t.active)
        orders == {o \in [1..k -> t.active] : \A i, j \in 1..k : o[i] = o[j] => i = j}
        left(o, i) == {o[j] : j \in (i + 1)..k}
        said(o) == {f \in [t.active -> SUBSET Nodes] : \A i \in 1..k :
                      f[o[i]] \in ReplyNodes(left(o, i), t.passive, ShuffleActive + ShufflePassive)}
        mail(f) == [p \in Nodes |-> IF p \in t.active
                                    THEN <<ShuffleReply(f[p]), Disconnect(FALSE)>> ELSE <<>>] IN
    UNION {{[Fresh EXCEPT !.out = [Nothing EXCEPT !.mail = mail(f), !.drop = t.active]] :
               f \in said(o)} : o \in orders}

-----------------------------------------------------------------------------
(***************************************************************************)
(* The swarm.  A pair <<n, p>> is in                                       *)
(*   entry   if the network actor of n has p in its map of peers;          *)
(*   broken  if the connection n sends to p on is gone, so that what n     *)
(*           sends is lost, and n has not replaced it;                     *)
(*   closing if that connection ends once n has read what p sent before.   *)
(* `fresh` marks the first message on a new connection.                    *)
(***************************************************************************)
VARIABLES
    node,       \* the state of each node
    joined,     \* the nodes that have the topic
    neighbors,  \* TopicState::neighbors, what the application was told
    net,        \* the connections, see above, and the messages on them
    timers,     \* pairs <<n, p>>: PendingNeighborRequest(p) is scheduled at n
    count       \* how often each bounded thing has happened

vars == <<node, joined, neighbors, net, timers, count>>

Init ==
    /\ node = [n \in Nodes |-> Fresh]
    /\ joined = Nodes
    /\ neighbors = [n \in Nodes |-> {}]
    /\ net = [chan |-> [n \in Nodes |-> [p \in Nodes |-> <<>>]],
              entry |-> {}, broken |-> {}, closing |-> {}]
    /\ timers = {}
    /\ count = [joins |-> 0, shuffles |-> 0, losses |-> 0, quits |-> 0]

\* handle_in_event_inner: the actor of n carries out what a handler pushed,
\* from the connections w.
Perform(n, out, w) ==
    LET sent == {p \in Nodes : out.mail[p] # <<>>}
        opened == {p \in sent : <<n, p>> \notin w.entry}
        live(p) == <<n, p>> \notin w.broken
        items(p) == [i \in 1..Len(out.mail[p]) |->
                        [msg |-> out.mail[p][i], fresh |-> i = 1 /\ p \in opened]]
        ended == {p \in out.drop : p \in sent \/ <<n, p>> \in w.entry} IN
    [chan |-> [w.chan EXCEPT ![n] = [p \in Nodes |-> IF live(p) THEN @[p] \o items(p) ELSE @[p]]],
     entry |-> (w.entry \cup ({n} \X sent)) \ ({n} \X out.drop),
     broken |-> w.broken \ ({n} \X out.drop),
     closing |-> (w.closing \ ({n} \X (opened \cup out.drop)))
                 \cup {<<p, n>> : p \in {p \in ended : live(p) /\ <<n, p>> \notin w.closing}}]

Become(n, r, w) ==
    /\ node' = [node EXCEPT ![n] = [r EXCEPT !.out = Nothing]]
    /\ neighbors' = [neighbors EXCEPT ![n] = (@ \ r.out.down) \cup r.out.up]
    /\ timers' = timers \cup ({n} \X r.out.timer)
    /\ net' = Perform(n, r.out, w)

\* Command::Join with at most one peer, which subscribes n if need be.
JoinPeers(n, ps) ==
    /\ count.joins < MaxJoins
    /\ Cardinality(ps) <= 1 /\ n \notin ps
    /\ n \in joined => ps # {}
    /\ count' = [count EXCEPT !.joins = @ + 1]
    /\ joined' = joined \cup {n}
    /\ Become(n, IF ps = {} THEN node[n] ELSE Send(node[n], ps, Join), net)

RecvMessage(n, p) ==
    LET c == net.chan[p][n]
        rest == [net EXCEPT !.chan[p][n] = Tail(c)]
        w == IF Head(c).fresh
             THEN [rest EXCEPT !.entry = @ \cup {<<n, p>>}, !.broken = @ \ {<<n, p>>},
                               !.closing = @ \ {<<n, p>>}]
             ELSE rest IN
    /\ c # <<>>
    /\ IF n \in joined
       THEN \E r \in HandleMessage(node[n], n, p, Head(c).msg) : Become(n, r, w)
       ELSE net' = w /\ UNCHANGED <<node, neighbors, timers>>
    /\ UNCHANGED <<joined, count>>

\* handle_connection_task_finished for the connection n sends to p on.
PeerDisconnected(n, p) ==
    LET w == [net EXCEPT !.closing = @ \ {<<n, p>>}]
        gone == [w EXCEPT !.broken = @ \cup {<<n, p>>}] IN
    /\ <<n, p>> \in net.closing
    /\ net.chan[p][n] = <<>>
    /\ CASE <<n, p>> \notin net.entry -> net' = w /\ UNCHANGED <<node, neighbors, timers>>
         [] <<n, p>> \in net.entry /\ n \notin joined ->
                net' = gone /\ UNCHANGED <<node, neighbors, timers>>
         [] OTHER -> \E r \in HandleConnectionClosed(node[n], n, p) : Become(n, r, gone)
    /\ UNCHANGED <<joined, count>>

DoShuffle(n) ==
    /\ n \in joined
    /\ count.shuffles < MaxShuffles
    /\ count' = [count EXCEPT !.shuffles = @ + 1]
    /\ \E r \in HandleShuffleTimer(node[n], n) : Become(n, r, net)
    /\ UNCHANGED joined

PendingNeighborRequest(n, p) ==
    /\ <<n, p>> \in timers
    /\ IF n \in joined
       THEN \E r \in HandlePendingNeighborTimer(node[n], p) :
              /\ node' = [node EXCEPT ![n] = [r EXCEPT !.out = Nothing]]
              /\ timers' = (timers \ {<<n, p>>}) \cup ({n} \X r.out.timer)
              /\ net' = Perform(n, r.out, net)
       ELSE timers' = timers \ {<<n, p>>} /\ UNCHANGED <<node, net>>
    /\ UNCHANGED <<joined, neighbors, count>>

Quit(n) ==
    /\ n \in joined
    /\ count.quits < MaxQuits
    /\ count' = [count EXCEPT !.quits = @ + 1]
    /\ joined' = joined \ {n}
    /\ \E r \in HandleQuit(node[n]) :
         /\ node' = [node EXCEPT ![n] = Fresh]
         /\ net' = Perform(n, r.out, net)
    /\ neighbors' = [neighbors EXCEPT ![n] = {}]
    /\ UNCHANGED timers

\* External: an established connection between two nodes breaks.
ConnectionLost(n, p) ==
    LET both == {<<n, p>>, <<p, n>>} IN
    /\ count.losses < MaxLosses
    /\ both \subseteq net.entry /\ both \cap (net.closing \cup net.broken) = {}
    /\ count' = [count EXCEPT !.losses = @ + 1]
    /\ net' = [chan |-> [net.chan EXCEPT ![n][p] = <<>>, ![p][n] = <<>>],
               entry |-> net.entry,
               broken |-> net.broken \cup both, closing |-> net.closing \cup both]
    /\ UNCHANGED <<node, joined, neighbors, timers>>

Next ==
    \E n \in Nodes :
        \/ \E ps \in SUBSET Nodes : JoinPeers(n, ps)
        \/ \E p \in Nodes : RecvMessage(n, p)
        \/ \E p \in Nodes : PeerDisconnected(n, p)
        \/ DoShuffle(n)
        \/ \E p \in Nodes : PendingNeighborRequest(n, p)
        \/ Quit(n)
        \/ \E p \in Nodes : ConnectionLost(n, p)

Spec == Init /\ [][Next]_vars

\* What has been sent on a connection is read, and timers expire.
Fairness ==
    WF_vars(\E n, p \in Nodes : RecvMessage(n, p) \/ PendingNeighborRequest(n, p))

-----------------------------------------------------------------------------
(* Properties. *)

\* Every message, connection and timer is about nodes of the swarm, and nothing
\* that a handler pushed is left between handlers.
Messages ==
    [kind : {"Join"}] \cup [kind : {"ForwardJoin"}, peer : Nodes, ttl : 0..ARWL]
    \cup [kind : {"Shuffle"}, origin : Nodes, nodes : SUBSET Nodes, ttl : 0..SRWL]
    \cup [kind : {"ShuffleReply"}, nodes : SUBSET Nodes]
    \cup [kind : {"Neighbor"}, priority : {"low", "high"}]
    \cup [kind : {"Disconnect"}, alive : BOOLEAN]

TypeOK ==
    /\ node \in [Nodes -> [active : SUBSET Nodes, passive : SUBSET Nodes, pending : SUBSET Nodes,
                           alive : SUBSET Nodes, out : {Nothing}]]
    /\ joined \subseteq Nodes
    /\ neighbors \in [Nodes -> SUBSET Nodes]
    /\ net \in [chan : [Nodes -> [Nodes -> Seq([msg : Messages, fresh : BOOLEAN])]],
                entry : SUBSET (Nodes \X Nodes), broken : SUBSET (Nodes \X Nodes),
                closing : SUBSET (Nodes \X Nodes)]
    /\ timers \subseteq Nodes \X Nodes

\* The two views of a node stay apart, leave out the node itself, and stay
\* within their capacities, whatever order joins, evictions, refusals, timeouts
\* and disconnects come in (add_passive, add_active, remove_active_by_index).
ViewsApart ==
    \A n \in Nodes :
        /\ node[n].active \cap node[n].passive = {}
        /\ n \notin node[n].active \cup node[n].passive
        /\ Cardinality(node[n].active) <= ActiveCap
        /\ Cardinality(node[n].passive) <= PassiveCap

\* What the application was told with NeighborUp and NeighborDown is the active
\* view, while the topic is joined.
NeighborsTold == \A n \in joined : neighbors[n] = node[n].active

\* A random walk never comes to the node it is about: no ForwardJoin introduces
\* a node to itself and no Shuffle returns to its origin (on_join,
\* on_forward_join, on_shuffle, handle_shuffle_timer).
WalksSafe ==
    \A n, p \in Nodes : \A i \in DOMAIN net.chan[n][p] :
        LET m == net.chan[n][p][i].msg IN
        /\ m.kind = "ForwardJoin" => m.peer # p
        /\ m.kind = "Shuffle" => m.origin # p

\* Nothing is on its way and nothing will be reported or time out.
Quiet ==
    /\ \A n, p \in Nodes : net.chan[n][p] = <<>>
    /\ net.closing = {} /\ timers = {}

\* Whatever a join sets off (forwarded joins, evictions, requests of the
\* evicted and their refusals) comes to an end: again and again every message
\* has been read.
Settles == []<>(\A n, p \in Nodes : net.chan[n][p] = <<>>)

\* proto.rs: "The HyParView protocol ensures that active connections are always
\* bidirectional": once the swarm is quiet, active views are symmetric.
Bidirectional ==
    Quiet => \A n, p \in joined : p \in node[n].active => n \in node[p].active

=============================================================================
