------------------------------ MODULE PlumTree ------------------------------
(***************************************************************************)
(* The broadcast tree of one gossip topic: the handlers of                 *)
(* plumtree::State, and nodes that run them over an overlay whose links    *)
(* come and go.                                                            *)
(*                                                                         *)
(* A handler maps the state of a node to its next state, with the mail it  *)
(* pushed in `out`.  The overlay is what topic::State makes of HyParView:  *)
(* a link is taken up by one side, with a Neighbor message to the other,   *)
(* given up by one side, with a Disconnect message, or lost to both.       *)
(***************************************************************************)
EXTENDS Integers, Sequences, FiniteSets

CONSTANTS
    Members, Ids,      \* the peers, and the ids of the contents that are sent
    Links,           \* the links that the overlay may have at the start: sets {n, p}
    Threshold,       \* optimization_threshold
    MaxPending,      \* MAX_PENDING_MESSAGES
    MaxGraftRetries, \* MAX_GRAFT_RETRIES
    MaxLazyQueue,    \* MAX_LAZY_QUEUE_PER_PEER
    MaxBroadcasts,   \* bounds: broadcasts, and changes of the overlay, lost
    MaxDisturbances  \* connections and evictions together

ASSUME LinksAssumption == \A l \in Links : \E n, p \in Members : n # p /\ l = {n, p}
ASSUME IdsAssumption == IsFiniteSet(Ids)
ASSUME LimitsAssumption ==
    Threshold \in Nat /\ MaxPending \in Nat /\ MaxGraftRetries \in Nat /\ MaxLazyQueue \in Nat

-----------------------------------------------------------------------------
(* Messages.  A round of NoRound is the scope Neighbors. *)

NoRound == -1
NoId == "none"

Gossip(id, round) == [kind |-> "Gossip", id |-> id, round |-> round]
Prune == [kind |-> "Prune"]
IHave(id, round) == [kind |-> "IHave", id |-> id, round |-> round]
Graft(id) == [kind |-> "Graft", id |-> id]
\* The messages of the swarm that change a link.
LinkUp == [kind |-> "Neighbor"]
LinkDown == [kind |-> "Disconnect"]

NoMail == [p \in Members |-> <<>>]
Push(t, ps, m) ==
    [t EXCEPT !.out = [p \in Members |-> IF p \in ps THEN Append(@[p], m) ELSE @[p]]]

(***************************************************************************)
(* plumtree::State.                                                        *)
(*   queue      lazy_push_queue                                            *)
(*   tracked    the keys of missing_messages; missing holds their peers,   *)
(*              in order, each with the round it announced                 *)
(*   cache      the round of each message in the cache, or NoRound         *)
(*   flagged    graft_timer_scheduled                                      *)
(*   grafts     how many SendGraft timers of each message are scheduled    *)
(*   dispatch   dispatch_timer_scheduled: set when the timer is scheduled, *)
(*              reset when it fires, so it also stands for the timer       *)
(***************************************************************************)
Planted(eager, lazy) ==
    [eager |-> eager, lazy |-> lazy, queue |-> [p \in Members |-> <<>>],
     tracked |-> {}, missing |-> [id \in Ids |-> <<>>],
     received |-> {}, cache |-> [id \in Ids |-> NoRound],
     flagged |-> {}, grafts |-> [id \in Ids |-> 0], dispatch |-> FALSE, out |-> NoMail]

-----------------------------------------------------------------------------
(* Helpers of the handlers. *)

AddEager(t, p) == [t EXCEPT !.lazy = @ \ {p}, !.eager = @ \cup {p}]

\* Mutated form of AddLazy: the peer is dropped rather than moved.
AddLazyNot(t, p) == [t EXCEPT !.eager = @ \ {p}, !.lazy = @ \ {p}]

AddLazy(t, p) == [t EXCEPT !.eager = @ \ {p}, !.lazy = @ \cup {p}]

EagerPush(t, me, id, round, sender) == Push(t, t.eager \ {me, sender}, Gossip(id, round))

\* Mutated form of LazyPush: the announcement is queued, the timer is not set.
LazyPushUnset(t, id, round, sender) ==
    [t EXCEPT !.queue = [p \in Members |->
                            IF p \in t.lazy \ {sender} /\ Len(@[p]) < MaxLazyQueue
                            THEN Append(@[p], IHave(id, round)) ELSE @[p]]]

LazyPush(t, id, round, sender) ==
    [t EXCEPT !.queue = [p \in Members |->
                            IF p \in t.lazy \ {sender} /\ Len(@[p]) < MaxLazyQueue
                            THEN Append(@[p], IHave(id, round)) ELSE @[p]],
              !.dispatch = TRUE]

\* The first announcement with the least round (min_by).
Best(ihaves) ==
    ihaves[CHOOSE i \in DOMAIN ihaves :
              \A j \in DOMAIN ihaves : ihaves[i].round < ihaves[j].round
                                       \/ (ihaves[i].round = ihaves[j].round /\ i <= j)]

\* optimize_tree; an empty `ihaves` also stands for no entry in missing_messages
OptimizeTree(t, sender, round, ihaves) ==
    IF ihaves = <<>> \/ round - Best(ihaves).round < Threshold \/ Best(ihaves).round >= round THEN t
    ELSE LET peer == Best(ihaves).peer
             grafted == IF peer \in t.eager THEN t
                        ELSE Push(AddEager(t, peer), {peer}, Graft(NoId)) IN
         Push(AddLazy(grafted, sender), {sender}, Prune)

-----------------------------------------------------------------------------
(* The handlers. *)

Broadcast(t, me, id, round) ==
    IF round = NoRound THEN EagerPush(t, me, id, round, me)
    ELSE LET kept == [t EXCEPT !.received = @ \cup {id}, !.cache[id] = round] IN
         EagerPush(LazyPush(kept, id, round, me), me, id, round, me)

\* Messages with a wrong id are dropped before anything changes; ids stand for
\* contents here, so there are none.
OnGossip(t, me, sender, m) ==
    IF m.id \in t.received THEN Push(AddLazy(t, sender), {sender}, Prune)
    ELSE IF m.round = NoRound THEN t
    ELSE LET round == m.round + 1
             kept == [t EXCEPT !.received = @ \cup {m.id}, !.cache[m.id] = round]
             pushed == LazyPush(EagerPush(kept, me, m.id, round, sender), m.id, round, sender)
             found == [pushed EXCEPT !.flagged = @ \ {m.id}, !.tracked = @ \ {m.id},
                                     !.missing[m.id] = <<>>] IN
         OptimizeTree(found, sender, round, t.missing[m.id])

OnPrune(t, sender) == AddLazy(t, sender)

\* on_ihave for one entry of the list
OnIHave(t, sender, m) ==
    LET known == t.missing[m.id] IN
    IF \/ m.id \in t.received
       \/ m.id \notin t.tracked /\ Cardinality(t.tracked) >= MaxPending
    THEN t
    ELSE LET seen == [t EXCEPT !.tracked = @ \cup {m.id}] IN
         IF Len(known) >= MaxGraftRetries \/ \E i \in DOMAIN known : known[i].peer = sender
         THEN seen
         ELSE [seen EXCEPT !.missing[m.id] = Append(@, [peer |-> sender, round |-> m.round]),
                           !.flagged = @ \cup {m.id},
                           !.grafts[m.id] = IF m.id \in t.flagged THEN @ ELSE @ + 1]

\* Mutated form of OnSendGraftTimer: no second timer follows the Graft.
OnSendGraftTimerOnce(t, id) ==
    LET fired == [t EXCEPT !.flagged = @ \ {id}, !.grafts[id] = @ - 1] IN
    IF id \in t.received \/ t.missing[id] = <<>> THEN fired
    ELSE LET peer == Head(t.missing[id]).peer IN
         Push(AddEager([fired EXCEPT !.missing[id] = Tail(@)], peer), {peer}, Graft(id))

OnSendGraftTimer(t, id) ==
    LET fired == [t EXCEPT !.flagged = @ \ {id}, !.grafts[id] = @ - 1] IN
    IF id \in t.received \/ t.missing[id] = <<>> THEN fired
    ELSE LET peer == Head(t.missing[id]).peer IN
         Push(AddEager([fired EXCEPT !.missing[id] = Tail(@), !.grafts[id] = @ + 1], peer),
              {peer}, Graft(id))

\* Mutated form of OnGraft: the link is repaired, what was missed is not sent.
OnGraftEager(t, sender, m) == AddEager(t, sender)

OnGraft(t, sender, m) ==
    LET grafted == AddEager(t, sender) IN
    IF m.id # NoId /\ m.id \in Ids /\ t.cache[m.id] # NoRound
    THEN Push(grafted, {sender}, Gossip(m.id, t.cache[m.id]))
    ELSE grafted

OnNeighborUp(t, p) == AddEager(t, p)

\* What a peer announced is forgotten (a peer announces a message at most once).
Without(ihaves, p) ==
    IF \E i \in DOMAIN ihaves : ihaves[i].peer = p
    THEN LET i == CHOOSE i \in DOMAIN ihaves : ihaves[i].peer = p IN
         SubSeq(ihaves, 1, i - 1) \o SubSeq(ihaves, i + 1, Len(ihaves))
    ELSE ihaves

\* Mutated form of OnNeighborDown: a message the peer announced is forgotten,
\* whoever else announced it.
OnNeighborDownAll(t, p) ==
    LET left == [id \in Ids |-> IF Without(t.missing[id], p) = t.missing[id]
                               THEN t.missing[id] ELSE <<>>] IN
    [t EXCEPT !.missing = left, !.tracked = {id \in @ : left[id] # <<>>},
              !.eager = @ \ {p}, !.lazy = @ \ {p}]

OnNeighborDown(t, p) ==
    LET left == [id \in Ids |-> Without(t.missing[id], p)] IN
    [t EXCEPT !.missing = left, !.tracked = {id \in @ : left[id] # <<>>},
              !.eager = @ \ {p}, !.lazy = @ \ {p}]

OnDispatchTimer(t) ==
    [t EXCEPT !.out = [p \in Members |-> @[p] \o t.queue[p]],
              !.queue = [p \in Members |-> <<>>], !.dispatch = FALSE]

\* on_evict_cache_timer, where the payloads `old` have expired and so have the
\* ids `older`; ids are kept at least as long as payloads.
OnEvictCacheTimer(t, old, older) ==
    [t EXCEPT !.cache = [id \in Ids |-> IF id \in old THEN NoRound ELSE @[id]],
              !.received = @ \ older]

HandleTreeMessage(t, me, sender, m) ==
    CASE m.kind = "Gossip" -> OnGossip(t, me, sender, m)
      [] m.kind = "Prune" -> OnPrune(t, sender)
      [] m.kind = "IHave" -> OnIHave(t, sender, m)
      [] m.kind = "Graft" -> OnGraft(t, sender, m)
      [] m.kind = "Neighbor" -> OnNeighborUp(t, sender)
      [] OTHER -> OnNeighborDown(t, sender)

-----------------------------------------------------------------------------
(* The nodes and the overlay. *)

VARIABLES
    tree,       \* the state of each node
    view,       \* the active view of each node
    wire,       \* wire[n][p]: the messages from n that p has not read
    gone,       \* pairs <<n, p>>: the connection is gone and n does not know
    changed,    \* the links {n, p} that have not been up all the time
    used        \* how often each bounded thing has happened

treeVars == <<tree, view, wire, gone, changed, used>>

\* The overlay has formed, with the links `up`, and the tree has seen traffic:
\* the links `pruned` are lazy on both sides (broadcasts that cross can prune any
\* of them), and what was sent has been evicted from the caches.
TreeInit ==
    /\ \E up \in SUBSET Links, pruned \in SUBSET Links :
         /\ pruned \subseteq up
         /\ changed = Links \ up
         /\ view = [n \in Members |-> {p \in Members : {n, p} \in up}]
         /\ tree = [n \in Members |-> Planted({p \in Members : {n, p} \in up \ pruned},
                                              {p \in Members : {n, p} \in pruned})]
    /\ wire = [n \in Members |-> [p \in Members |-> <<>>]]
    /\ gone = {}
    /\ used = [broadcasts |-> 0, disturbances |-> 0, evictions |-> 0]

\* The node n becomes t, and its mail is added to the messages c; what it sends
\* on a connection that is gone is lost.
Grow(n, t, c) ==
    /\ tree' = [tree EXCEPT ![n] = [t EXCEPT !.out = NoMail]]
    /\ wire' = [c EXCEPT ![n] = [p \in Members |->
                                   IF <<n, p>> \in gone THEN @[p] ELSE @[p] \o t.out[p]]]

\* Command::Broadcast
DoBroadcast(n, id, round) ==
    /\ used.broadcasts < MaxBroadcasts
    /\ used' = [used EXCEPT !.broadcasts = @ + 1]
    /\ Grow(n, Broadcast(tree[n], n, id, round), wire)
    /\ UNCHANGED <<view, gone, changed>>

\* A message of either protocol; the links that Neighbor and Disconnect report
\* change for this side as well.
RecvFrom(n, p) ==
    LET m == Head(wire[p][n]) IN
    /\ wire[p][n] # <<>>
    /\ Grow(n, HandleTreeMessage(tree[n], n, p, m), [wire EXCEPT ![p][n] = Tail(@)])
    /\ view' = [view EXCEPT ![n] = CASE m.kind = "Neighbor" -> @ \cup {p}
                                     [] m.kind = "Disconnect" -> @ \ {p}
                                     [] OTHER -> @]
    /\ UNCHANGED <<gone, changed, used>>

SendGraft(n, id) ==
    /\ tree[n].grafts[id] > 0
    /\ Grow(n, OnSendGraftTimer(tree[n], id), wire)
    /\ UNCHANGED <<view, gone, changed, used>>

DispatchLazyPush(n) ==
    /\ tree[n].dispatch
    /\ Grow(n, OnDispatchTimer(tree[n]), wire)
    /\ UNCHANGED <<view, gone, changed, used>>

EvictCache(n) ==
    /\ used.disturbances < MaxDisturbances
    /\ used' = [used EXCEPT !.disturbances = @ + 1, !.evictions = @ + 1]
    /\ \E old, older \in SUBSET {id \in Ids : id \in tree[n].received} :
         /\ older \subseteq old
         /\ Grow(n, OnEvictCacheTimer(tree[n], old, older), wire)
    /\ UNCHANGED <<view, gone, changed>>

\* The swarm of n takes p into its active view, and tells it.
NeighborUp(n, p) ==
    /\ used.disturbances < MaxDisturbances
    /\ n # p /\ p \notin view[n]
    /\ used' = [used EXCEPT !.disturbances = @ + 1]
    /\ view' = [view EXCEPT ![n] = @ \cup {p}]
    /\ Grow(n, Push(OnNeighborUp(tree[n], p), {p}, LinkUp), wire)
    /\ changed' = changed \cup {{n, p}}
    /\ UNCHANGED gone

\* The swarm of n gives p up, and tells it.
NeighborDown(n, p) ==
    /\ used.disturbances < MaxDisturbances
    /\ p \in view[n]
    /\ used' = [used EXCEPT !.disturbances = @ + 1]
    /\ view' = [view EXCEPT ![n] = @ \ {p}]
    /\ Grow(n, Push(OnNeighborDown(tree[n], p), {p}, LinkDown), wire)
    /\ changed' = changed \cup {{n, p}}
    /\ UNCHANGED gone

\* External: the connection between n and p is lost, with what was on it.
LinkLost(n, p) ==
    /\ used.disturbances < MaxDisturbances
    /\ n # p
    /\ used' = [used EXCEPT !.disturbances = @ + 1]
    /\ wire' = [wire EXCEPT ![n][p] = <<>>, ![p][n] = <<>>]
    /\ gone' = gone \cup {<<n, p>>, <<p, n>>}
    /\ changed' = changed \cup {{n, p}}
    /\ UNCHANGED <<tree, view>>

\* InEvent::PeerDisconnected, for the swarm and then for the tree.
LinkClosed(n, p) ==
    /\ <<n, p>> \in gone
    /\ gone' = gone \ {<<n, p>>}
    /\ view' = [view EXCEPT ![n] = @ \ {p}]
    /\ tree' = [tree EXCEPT ![n] = OnNeighborDown(@, p)]
    /\ UNCHANGED <<wire, changed, used>>

TreeNext ==
    \E n \in Members :
        \/ \E id \in Ids, round \in {0, NoRound} : DoBroadcast(n, id, round)
        \/ \E p \in Members : RecvFrom(n, p)
        \/ \E id \in Ids : SendGraft(n, id)
        \/ DispatchLazyPush(n)
        \/ EvictCache(n)
        \/ \E p \in Members : NeighborUp(n, p)
        \/ \E p \in Members : NeighborDown(n, p)
        \/ \E p \in Members : LinkLost(n, p)
        \/ \E p \in Members : LinkClosed(n, p)

TreeSpec == TreeInit /\ [][TreeNext]_treeVars

\* The steps that follow from what has happened: connections deliver, timers
\* fire, and a connection that is gone is noticed.
Progress ==
    \E n \in Members :
        \/ DispatchLazyPush(n)
        \/ \E id \in Ids : SendGraft(n, id)
        \/ \E p \in Members : RecvFrom(n, p) \/ LinkClosed(n, p)

TreeFairness == WF_treeVars(Progress)

FairTreeSpec == TreeSpec /\ TreeFairness

-----------------------------------------------------------------------------
(* Properties. *)

\* A neighbour is always pushed to, in full or by announcement, and never both
\* ways: it is an eager or a lazy peer, whatever prunes, grafts and
\* optimizations cross on the way (add_eager, add_lazy, on_neighbor_up,
\* on_neighbor_down).
NeighborsServed ==
    \A n \in Members :
        /\ view[n] \subseteq tree[n].eager \cup tree[n].lazy
        /\ tree[n].eager \cap tree[n].lazy = {}

\* A message that was announced and has not come has a timer that will ask for
\* it: as long as a peer is left to ask, a SendGraft timer is scheduled
\* (on_ihave, on_send_graft_timer and the cleanup in on_gossip and
\* on_neighbor_down).  A node that broadcasts what others announce to it keeps
\* the announcements, which are not looked at again when the id expires.
GraftPending ==
    \A n \in Members, id \in Ids :
        \/ tree[n].grafts[id] > 0
        \/ id \notin tree[n].flagged /\ (id \in tree[n].received \/ tree[n].missing[id] = <<>>)
        \/ used.evictions > 0

\* An announcement that is queued will be sent: the dispatch timer is scheduled
\* (lazy_push, on_dispatch_timer).
DispatchPending ==
    \A n \in Members : (\E p \in Members : tree[n].queue[p] # <<>>) => tree[n].dispatch

\* What one end of a link that stays up has, the other end gets: pushed,
\* grafted, or from another peer, whichever links around it are lost or pruned
\* meanwhile, unless payloads expire first.
Delivered ==
    []<>(\A n, p \in Members :
            \/ {n, p} \notin Links \ changed
            \/ tree[n].received = tree[p].received
            \/ used.evictions > 0)

=============================================================================
