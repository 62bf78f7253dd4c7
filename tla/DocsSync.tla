------------------------------ MODULE DocsSync ------------------------------
(***************************************************************************)
(* Live sync of one document between peers: the PeerState that each live   *)
(* actor keeps of the other peers, the sync tasks that it spawns, and the  *)
(* sessions between them.                                                  *)
(*                                                                         *)
(* A session is dialed by the connect task of one peer (Alice) and served  *)
(* by an accept task of the other (Bob), which asks its actor first.  Each *)
(* actor learns the outcome when it joins its own task, so the two sides   *)
(* of a session end at different times.                                    *)
(***************************************************************************)
EXTENDS Integers, FiniteSets

CONSTANTS
    Peers,          \* a set of integers, ordered as the bytes of their ids
    Leavers,        \* the peers that leave the document, once
    MaxLive,        \* MAX_LIVE_SYNC_SESSIONS
    MaxUps,         \* bounds: the syncs with neighbours, and the sync reports
    MaxReports      \* with news

ASSUME PeersAssumption == Peers \subseteq Int
ASSUME BoundsAssumption == MaxLive \in Nat /\ MaxUps \in Nat /\ MaxReports \in Nat

\* A report leads to one dial: at once, or when the running sync has finished.
Sessions == 1..(MaxUps + MaxReports)

(***************************************************************************)
(* A side of a session is                                                  *)
(*   none     there is no task                                             *)
(*   asking   the actor of Bob has been asked and has not answered         *)
(*   running  the task takes part in the session                           *)
(*   ok, err, aborted, panicked   the task has ended, and the actor has    *)
(*            not joined it; "aborted" is AbortReason::AlreadySyncing, and *)
(*            only an accept task panics                                   *)
(*   joined   the actor has joined it, or will learn nothing from it       *)
(***************************************************************************)
Ended == {"ok", "err", "aborted"}

VARIABLES
    ended,     \* the peers of which the live actor has ended
    syncing,   \* the peers that sync the document
    left,      \* the peers that have left it at some time
    state,     \* state[n][p]: SyncState of p at n: idle, connect or accept
    resync,    \* pairs <<n, p>>: resync_requested of p at n
    session,   \* the sessions that were dialed, and how far each side is
    reports,   \* pairs <<n, p>>: a report with news for n is on its way from p
    tally      \* how often each bounded thing has happened

syncVars == <<ended, syncing, left, state, resync, session, reports, tally>>

Unused == [from |-> 0, to |-> 0, alice |-> "none", bob |-> "none"]

SyncInit ==
    /\ ended = {}
    /\ syncing = Peers
    /\ left = {}
    /\ state = [n \in Peers |-> [p \in Peers |-> "idle"]]
    /\ resync = {}
    /\ session = [s \in Sessions |-> Unused]
    /\ reports = {}
    /\ tally = [ups |-> 0, reports |-> 0]

-----------------------------------------------------------------------------
(* PeerState, as the pair of its state and resync_requested. *)

SetSyncRunning(origin) == <<origin, FALSE>>

\* expected_sync_direction(me, node) is Accept
ExpectedAccept(me, node) == me > node

\* Mutated form of Allows: both ends of a crossing accept.
AllowsAlways(me, node, st) == st # "accept"

\* accept_request allows the request of `node`
Allows(me, node, st) == st = "idle" \/ (st = "connect" /\ ExpectedAccept(me, node))

PeerState(n, p) == <<state[n][p], <<n, p>> \in resync>>
SetPeer(n, p, ps) ==
    /\ state' = [state EXCEPT ![n][p] = ps[1]]
    /\ resync' = IF ps[2] THEN resync \cup {<<n, p>>} ELSE resync \ {<<n, p>>}

-----------------------------------------------------------------------------
(* The tasks of the actors.  w is a value of `session`. *)

\* running_sync_connect of n
Dials(n, w) == {s \in Sessions : w[s].from = n /\ w[s].alice \notin {"none", "joined"}}

Spawn(n, p, w) ==
    LET free == {s \in Sessions : w[s] = Unused} IN
    [w EXCEPT ![CHOOSE s \in free : \A r \in free : s <= r] =
                 [from |-> n, to |-> p, alice |-> "running", bob |-> "none"]]

\* join_next of one side; nothing is left of a session that both have joined.
JoinAlice(s) ==
    [session EXCEPT ![s] = IF @.bob = "joined" THEN Unused ELSE [@ EXCEPT !.alice = "joined"]]
JoinBob(s) ==
    [session EXCEPT ![s] = IF @.alice = "joined" THEN Unused ELSE [@ EXCEPT !.bob = "joined"]]

\* sync_with_peer for a peer in the state ps; start_connect remembers a report
\* that comes while a sync is running.
SyncWithPeer(n, p, reason, ps, w) ==
    IF Cardinality(Dials(n, w)) >= MaxLive
    THEN SetPeer(n, p, ps) /\ session' = w
    ELSE IF ps[1] = "idle"
    THEN SetPeer(n, p, SetSyncRunning("connect")) /\ session' = Spawn(n, p, w)
    ELSE SetPeer(n, p, <<ps[1], ps[2] \/ reason = "SyncReport">>) /\ session' = w

\* on_sync_finished: whatever state the peer was in, it is idle, and is dialed
\* again if a report came while a sync was running.
OnSyncFinished(n, p, w) ==
    LET again == <<n, p>> \in resync IN
    IF n \notin syncing
    THEN session' = w /\ UNCHANGED <<state, resync>>
    ELSE IF state[n][p] # "idle" /\ again
    THEN SyncWithPeer(n, p, "Resync", <<"idle", again>>, w)
    ELSE SetPeer(n, p, <<"idle", again>>) /\ session' = w

-----------------------------------------------------------------------------
(* The handlers of the live actor. *)

\* The peer p joins the swarm of n (NewNeighbor), or the application asks for a
\* sync with it (DirectJoin).
NeighborSync(n, p) ==
    /\ n # p /\ n \in syncing
    /\ tally.ups < MaxUps
    /\ tally' = [tally EXCEPT !.ups = @ + 1]
    /\ SyncWithPeer(n, p, "NewNeighbor", PeerState(n, p), session)
    /\ UNCHANGED <<ended, syncing, left, reports>>

\* External: p gets entries from elsewhere and reports that to its neighbours.
NewsReported(n, p) ==
    /\ n # p /\ tally.reports < MaxReports
    /\ tally' = [tally EXCEPT !.reports = @ + 1]
    /\ reports' = reports \cup {<<n, p>>}
    /\ UNCHANGED <<ended, syncing, left, state, resync, session>>

\* on_sync_report; by now it may be news (has_news_for_us) or not.
OnSyncReport(n, p) ==
    /\ <<n, p>> \in reports
    /\ reports' = reports \ {<<n, p>>}
    /\ \/ n \in syncing /\ SyncWithPeer(n, p, "SyncReport", PeerState(n, p), session)
       \/ UNCHANGED <<state, resync, session>>
    /\ UNCHANGED <<ended, syncing, left, tally>>

\* The actor of Bob answers its task.  If it refuses, Alice is sent the reason,
\* and may fail before she reads it.
AcceptSyncRequest(s) ==
    LET n == session[s].to
        p == session[s].from
        reason == IF n \in syncing THEN "aborted" ELSE "err" IN
    /\ session[s].bob = "asking" /\ n \notin ended
    /\ IF n \in syncing /\ Allows(n, p, state[n][p])
       THEN /\ session' = [session EXCEPT ![s].bob = "running"]
            /\ SetPeer(n, p, SetSyncRunning("accept"))
       ELSE /\ \E told \in {reason, "err"} :
                 session' = [session EXCEPT ![s].bob = reason,
                                            ![s].alice = IF @ = "running" THEN told ELSE @]
            /\ UNCHANGED <<state, resync>>
    /\ UNCHANGED <<ended, syncing, left, reports, tally>>

\* on_sync_via_connect_finished
ConnectFinished(s) ==
    /\ session[s].alice \in Ended
    /\ IF session[s].alice = "aborted"
       THEN session' = JoinAlice(s) /\ UNCHANGED <<state, resync>>
       ELSE OnSyncFinished(session[s].from, session[s].to, JoinAlice(s))
    /\ UNCHANGED <<ended, syncing, left, reports, tally>>

\* Mutated form of AcceptFinished: a session that failed is not finished.
AcceptFinishedOk(s) ==
    /\ session[s].bob \in Ended
    /\ IF session[s].bob # "ok"
       THEN session' = JoinBob(s) /\ UNCHANGED <<state, resync>>
       ELSE OnSyncFinished(session[s].to, session[s].from, JoinBob(s))
    /\ UNCHANGED <<ended, syncing, left, reports, tally>>

\* on_sync_via_accept_finished
AcceptFinished(s) ==
    /\ session[s].bob \in Ended
    /\ IF session[s].bob = "aborted"
       THEN session' = JoinBob(s) /\ UNCHANGED <<state, resync>>
       ELSE OnSyncFinished(session[s].to, session[s].from, JoinBob(s))
    /\ UNCHANGED <<ended, syncing, left, reports, tally>>

\* What is left of the session w when n aborts its tasks.
Aborted(n, w) ==
    LET alice == IF w.from = n THEN "joined" ELSE w.alice
        bob == IF w.to = n THEN "joined" ELSE w.bob IN
    IF alice = "joined" /\ bob \in {"none", "joined"} THEN Unused
    ELSE [from |-> w.from, to |-> w.to, alice |-> alice, bob |-> bob]

\* The live actor joins a task that has panicked, and ends with that error: it
\* shuts down gossip and the storage of the documents, and aborts its tasks.
ActorEnds(s) ==
    LET n == session[s].to IN
    /\ session[s].bob = "panicked"
    /\ ended' = ended \cup {n}
    /\ syncing' = syncing \ {n}
    /\ state' = [state EXCEPT ![n] = [p \in Peers |-> "idle"]]
    /\ resync' = {q \in resync : q[1] # n}
    /\ session' = [r \in Sessions |-> Aborted(n, session[r])]
    /\ UNCHANGED <<left, reports, tally>>

\* leave: the states of the peers go with the document, the tasks stay.
Leave(n) ==
    /\ n \in syncing \cap Leavers /\ n \notin left
    /\ syncing' = syncing \ {n}
    /\ left' = left \cup {n}
    /\ state' = [state EXCEPT ![n] = [p \in Peers |-> "idle"]]
    /\ resync' = {q \in resync : q[1] # n}
    /\ UNCHANGED <<ended, session, reports, tally>>

\* start_sync of a document that is not syncing; its peers follow as NeighborSync.
StartSync(n) ==
    /\ n \notin syncing \cup ended
    /\ syncing' = syncing \cup {n}
    /\ UNCHANGED <<ended, left, state, resync, session, reports, tally>>

-----------------------------------------------------------------------------
(* The tasks: connect_and_sync (Alice) and handle_connection (Bob). *)

SetSession(s, alice, bob) ==
    /\ session' = [session EXCEPT ![s].alice = alice, ![s].bob = bob]
    /\ UNCHANGED <<ended, syncing, left, state, resync, reports, tally>>

\* Bob reads the SyncInit message of Alice and asks the actor.
Connected(s) ==
    /\ session[s].alice = "running" /\ session[s].bob = "none"
    /\ session[s].to \notin ended
    /\ SetSession(s, "running", "asking")

\* The dial fails, or the connection is lost before Bob has read the SyncInit
\* message, of which his actor learns no peer.
DialFailed(s) ==
    /\ session[s].alice = "running" /\ session[s].bob = "none"
    /\ SetSession(s, "err", "joined")

\* Alice loses the connection.
AliceFailed(s) ==
    /\ session[s].alice = "running" /\ session[s].bob # "none"
    /\ SetSession(s, "err", session[s].bob)

\* Bob loses the connection.
BobFailed(s) ==
    /\ session[s].bob = "running"
    /\ SetSession(s, session[s].alice, "err")

\* sync_process_message fails at Bob, since the document was left meanwhile or its
\* store fails: the task has given away its progress, and panics in into_outcome.
BobPanicked(s) ==
    /\ session[s].bob = "running"
    /\ SetSession(s, session[s].alice, "panicked")

\* The exchange is complete, and each side closes its streams, in which it may
\* fail.
Synced(s) ==
    /\ session[s].alice = "running" /\ session[s].bob = "running"
    /\ \E a, b \in {"ok", "err"} : SetSession(s, a, b)

SyncNext ==
    \/ \E n, p \in Peers : NeighborSync(n, p)
    \/ \E n, p \in Peers : NewsReported(n, p)
    \/ \E n, p \in Peers : OnSyncReport(n, p)
    \/ \E n \in Peers : Leave(n)
    \/ \E n \in Peers : StartSync(n)
    \/ \E s \in Sessions : AcceptSyncRequest(s)
    \/ \E s \in Sessions : ConnectFinished(s)
    \/ \E s \in Sessions : AcceptFinished(s)
    \/ \E s \in Sessions : Connected(s)
    \/ \E s \in Sessions : DialFailed(s)
    \/ \E s \in Sessions : AliceFailed(s)
    \/ \E s \in Sessions : BobFailed(s)
    \/ \E s \in Sessions : BobPanicked(s)
    \/ \E s \in Sessions : ActorEnds(s)
    \/ \E s \in Sessions : Synced(s)

SyncSpec == SyncInit /\ [][SyncNext]_syncVars

-----------------------------------------------------------------------------
(* Properties. *)

\* A peer that is noted as syncing with us by its own request is: there is an
\* accept task for it that the actor has still to join.  That makes the peer idle
\* again, however sessions cross, fail and overlap, or, if the task has panicked,
\* ends the actor with all that it has noted (accept_request, finish,
\* on_sync_via_accept_finished, run_inner).
AcceptsAccounted ==
    \A n, p \in Peers : state[n][p] = "accept" =>
        \E s \in Sessions : /\ session[s].from = p /\ session[s].to = n
                            /\ session[s].bob \in {"running", "ok", "err", "panicked"}

\* The sessions in which n exchanges entries with p.
Syncs(n, p) ==
    {s \in Sessions : \/ session[s].from = n /\ session[s].to = p /\ session[s].alice = "running"
                      \/ session[s].from = p /\ session[s].to = n /\ session[s].bob = "running"}

\* state.rs: "never run two syncs at the same time".  The peer with the lesser
\* id, which refuses what crosses its own request, never does, as long as it
\* does not leave the document.
LesserExclusive ==
    \A n, p \in Peers : n < p /\ n \notin left => Cardinality(Syncs(n, p)) <= 1

=============================================================================
