--------------------------- MODULE DocsLiveProofs ---------------------------
(***************************************************************************)
(* Proofs about the live engine of docs, for any peers, documents, hashes  *)
(* and limits.                                                             *)
(*                                                                         *)
(* DocsSync: a peer that is noted as accepted has an accept task, and the  *)
(* lesser of two peers never runs two syncs at once.  The state that a     *)
(* peer keeps of another says which session there is, if any (Single),     *)
(* for the sessions whose end it has still to learn (Live), which are more *)
(* than those that run.                                                    *)
(*                                                                         *)
(* DocsContent: the two maps of the queue and the download tasks agree,    *)
(* and a document that waits for its content has a download that will end  *)
(* the wait.  The second rests on the first: the documents that the end of *)
(* a download completes are read off one map, and what they still wait for *)
(* off the other.                                                          *)
(***************************************************************************)
EXTENDS DocsSync, DocsContent, FiniteSetTheorems, WellFoundedInduction, TLAPS

\* Zenon proves what does not say otherwise.
USE ZenonT(30)

States == {"idle", "connect", "accept"}
Sides == {"none", "asking", "running", "ok", "err", "aborted", "panicked", "joined"}
SessionStates == {Unused} \cup [from : Peers, to : Peers, alice : Sides, bob : Sides]

SyncTypes ==
    /\ syncing \in SUBSET Peers /\ left \in SUBSET Peers
    /\ state \in [Peers -> [Peers -> States]]
    /\ resync \in SUBSET (Peers \X Peers) /\ IsFiniteSet(resync)
    /\ session \in [Sessions -> SessionStates]
    /\ reports \in SUBSET (Peers \X Peers) /\ IsFiniteSet(reports)
    /\ tally \in [ups : 0..MaxUps, reports : 0..MaxReports]

\* A document that does not sync has no states of peers, and was left, unless
\* the actor has ended.
Quiet ==
    \A n \in Peers : n \notin syncing =>
        n \in left \cup ended /\ \A p \in Peers : state[n][p] = "idle" /\ <<n, p>> \notin resync

\* Every session has been asked for: by a neighbour, or by a report that is
\* not on its way any more and not remembered.
Taken(w) == {s \in Sessions : w[s] # Unused}
Slots == Cardinality(Taken(session)) + Cardinality(reports) + Cardinality(resync)
            <= tally.ups + tally.reports

\* AcceptsAccounted, for the states st and the sessions w.
Accounted(st, w) ==
    \A n, p \in Peers : st[n][p] = "accept" =>
        \E s \in Sessions : w[s].from = p /\ w[s].to = n /\ w[s].bob \in {"running", "ok", "err", "panicked"}

\* The sessions of which n has still to learn the end, but for those it refused.
Live(n, p, w) ==
    {s \in Sessions : \/ w[s].from = n /\ w[s].to = p /\ w[s].alice \in {"running", "ok", "err", "aborted"}
                      \/ w[s].from = p /\ w[s].to = n /\ w[s].bob \in {"running", "ok", "err", "panicked"}}

\* The state of p at n says which session there is, if any.
Single(n, p, st, w) ==
    /\ \A r, s \in Live(n, p, w) : r = s
    /\ st[n][p] = "idle" => Live(n, p, w) = {}
    /\ st[n][p] = "connect" => \A s \in Live(n, p, w) : w[s].from = n
    /\ st[n][p] = "accept" => \A s \in Live(n, p, w) : w[s].from = p

Exclusive(st, w) ==
    \A n, p \in Peers : n < p /\ n \notin left => Single(n, p, st, w)

SyncInv == SyncTypes /\ Quiet /\ Slots /\ Accounted(state, session) /\ Exclusive(state, session)

-----------------------------------------------------------------------------
(* Slots for the sessions. *)

\* A non-empty set of naturals has a least element.
LEMMA LeastOf ==
    ASSUME NEW S \in SUBSET Nat, S # {}
    PROVE  \E x \in S : \A y \in S : x <= y
<1>1. PICK x \in S : \A y \in S : ~(<<y, x>> \in OpToRel(<, Nat))
  BY WFMin, NatLessThanWellFounded
<1>2. \A y \in S : ~(y < x)
  BY <1>1 DEF OpToRel
<1> QED
  BY <1>2, SMTT(30)

\* The sessions are as many as the neighbours and the reports.
LEMMA SessionsFacts ==
    /\ IsFiniteSet(Sessions) /\ Cardinality(Sessions) = MaxUps + MaxReports
    /\ Sessions \in SUBSET Nat
    /\ \A w : IsFiniteSet(Taken(w)) /\ Cardinality(Taken(w)) \in Nat
<1>1. MaxUps + MaxReports \in Nat
  BY BoundsAssumption, SMTT(30)
<1>2. IsFiniteSet(Sessions) /\ Cardinality(Sessions) = MaxUps + MaxReports /\ Sessions \in SUBSET Nat
  BY <1>1, FS_Interval, SMTT(30) DEF Sessions
<1>3. ASSUME NEW w PROVE IsFiniteSet(Taken(w)) /\ Cardinality(Taken(w)) \in Nat
  BY <1>2, FS_Subset, FS_CardinalityType DEF Taken
<1> QED
  BY <1>2, <1>3

\* The counts in Slots, for sessions that are none but those there are.
LEMMA CountFacts ==
    ASSUME SyncTypes, NEW w, Taken(w) \subseteq Taken(session)
    PROVE  /\ Cardinality(resync) \in Nat /\ Cardinality(reports) \in Nat
           /\ Cardinality(Taken(w)) \in Nat /\ Cardinality(Taken(session)) \in Nat
           /\ Cardinality(Taken(w)) <= Cardinality(Taken(session))
           /\ tally.ups \in Nat /\ tally.reports \in Nat
  BY SessionsFacts, FS_CardinalityType, FS_Subset, SMTT(30) DEF SyncTypes

\* When a slot is free, a sync task takes it.
LEMMA SpawnFacts ==
    ASSUME NEW w \in [Sessions -> SessionStates], NEW n \in Peers, NEW p \in Peers,
           Cardinality(Taken(w)) < MaxUps + MaxReports
    PROVE  \E s \in Sessions :
             /\ w[s] = Unused
             /\ Spawn(n, p, w) = [w EXCEPT ![s] = [from |-> n, to |-> p, alice |-> "running", bob |-> "none"]]
<1> DEFINE free == {s \in Sessions : w[s] = Unused}
<1>1. free # {}
  <2> SUFFICES ASSUME free = {} PROVE FALSE
    OBVIOUS
  <2>1. Taken(w) = Sessions
    BY DEF Taken
  <2> QED
    BY <2>1, SessionsFacts, BoundsAssumption, SMTT(30)
<1>2. free \in SUBSET Nat
  BY SessionsFacts
<1>3. \E s \in free : \A r \in free : s <= r
  BY <1>1, <1>2, LeastOf
<1> DEFINE s == CHOOSE s \in free : \A r \in free : s <= r
<1>4. s \in free
  BY <1>3
<1>5. Spawn(n, p, w) = [w EXCEPT ![s] = [from |-> n, to |-> p, alice |-> "running", bob |-> "none"]]
  BY DEF Spawn
<1> HIDE DEF s
<1> QED
  BY <1>4, <1>5

-----------------------------------------------------------------------------
(* sync_with_peer *)

StateMaps == [Peers -> [Peers -> States]]
SessionMaps == [Sessions -> SessionStates]

\* Setting the state of one peer.
LEMMA SetFacts ==
    ASSUME NEW st \in StateMaps, NEW n \in Peers, NEW p \in Peers, NEW q \in States
    PROVE  LET st2 == [st EXCEPT ![n][p] = q] IN
           /\ st2 \in StateMaps
           /\ st2[n][p] = q
           /\ \A k, l \in Peers : <<k, l>> # <<n, p>> => st2[k][l] = st[k][l]
  BY DEF StateMaps

\* In the states st2 and the sessions w2, n has dialed p in the slot s.
Dialed(n, p, s, st, w, st2, w2) ==
    /\ st[n][p] = "idle" /\ st2[n][p] = "connect"
    /\ \A k, l \in Peers : <<k, l>> # <<n, p>> => st2[k][l] = st[k][l]
    /\ w[s] = Unused /\ w2[s] = [from |-> n, to |-> p, alice |-> "running", bob |-> "none"]
    /\ \A r \in Sessions : r # s => w2[r] = w[r]

\* A peer that is idle is dialed in a free slot.
LEMMA SpawnKeeps ==
    ASSUME NEW st \in StateMaps, NEW w \in SessionMaps, Accounted(st, w), Exclusive(st, w),
           NEW n \in Peers, NEW p \in Peers, NEW s \in Sessions, NEW st2, NEW w2,
           Dialed(n, p, s, st, w, st2, w2)
    PROVE  /\ Accounted(st2, w2) /\ Exclusive(st2, w2)
           /\ Cardinality(Taken(w2)) = Cardinality(Taken(w)) + 1
<1> DEFINE new == [from |-> n, to |-> p, alice |-> "running", bob |-> "none"]
<1>0. /\ new # Unused
      /\ new.from = n /\ new.to = p /\ new.alice = "running" /\ new.bob = "none"
  BY DEF Unused
<1>u. Unused.alice = "none" /\ Unused.bob = "none"
  BY DEF Unused
<1> HIDE DEF new
<1>1. w[s] = Unused /\ w2[s] = new /\ \A r \in Sessions : r # s => w2[r] = w[r]
  BY DEF Dialed, new
<1>2. /\ st[n][p] = "idle" /\ st2[n][p] = "connect"
      /\ \A k, l \in Peers : <<k, l>> # <<n, p>> => st2[k][l] = st[k][l]
  BY DEF Dialed
<1>3. Accounted(st2, w2)
  <2> SUFFICES ASSUME NEW k \in Peers, NEW l \in Peers, st2[k][l] = "accept"
               PROVE  \E r \in Sessions : /\ w2[r].from = l /\ w2[r].to = k
                                          /\ w2[r].bob \in {"running", "ok", "err", "panicked"}
    BY DEF Accounted
  <2>1. st[k][l] = "accept"
    BY <1>2
  <2>2. PICK r \in Sessions : w[r].from = l /\ w[r].to = k /\ w[r].bob \in {"running", "ok", "err", "panicked"}
    BY <2>1, SMTT(30) DEF Accounted
  <2> QED
    BY <1>1, <1>u, <2>2
<1>4. Exclusive(st2, w2)
  <2> SUFFICES ASSUME NEW k \in Peers, NEW l \in Peers, k < l, k \notin left
               PROVE  Single(k, l, st2, w2)
    BY DEF Exclusive
  <2>1. Single(k, l, st, w)
    BY DEF Exclusive
  <2>2. CASE k = n /\ l = p
    <3>1. Live(k, l, w) = {}
      BY <1>2, <2>1, <2>2 DEF Single
    <3>2. Live(k, l, w2) = {s}
      BY <1>0, <1>1, <2>2, <3>1, SMTT(30) DEF Live
    <3> QED
      BY <1>0, <1>1, <1>2, <2>2, <3>2 DEF Single
  <2>3. CASE ~(k = n /\ l = p)
    <3>1. st2[k][l] = st[k][l]
      BY <1>2, <2>3
    <3>2. s \notin Live(k, l, w) /\ s \notin Live(k, l, w2)
      BY <1>0, <1>1, <1>u, <2>3 DEF Live
    <3>3. Live(k, l, w2) = Live(k, l, w) /\ \A r \in Live(k, l, w) : w2[r] = w[r]
      BY <1>1, <3>2, SMTT(30) DEF Live
    <3> QED
      BY <2>1, <3>1, <3>3 DEF Single
  <2> QED
    BY <2>2, <2>3
<1>5. Cardinality(Taken(w2)) = Cardinality(Taken(w)) + 1
  <2>1. Taken(w2) = Taken(w) \cup {s} /\ s \notin Taken(w)
    BY <1>0, <1>1 DEF Taken
  <2> QED
    BY <2>1, SessionsFacts, FS_AddElement
<1> QED
  BY <1>3, <1>4, <1>5

\* Whether it dials, remembers a report or does nothing, sync_with_peer keeps
\* what is said of the states and the sessions, and a session or a remembered
\* report that it adds was asked for.
LEMMA SyncWithPeerKeeps ==
    ASSUME SyncTypes, NEW n \in Peers, NEW p \in Peers, NEW q \in States, NEW w \in SessionMaps,
           NEW reason,
           SyncWithPeer(n, p, reason, <<q, <<n, p>> \in resync>>, w),
           Accounted([state EXCEPT ![n][p] = q], w), Exclusive([state EXCEPT ![n][p] = q], w),
           Cardinality(Taken(w)) < MaxUps + MaxReports
    PROVE  /\ state' \in StateMaps /\ session' \in SessionMaps
           /\ Accounted(state', session') /\ Exclusive(state', session')
           /\ \A k, l \in Peers : k # n => state'[k][l] = state[k][l] /\ (<<k, l>> \in resync' <=> <<k, l>> \in resync)
           /\ resync' \in SUBSET (Peers \X Peers) /\ IsFiniteSet(resync')
           /\ LET before == Cardinality(Taken(w)) + Cardinality(resync)
                  after == Cardinality(Taken(session')) + Cardinality(resync') IN
              after <= IF q = "idle" /\ <<n, p>> \in resync THEN before ELSE before + 1
<1> DEFINE st == [state EXCEPT ![n][p] = q]
           st2 == [state EXCEPT ![n][p] = "connect"]
<1>t. state \in StateMaps /\ resync \in SUBSET (Peers \X Peers) /\ IsFiniteSet(resync)
      /\ Cardinality(resync) \in Nat /\ Cardinality(Taken(w)) \in Nat
  BY SessionsFacts, FS_CardinalityType DEF SyncTypes, StateMaps
<1>1. st \in StateMaps /\ \A k, l \in Peers : <<k, l>> # <<n, p>> => st[k][l] = state[k][l]
  BY <1>t, SetFacts, SMTT(30)
<1>2. CASE Cardinality(Dials(n, w)) >= MaxLive
  <2>1. SetPeer(n, p, <<q, <<n, p>> \in resync>>) /\ session' = w
    BY <1>2 DEF SyncWithPeer
  <2>2. state' = st /\ resync' = resync
    BY <2>1 DEF SetPeer
  <2> HIDE DEF st
  <2> QED
    BY <1>t, <1>1, <2>1, <2>2, SMTT(30) DEF st
<1>3. CASE ~(Cardinality(Dials(n, w)) >= MaxLive) /\ q = "idle"
  <2>1. SetPeer(n, p, <<"connect", FALSE>>) /\ session' = Spawn(n, p, w)
    BY <1>3 DEF SyncWithPeer, SetSyncRunning
  <2>2. state' = st2 /\ resync' = resync \ {<<n, p>>}
    BY <2>1 DEF SetPeer
  <2>3. PICK s \in Sessions :
          /\ w[s] = Unused
          /\ session' = [w EXCEPT ![s] = [from |-> n, to |-> p, alice |-> "running", bob |-> "none"]]
    BY <2>1, SpawnFacts, SMTT(30) DEF SessionMaps
  <2>4. /\ st[n][p] = "idle" /\ st2[n][p] = "connect"
        /\ \A k, l \in Peers : <<k, l>> # <<n, p>> => st2[k][l] = st[k][l]
    BY <1>t, <1>3 DEF StateMaps
  <2> DEFINE new == [from |-> n, to |-> p, alice |-> "running", bob |-> "none"]
  <2>a. new \in SessionStates
    BY DEF SessionStates, Sides
  <2>b. session' = [w EXCEPT ![s] = new]
    BY <2>3
  <2> HIDE DEF new
  <2>c. session' \in SessionMaps /\ session'[s] = new /\ \A r \in Sessions : r # s => session'[r] = w[r]
    BY <2>a, <2>b DEF SessionMaps
  <2>5. /\ Accounted(st2, session') /\ Exclusive(st2, session')
        /\ Cardinality(Taken(session')) = Cardinality(Taken(w)) + 1
    <3>1. Accounted(st, w) /\ Exclusive(st, w)
      OBVIOUS
    <3>2. session'[s] = [from |-> n, to |-> p, alice |-> "running", bob |-> "none"]
      BY <2>c DEF new
    <3> HIDE DEF st, st2
    <3>3. Dialed(n, p, s, st, w, st2, session')
      BY <2>3, <2>4, <2>c, <3>2 DEF Dialed
    <3> QED
      BY <1>1, <3>1, <3>3, SpawnKeeps, SMTT(30)
  <2>6. st2 \in StateMaps /\ \A k, l \in Peers : <<k, l>> # <<n, p>> => st2[k][l] = state[k][l]
    BY <1>t DEF StateMaps, States
  <2> HIDE DEF st2
  <2>7. /\ IsFiniteSet(resync')
        /\ Cardinality(resync') = IF <<n, p>> \in resync THEN Cardinality(resync) - 1 ELSE Cardinality(resync)
    BY <1>t, <2>2, FS_RemoveElement
  <2>8. resync' \in SUBSET (Peers \X Peers)
        /\ \A k, l \in Peers : k # n => (<<k, l>> \in resync' <=> <<k, l>> \in resync)
    BY <1>t, <2>2
  <2> QED
    BY <1>t, <2>2, <2>c, <2>5, <2>6, <2>7, <2>8, SMTT(30)
<1>4. CASE ~(Cardinality(Dials(n, w)) >= MaxLive) /\ q # "idle"
  <2>1. /\ SetPeer(n, p, <<q, <<n, p>> \in resync \/ reason = "SyncReport">>)
        /\ session' = w
    BY <1>4 DEF SyncWithPeer
  <2>2. state' = st /\ resync' \in {resync, resync \cup {<<n, p>>}}
    BY <2>1 DEF SetPeer
  <2>3. IsFiniteSet(resync') /\ Cardinality(resync') <= Cardinality(resync) + 1
    <3>1. CASE resync' = resync
      BY <1>t, <3>1, SMTT(30)
    <3>2. CASE resync' = resync \cup {<<n, p>>}
      <4>1. /\ IsFiniteSet(resync')
            /\ Cardinality(resync') = IF <<n, p>> \in resync THEN Cardinality(resync)
                                      ELSE Cardinality(resync) + 1
        BY <1>t, <3>2, FS_AddElement
      <4> QED
        BY <1>t, <4>1, SMTT(30)
    <3> QED
      BY <2>2, <3>1, <3>2
  <2>4. resync' \in SUBSET (Peers \X Peers)
        /\ \A k, l \in Peers : k # n => (<<k, l>> \in resync' <=> <<k, l>> \in resync)
    BY <1>t, <2>2, SMTT(30)
  <2>5. Cardinality(resync') \in Nat
    BY <2>3, FS_CardinalityType
  <2> HIDE DEF st
  <2>6. Accounted(state', session') /\ Exclusive(state', session')
    BY <2>1, <2>2 DEF st
  <2> QED
    BY <1>t, <1>1, <1>4, <2>1, <2>2, <2>3, <2>4, <2>5, <2>6, SMTT(30)
<1> QED
  BY <1>2, <1>3, <1>4

-----------------------------------------------------------------------------
(* The ends of tasks. *)

\* A pair of peers stays as it is, but for sessions that end.
LEMMA SingleKept ==
    ASSUME NEW k, NEW l, NEW st, NEW w, NEW st2, NEW w2,
           Single(k, l, st, w), st2[k][l] = st[k][l],
           Live(k, l, w2) \subseteq Live(k, l, w),
           \A r \in Live(k, l, w2) : w2[r].from = w[r].from
    PROVE  Single(k, l, st2, w2)
  BY DEF Single

\* What a session is when it is not Unused.
LEMMA SessionFacts ==
    ASSUME SyncTypes, NEW s \in Sessions
    PROVE  /\ session[s].alice \in Sides /\ session[s].bob \in Sides
           /\ session[s].alice # "none" \/ session[s].bob # "none" =>
                /\ session[s] # Unused
                /\ session[s].from \in Peers /\ session[s].to \in Peers
                /\ session[s] \in [from : Peers, to : Peers, alice : Sides, bob : Sides]
           /\ Unused.alice = "none" /\ Unused.bob = "none"
  BY SMTT(30) DEF SyncTypes, SessionStates, Unused, Sides

\* The sessions w are those there are, with one that has ended for one side.
EndedFor(s, w) ==
    /\ w \in SessionMaps
    /\ \A r \in Sessions : r # s => w[r] = session[r]
    /\ \/ w[s] = Unused
       \/ w[s].from = session[s].from /\ w[s].to = session[s].to

\* The sessions w are those there are after the actor of Alice has joined s.
LEMMA JoinAliceFacts ==
    ASSUME SyncTypes, NEW s \in Sessions, session[s].alice \in Ended
    PROVE  LET w == JoinAlice(s) IN
           /\ EndedFor(s, w) /\ Taken(w) \subseteq Taken(session)
           /\ w[s].alice \in {"none", "joined"}
           /\ w[s].bob \notin {"none", "joined"} => w[s].from = session[s].from /\ w[s].to = session[s].to
           /\ w[s].bob = session[s].bob \/ (w[s].bob = "none" /\ session[s].bob = "joined")
<1> DEFINE v == session[s]
           u == IF v.bob = "joined" THEN Unused ELSE [v EXCEPT !.alice = "joined"]
           w == JoinAlice(s)
<1>1. v \in [from : Peers, to : Peers, alice : Sides, bob : Sides] /\ v # Unused
  BY SessionFacts DEF Ended
<1>2. w = [session EXCEPT ![s] = u]
  BY DEF JoinAlice
<1> HIDE DEF v
<1>3. /\ u \in SessionStates /\ u.alice \in {"none", "joined"}
      /\ u = Unused \/ (u.from = v.from /\ u.to = v.to)
      /\ u.bob \notin {"none", "joined"} => u.from = v.from /\ u.to = v.to
      /\ u.bob = v.bob \/ (u.bob = "none" /\ v.bob = "joined")
  BY <1>1 DEF SessionStates, Unused, Sides
<1> HIDE DEF u, w
<1>4. w \in SessionMaps /\ w[s] = u /\ \A r \in Sessions : r # s => w[r] = session[r]
  BY <1>2, <1>3 DEF SyncTypes, SessionMaps
<1>5. EndedFor(s, w)
  BY <1>3, <1>4 DEF EndedFor, v
<1>6. Taken(w) \subseteq Taken(session)
  BY <1>1, <1>4 DEF Taken, v
<1> QED
  BY <1>3, <1>4, <1>5, <1>6 DEF v, w

\* The same for the accept task.
LEMMA JoinBobFacts ==
    ASSUME SyncTypes, NEW s \in Sessions, session[s].bob \in Ended
    PROVE  LET w == JoinBob(s) IN
           /\ EndedFor(s, w) /\ Taken(w) \subseteq Taken(session)
           /\ w[s].bob \in {"none", "joined"}
           /\ w[s].alice \notin {"none", "joined"} => w[s].from = session[s].from /\ w[s].to = session[s].to
           /\ w[s].alice = session[s].alice \/ (w[s].alice = "none" /\ session[s].alice = "joined")
<1> DEFINE v == session[s]
           u == IF v.alice = "joined" THEN Unused ELSE [v EXCEPT !.bob = "joined"]
           w == JoinBob(s)
<1>1. v \in [from : Peers, to : Peers, alice : Sides, bob : Sides] /\ v # Unused
  BY SessionFacts DEF Ended
<1>2. w = [session EXCEPT ![s] = u]
  BY DEF JoinBob
<1> HIDE DEF v
<1>3. /\ u \in SessionStates /\ u.bob \in {"none", "joined"}
      /\ u = Unused \/ (u.from = v.from /\ u.to = v.to)
      /\ u.alice \notin {"none", "joined"} => u.from = v.from /\ u.to = v.to
      /\ u.alice = v.alice \/ (u.alice = "none" /\ v.alice = "joined")
  BY <1>1 DEF SessionStates, Unused, Sides
<1> HIDE DEF u, w
<1>4. w \in SessionMaps /\ w[s] = u /\ \A r \in Sessions : r # s => w[r] = session[r]
  BY <1>2, <1>3 DEF SyncTypes, SessionMaps
<1>5. EndedFor(s, w)
  BY <1>3, <1>4 DEF EndedFor, v
<1>6. Taken(w) \subseteq Taken(session)
  BY <1>1, <1>4 DEF Taken, v
<1> QED
  BY <1>3, <1>4, <1>5, <1>6 DEF v, w

\* on_sync_finished, when w and the idle peer agree.
LEMMA OnSyncFinishedKeeps ==
    ASSUME SyncInv, NEW n \in Peers, NEW p \in Peers, NEW w \in SessionMaps, NEW st \in StateMaps,
           st = [state EXCEPT ![n][p] = "idle"],
           Taken(w) \subseteq Taken(session), Accounted(st, w), Exclusive(st, w),
           OnSyncFinished(n, p, w), UNCHANGED <<ended, syncing, left, reports, tally>>
    PROVE  SyncInv'
<1>t. /\ SyncTypes /\ Quiet /\ Slots
      /\ Cardinality(resync) \in Nat /\ Cardinality(reports) \in Nat
      /\ Cardinality(Taken(w)) \in Nat /\ Cardinality(Taken(session)) \in Nat
      /\ Cardinality(Taken(w)) <= Cardinality(Taken(session))
      /\ tally.ups \in 0..MaxUps /\ tally.reports \in 0..MaxReports
  BY CountFacts DEF SyncInv, SyncTypes
<1>1. CASE n \notin syncing
  <2>1. state' = state /\ resync' = resync /\ session' = w
    BY <1>1 DEF OnSyncFinished
  <2>2. st = state
    BY <1>t, <1>1 DEF Quiet, SyncTypes
  <2>3. Cardinality(Taken(session')) <= Cardinality(Taken(session))
    BY <1>t, <2>1
  <2>4. SyncTypes' /\ Quiet'
    BY <1>t, <2>1 DEF SyncTypes, Quiet, SessionMaps
  <2>5. Slots'
    BY <1>t, <2>1, SMTT(30) DEF Slots
  <2>6. Accounted(state, session)' /\ Exclusive(state, session)'
    BY <2>1, <2>2, SMTT(30) DEF Accounted, Exclusive
  <2> QED
    BY <2>4, <2>5, <2>6 DEF SyncInv
<1>2. CASE n \in syncing /\ state[n][p] # "idle" /\ <<n, p>> \in resync
  <2>1. SyncWithPeer(n, p, "Resync", <<"idle", <<n, p>> \in resync>>, w)
    BY <1>2 DEF OnSyncFinished
  <2>2. Cardinality(resync) > 0
    BY <1>t, <1>2, FS_EmptySet, SMTT(30) DEF SyncTypes
  <2>3. Cardinality(Taken(w)) < MaxUps + MaxReports
    BY <1>t, <2>2, BoundsAssumption, SMTT(30) DEF Slots
  <2>4. "idle" \in States
    BY DEF States
  <2>5. /\ state' \in StateMaps /\ session' \in SessionMaps
        /\ Accounted(state', session') /\ Exclusive(state', session')
        /\ \A k, l \in Peers : k # n => state'[k][l] = state[k][l]
                                        /\ (<<k, l>> \in resync' <=> <<k, l>> \in resync)
        /\ resync' \in SUBSET (Peers \X Peers) /\ IsFiniteSet(resync')
        /\ Cardinality(Taken(session')) + Cardinality(resync')
             <= Cardinality(Taken(w)) + Cardinality(resync)
    BY <1>t, <1>2, <2>1, <2>3, <2>4, SyncWithPeerKeeps
  <2>6. SyncTypes'
    BY <1>t, <2>5 DEF SyncTypes, StateMaps, SessionMaps
  <2>7. Quiet'
    BY <1>t, <1>2, <2>5 DEF Quiet
  <2>8. Cardinality(Taken(session')) \in Nat /\ Cardinality(resync') \in Nat
    BY <2>5, SessionsFacts, FS_CardinalityType
  <2>9. Slots'
    BY <1>t, <2>5, <2>8, SMTT(30) DEF Slots
  <2>10. Exclusive(state, session)'
    BY <2>5 DEF Exclusive
  <2> QED
    BY <2>5, <2>6, <2>7, <2>9, <2>10 DEF SyncInv, Accounted
<1>3. CASE n \in syncing /\ ~(state[n][p] # "idle" /\ <<n, p>> \in resync)
  <2>1. SetPeer(n, p, <<"idle", <<n, p>> \in resync>>) /\ session' = w
    BY <1>3 DEF OnSyncFinished
  <2>2. state' = st /\ resync' = resync
    BY <2>1 DEF SetPeer
  <2>3. \A k, l \in Peers : k # n => st[k][l] = state[k][l]
    BY <1>t DEF SyncTypes
  <2>4. SyncTypes'
    BY <1>t, <2>1, <2>2 DEF SyncTypes, SessionMaps, StateMaps
  <2>5. Quiet'
    BY <1>t, <1>3, <2>2, <2>3, SMTT(30) DEF Quiet
  <2>6. Slots'
    BY <1>t, <2>1, <2>2, SMTT(30) DEF Slots
  <2>7. Accounted(state, session)' /\ Exclusive(state, session)'
    <3>1. Accounted(state', session') /\ Exclusive(state', session')
      BY <2>1, <2>2
    <3> QED
      BY <3>1 DEF Accounted, Exclusive
  <2> QED
    BY <2>4, <2>5, <2>6, <2>7 DEF SyncInv
<1> QED
  BY <1>1, <1>2, <1>3

\* on_sync_via_connect_finished: the session was the only one of the pair, if n
\* is the lesser.
LEMMA ConnectFinishedKeeps ==
    ASSUME SyncInv, NEW s \in Sessions, ConnectFinished(s)
    PROVE  SyncInv'
<1> DEFINE n == session[s].from
           p == session[s].to
           w == JoinAlice(s)
           st == [state EXCEPT ![n][p] = "idle"]
<1>0. /\ session[s].alice \in Ended /\ UNCHANGED <<ended, syncing, left, reports, tally>>
      /\ SyncTypes /\ Quiet /\ Slots /\ Accounted(state, session) /\ Exclusive(state, session)
  BY DEF ConnectFinished, SyncInv
<1>1. n \in Peers /\ p \in Peers
  BY <1>0, SessionFacts DEF Ended
<1>2. /\ EndedFor(s, w) /\ Taken(w) \subseteq Taken(session)
      /\ w[s].alice \in {"none", "joined"}
      /\ w[s].bob \notin {"none", "joined"} => w[s].from = n /\ w[s].to = p
      /\ w[s].bob = session[s].bob \/ (w[s].bob = "none" /\ session[s].bob = "joined")
  BY <1>0, JoinAliceFacts
<1> HIDE DEF w
<1>3. w \in SessionMaps /\ \A r \in Sessions : r # s => w[r] = session[r]
  BY <1>2 DEF EndedFor
<1>4. ASSUME NEW k \in Peers, NEW l \in Peers
      PROVE  /\ Live(k, l, w) \subseteq Live(k, l, session)
             /\ \A r \in Live(k, l, w) : w[r].from = session[r].from
             /\ s \in Live(k, l, w) => p = k /\ n = l
  BY <1>2, <1>3 DEF Live
<1>5. Accounted(state, w)
  <2> SUFFICES ASSUME NEW k \in Peers, NEW l \in Peers, state[k][l] = "accept"
               PROVE  \E r \in Sessions : /\ w[r].from = l /\ w[r].to = k
                                          /\ w[r].bob \in {"running", "ok", "err", "panicked"}
    BY DEF Accounted
  <2>1. PICK r \in Sessions : /\ session[r].from = l /\ session[r].to = k
                              /\ session[r].bob \in {"running", "ok", "err", "panicked"}
    BY <1>0, SMTT(30) DEF Accounted
  <2> QED
    BY <1>2, <1>3, <2>1
<1>6. CASE session[s].alice = "aborted"
  <2>1. session' = w /\ state' = state /\ resync' = resync
    BY <1>6 DEF ConnectFinished, w
  <2>2. Exclusive(state, w)
    BY <1>0, <1>4, SingleKept DEF Exclusive
  <2>3. SyncTypes' /\ Quiet'
    BY <1>0, <1>3, <2>1 DEF SyncTypes, SessionMaps, Quiet
  <2>4. Slots'
    <3>1. /\ Cardinality(resync) \in Nat /\ Cardinality(reports) \in Nat
          /\ Cardinality(Taken(w)) \in Nat /\ Cardinality(Taken(session)) \in Nat
          /\ Cardinality(Taken(w)) <= Cardinality(Taken(session))
          /\ tally.ups \in Nat /\ tally.reports \in Nat
      BY <1>0, <1>2, CountFacts
    <3> QED
      BY <1>0, <2>1, <3>1, SMTT(30) DEF Slots
  <2> QED
    BY <1>0, <1>5, <2>1, <2>2, <2>3, <2>4, SMTT(30) DEF SyncInv, Accounted, Exclusive
<1>7. CASE session[s].alice # "aborted"
  <2>1. OnSyncFinished(n, p, w)
    BY <1>7 DEF ConnectFinished, w
  <2>2. /\ st \in StateMaps /\ st[n][p] = "idle"
        /\ \A k, l \in Peers : <<k, l>> # <<n, p>> => st[k][l] = state[k][l]
    BY <1>0, <1>1 DEF SyncTypes, StateMaps, States
  <2>s. st = [state EXCEPT ![n][p] = "idle"]
    OBVIOUS
  <2> HIDE DEF st
  <2>3. Accounted(st, w)
    BY <1>5, <2>2, SMTT(30) DEF Accounted
  <2>4. Exclusive(st, w)
    <3> SUFFICES ASSUME NEW k \in Peers, NEW l \in Peers, k < l, k \notin left
                 PROVE  Single(k, l, st, w)
      BY DEF Exclusive
    <3>1. Single(k, l, state, session)
      BY <1>0 DEF Exclusive
    <3>2. CASE <<k, l>> = <<n, p>>
      <4>1. s \in Live(k, l, session)
        BY <1>0, <1>7, <3>2 DEF Live, Ended
      <4>2. k # l
        BY PeersAssumption, SMTT(30)
      <4>3. Live(k, l, w) = {}
        BY <1>4, <3>1, <3>2, <4>1, <4>2, SMTT(30) DEF Single
      <4> QED
        BY <4>3, <2>2, <3>2 DEF Single
    <3>3. CASE <<k, l>> # <<n, p>>
      BY <1>4, <2>2, <3>1, <3>3, SingleKept
    <3> QED
      BY <3>2, <3>3
  <2> QED
    BY <1>0, <1>1, <1>2, <1>3, <2>1, <2>2, <2>s, <2>3, <2>4, OnSyncFinishedKeeps
<1> QED
  BY <1>6, <1>7

\* on_sync_via_accept_finished
LEMMA AcceptFinishedKeeps ==
    ASSUME SyncInv, NEW s \in Sessions, AcceptFinished(s)
    PROVE  SyncInv'
<1> DEFINE n == session[s].to
           p == session[s].from
           w == JoinBob(s)
           st == [state EXCEPT ![n][p] = "idle"]
<1>0. /\ session[s].bob \in Ended /\ UNCHANGED <<ended, syncing, left, reports, tally>>
      /\ SyncTypes /\ Quiet /\ Slots /\ Accounted(state, session) /\ Exclusive(state, session)
  BY DEF AcceptFinished, SyncInv
<1>1. n \in Peers /\ p \in Peers
  BY <1>0, SessionFacts DEF Ended
<1>2. /\ EndedFor(s, w) /\ Taken(w) \subseteq Taken(session)
      /\ w[s].bob \in {"none", "joined"}
      /\ w[s].alice \notin {"none", "joined"} => w[s].from = p /\ w[s].to = n
      /\ w[s].alice = session[s].alice \/ (w[s].alice = "none" /\ session[s].alice = "joined")
  BY <1>0, JoinBobFacts
<1> HIDE DEF w
<1>3. w \in SessionMaps /\ \A r \in Sessions : r # s => w[r] = session[r]
  BY <1>2 DEF EndedFor
<1>4. ASSUME NEW k \in Peers, NEW l \in Peers
      PROVE  /\ Live(k, l, w) \subseteq Live(k, l, session)
             /\ \A r \in Live(k, l, w) : w[r].from = session[r].from
             /\ s \in Live(k, l, w) => p = k /\ n = l
  BY <1>2, <1>3 DEF Live
\* A peer that is noted as accepted keeps its task, unless it is that of s.
<1>5. ASSUME NEW k \in Peers, NEW l \in Peers, state[k][l] = "accept",
             session[s].bob = "aborted" \/ <<k, l>> # <<n, p>>
      PROVE  \E r \in Sessions : w[r].from = l /\ w[r].to = k /\ w[r].bob \in {"running", "ok", "err", "panicked"}
  <2>1. PICK r \in Sessions : /\ session[r].from = l /\ session[r].to = k
                              /\ session[r].bob \in {"running", "ok", "err", "panicked"}
    BY <1>0, <1>5, SMTT(30) DEF Accounted
  <2>2. r # s
    BY <1>5, <2>1
  <2> QED
    BY <1>3, <2>1, <2>2
<1>6. CASE session[s].bob = "aborted"
  <2>1. session' = w /\ state' = state /\ resync' = resync
    BY <1>6 DEF AcceptFinished, w
  <2>2. Exclusive(state, w)
    BY <1>0, <1>4, SingleKept DEF Exclusive
  <2>3. SyncTypes' /\ Quiet'
    BY <1>0, <1>3, <2>1 DEF SyncTypes, SessionMaps, Quiet
  <2>4. Slots'
    <3>1. /\ Cardinality(resync) \in Nat /\ Cardinality(reports) \in Nat
          /\ Cardinality(Taken(w)) \in Nat /\ Cardinality(Taken(session)) \in Nat
          /\ Cardinality(Taken(w)) <= Cardinality(Taken(session))
          /\ tally.ups \in Nat /\ tally.reports \in Nat
      BY <1>0, <1>2, CountFacts
    <3> QED
      BY <1>0, <2>1, <3>1, SMTT(30) DEF Slots
  <2>5. Accounted(state, w)
    BY <1>5, <1>6, SMTT(30) DEF Accounted
  <2> QED
    BY <1>0, <2>1, <2>2, <2>3, <2>4, <2>5, SMTT(30) DEF SyncInv, Accounted, Exclusive
<1>7. CASE session[s].bob # "aborted"
  <2>1. OnSyncFinished(n, p, w)
    BY <1>7 DEF AcceptFinished, w
  <2>2. /\ st \in StateMaps /\ st[n][p] = "idle"
        /\ \A k, l \in Peers : <<k, l>> # <<n, p>> => st[k][l] = state[k][l]
    BY <1>0, <1>1 DEF SyncTypes, StateMaps, States
  <2>s. st = [state EXCEPT ![n][p] = "idle"]
    OBVIOUS
  <2> HIDE DEF st
  <2>3. Accounted(st, w)
    <3> SUFFICES ASSUME NEW k \in Peers, NEW l \in Peers, st[k][l] = "accept"
                 PROVE  \E r \in Sessions : /\ w[r].from = l /\ w[r].to = k
                                            /\ w[r].bob \in {"running", "ok", "err", "panicked"}
      BY DEF Accounted
    <3>1. <<k, l>> # <<n, p>> /\ state[k][l] = "accept"
      BY <2>2
    <3> QED
      BY <1>5, <3>1, SMTT(30)
  <2>4. Exclusive(st, w)
    <3> SUFFICES ASSUME NEW k \in Peers, NEW l \in Peers, k < l, k \notin left
                 PROVE  Single(k, l, st, w)
      BY DEF Exclusive
    <3>1. Single(k, l, state, session)
      BY <1>0 DEF Exclusive
    <3>2. CASE <<k, l>> = <<n, p>>
      <4>1. s \in Live(k, l, session)
        BY <1>0, <1>7, <3>2 DEF Live, Ended
      <4>2. k # l
        BY PeersAssumption, SMTT(30)
      <4>3. Live(k, l, w) = {}
        BY <1>4, <3>1, <3>2, <4>1, <4>2, SMTT(30) DEF Single
      <4> QED
        BY <4>3, <2>2, <3>2 DEF Single
    <3>3. CASE <<k, l>> # <<n, p>>
      BY <1>4, <2>2, <3>1, <3>3, SingleKept
    <3> QED
      BY <3>2, <3>3
  <2> QED
    BY <1>0, <1>1, <1>2, <1>3, <2>1, <2>2, <2>s, <2>3, <2>4, OnSyncFinishedKeeps
<1> QED
  BY <1>6, <1>7

-----------------------------------------------------------------------------
(* The other steps. *)

\* Only one session changes, and it stays a session of the same two peers; the
\* tasks that hold a place in the invariant are the same or fewer.
LEMMA SessionStepKeeps ==
    ASSUME SyncInv, NEW s \in Sessions, NEW v \in [from : Peers, to : Peers, alice : Sides, bob : Sides],
           session[s] # Unused, v.from = session[s].from, v.to = session[s].to,
           v.alice \in {"running", "ok", "err", "aborted"}
             => session[s].alice \in {"running", "ok", "err", "aborted"},
           session[s].bob \in {"running", "ok", "err", "panicked"} => v.bob \in {"running", "ok", "err", "panicked"},
           v.bob \in {"running", "ok", "err", "panicked"}
             => session[s].bob \in {"running", "ok", "err", "panicked"} \/ session[s].to \in left,
           session' = [session EXCEPT ![s] = v],
           UNCHANGED <<ended, syncing, left, state, resync, reports, tally>>
    PROVE  SyncInv'
<1>0. SyncTypes /\ Quiet /\ Slots /\ Accounted(state, session) /\ Exclusive(state, session)
  BY DEF SyncInv
<1>1. /\ session' \in SessionMaps /\ session'[s] = v
      /\ \A r \in Sessions : r # s => session'[r] = session[r]
  BY <1>0 DEF SyncTypes, SessionMaps, SessionStates
<1>2. SyncTypes' /\ Quiet'
  BY <1>0, <1>1, SMTT(30) DEF SyncTypes, SessionMaps, Quiet
<1>3. Slots'
  <2>1. Taken(session') \subseteq Taken(session)
    BY <1>1 DEF Taken
  <2>2. /\ Cardinality(resync) \in Nat /\ Cardinality(reports) \in Nat
        /\ Cardinality(Taken(session')) \in Nat /\ Cardinality(Taken(session)) \in Nat
        /\ Cardinality(Taken(session')) <= Cardinality(Taken(session))
        /\ tally.ups \in Nat /\ tally.reports \in Nat
    BY <1>0, <2>1, CountFacts
  <2> QED
    BY <1>0, <2>2, SMTT(30) DEF Slots
<1>4. Accounted(state', session')
  <2> SUFFICES ASSUME NEW k \in Peers, NEW l \in Peers, state[k][l] = "accept"
               PROVE  \E r \in Sessions : /\ session'[r].from = l /\ session'[r].to = k
                                          /\ session'[r].bob \in {"running", "ok", "err", "panicked"}
    BY SMTT(30) DEF Accounted
  <2>1. PICK r \in Sessions : /\ session[r].from = l /\ session[r].to = k
                              /\ session[r].bob \in {"running", "ok", "err", "panicked"}
    BY <1>0, SMTT(30) DEF Accounted
  <2>2. CASE r = s
    BY <1>1, <2>1, <2>2
  <2>3. CASE r # s
    BY <1>1, <2>1, <2>3
  <2> QED
    BY <2>2, <2>3
<1>5. Exclusive(state', session')
  <2> SUFFICES ASSUME NEW k \in Peers, NEW l \in Peers, k < l, k \notin left
               PROVE  Single(k, l, state', session')
    BY DEF Exclusive
  <2>1. Single(k, l, state, session)
    BY <1>0 DEF Exclusive
  <2>2. /\ Live(k, l, session') \subseteq Live(k, l, session)
        /\ \A r \in Live(k, l, session') : session'[r].from = session[r].from
    BY <1>1, SMTT(30) DEF Live
  <2> QED
    BY <2>1, <2>2, SingleKept
<1> QED
  BY <1>2, <1>3, <1>4, <1>5 DEF SyncInv, Accounted, Exclusive

\* The steps of the tasks.
LEMMA SetSessionKeeps ==
    ASSUME SyncInv, NEW s \in Sessions, NEW alice \in Sides, NEW bob \in Sides,
           SetSession(s, alice, bob),
           session[s].alice = "running" \/ session[s].bob = "running",
           alice \in {"running", "ok", "err", "aborted"}
             => session[s].alice \in {"running", "ok", "err", "aborted"},
           session[s].bob \in {"running", "ok", "err", "panicked"} <=> bob \in {"running", "ok", "err", "panicked"}
    PROVE  SyncInv'
<1> DEFINE v == [session[s] EXCEPT !.alice = alice, !.bob = bob]
<1>1. /\ session[s] # Unused
      /\ session[s] \in [from : Peers, to : Peers, alice : Sides, bob : Sides]
  BY SessionFacts DEF SyncInv
<1>2. session' = [session EXCEPT ![s] = v] /\ UNCHANGED <<ended, syncing, left, state, resync, reports, tally>>
  BY DEF SetSession, SyncInv, SyncTypes
<1>3. /\ v \in [from : Peers, to : Peers, alice : Sides, bob : Sides]
      /\ v.from = session[s].from /\ v.to = session[s].to /\ v.alice = alice /\ v.bob = bob
  BY <1>1
<1> HIDE DEF v
<1> QED
  BY <1>1, <1>2, <1>3, SessionStepKeeps

\* accept_request: the lesser of two peers accepts only when it is idle.
LEMMA AcceptSyncRequestKeeps ==
    ASSUME SyncInv, NEW s \in Sessions, AcceptSyncRequest(s)
    PROVE  SyncInv'
<1> DEFINE n == session[s].to
           p == session[s].from
           reason == IF n \in syncing THEN "aborted" ELSE "err"
           Records == [from : Peers, to : Peers, alice : Sides, bob : Sides]
<1>0. /\ session[s].bob = "asking" /\ n \notin ended /\ UNCHANGED <<ended, syncing, left, reports, tally>>
      /\ SyncTypes /\ Quiet /\ Slots /\ Accounted(state, session) /\ Exclusive(state, session)
  BY DEF AcceptSyncRequest, SyncInv
<1>1. n \in Peers /\ p \in Peers /\ session[s] # Unused /\ session[s] \in Records
  BY <1>0, SessionFacts
<1>2. CASE n \in syncing /\ Allows(n, p, state[n][p])
  <2> DEFINE v == [session[s] EXCEPT !.bob = "running"]
  <2>1. /\ session' = [session EXCEPT ![s].bob = "running"]
        /\ SetPeer(n, p, <<"accept", FALSE>>)
    BY <1>2 DEF AcceptSyncRequest, SetSyncRunning
  <2>2. /\ state' = [state EXCEPT ![n][p] = "accept"] /\ resync' = resync \ {<<n, p>>}
    BY <2>1 DEF SetPeer
  <2>3. session' = [session EXCEPT ![s] = v]
    BY <1>0, <2>1 DEF SyncTypes
  <2>4. v \in Records /\ v.from = p /\ v.to = n /\ v.alice = session[s].alice /\ v.bob = "running"
    BY <1>1 DEF Sides
  <2> HIDE DEF v
  <2>5. /\ session' \in SessionMaps /\ session'[s] = v
        /\ \A r \in Sessions : r # s => session'[r] = session[r]
    BY <1>0, <2>3, <2>4 DEF SyncTypes, SessionMaps, SessionStates
  <2>6. /\ state' \in StateMaps /\ state'[n][p] = "accept"
        /\ \A k, l \in Peers : <<k, l>> # <<n, p>> => state'[k][l] = state[k][l]
    BY <1>0, <1>1, <2>2 DEF SyncTypes, StateMaps, States
  <2>7. /\ resync' \in SUBSET (Peers \X Peers) /\ IsFiniteSet(resync')
        /\ resync' \subseteq resync /\ Cardinality(resync') <= Cardinality(resync)
    BY <1>0, <2>2, FS_Subset DEF SyncTypes
  <2>8. SyncTypes'
    BY <1>0, <2>5, <2>6, <2>7 DEF SyncTypes, SessionMaps, StateMaps
  <2>9. Quiet'
    BY <1>0, <1>2, <2>6, <2>7, SMTT(30) DEF Quiet
  <2>10. Slots'
    <3>1. Taken(session') \subseteq Taken(session)
      BY <1>1, <2>5 DEF Taken
    <3>2. /\ Cardinality(resync) \in Nat /\ Cardinality(reports) \in Nat /\ Cardinality(resync') \in Nat
          /\ Cardinality(Taken(session')) \in Nat /\ Cardinality(Taken(session)) \in Nat
          /\ Cardinality(Taken(session')) <= Cardinality(Taken(session))
          /\ tally.ups \in Nat /\ tally.reports \in Nat
      BY <1>0, <2>7, <3>1, CountFacts, FS_CardinalityType
    <3> QED
      BY <1>0, <2>7, <3>2, SMTT(30) DEF Slots
  <2>11. Accounted(state', session')
    <3> SUFFICES ASSUME NEW k \in Peers, NEW l \in Peers, state'[k][l] = "accept"
                 PROVE  \E r \in Sessions : /\ session'[r].from = l /\ session'[r].to = k
                                            /\ session'[r].bob \in {"running", "ok", "err", "panicked"}
      BY DEF Accounted
    <3>1. CASE k = n /\ l = p
      BY <2>4, <2>5, <3>1
    <3>2. CASE ~(k = n /\ l = p)
      <4>1. PICK r \in Sessions : /\ session[r].from = l /\ session[r].to = k
                                  /\ session[r].bob \in {"running", "ok", "err", "panicked"}
        BY <1>0, <2>6, <3>2, SMTT(30) DEF Accounted
      <4> QED
        BY <1>0, <2>5, <4>1
    <3> QED
      BY <3>1, <3>2
  <2>12. Exclusive(state', session')
    <3> SUFFICES ASSUME NEW k \in Peers, NEW l \in Peers, k < l, k \notin left
                 PROVE  Single(k, l, state', session')
      BY DEF Exclusive
    <3>1. Single(k, l, state, session)
      BY <1>0 DEF Exclusive
    <3>2. CASE k = n /\ l = p
      <4>1. state[n][p] = "idle"
        BY <1>1, <1>2, <3>2, PeersAssumption, SMTT(30) DEF Allows, ExpectedAccept
      <4>2. Live(k, l, session) = {}
        BY <3>1, <3>2, <4>1 DEF Single
      <4>3. Live(k, l, session') \subseteq {s}
        BY <2>5, <4>2 DEF Live
      <4> QED
        BY <2>4, <2>5, <2>6, <3>2, <4>3, SMTT(30) DEF Single
    <3>3. CASE ~(k = n /\ l = p)
      <4>1. /\ Live(k, l, session') \subseteq Live(k, l, session)
            /\ \A r \in Live(k, l, session') : session'[r].from = session[r].from
        BY <2>4, <2>5, <3>3, SMTT(30) DEF Live
      <4>2. state'[k][l] = state[k][l]
        BY <2>6, <3>3
      <4> QED
        BY <3>1, <4>1, <4>2, SingleKept
    <3> QED
      BY <3>2, <3>3
  <2> QED
    BY <1>0, <2>8, <2>9, <2>10, <2>11, <2>12 DEF SyncInv, Accounted, Exclusive
<1>3. CASE ~(n \in syncing /\ Allows(n, p, state[n][p]))
  <2>1. PICK told \in {reason, "err"} :
          session' = [session EXCEPT ![s].bob = reason,
                                     ![s].alice = IF @ = "running" THEN told ELSE @]
    BY <1>3 DEF AcceptSyncRequest
  <2> DEFINE alice == IF session[s].alice = "running" THEN told ELSE session[s].alice
             v == [session[s] EXCEPT !.bob = reason, !.alice = alice]
  <2>2. session' = [session EXCEPT ![s] = v] /\ UNCHANGED <<state, resync>>
    BY <1>0, <1>3, <2>1 DEF AcceptSyncRequest, SyncTypes
  <2>3. /\ reason \in {"aborted", "err"} /\ (reason = "err" => n \in left)
        /\ told \in {"aborted", "err"} /\ session[s].alice \in Sides
    BY <1>0, <1>1 DEF Quiet
  <2>4. alice \in Sides /\ (alice \in {"running", "ok", "err", "aborted"}
                            => session[s].alice \in {"running", "ok", "err", "aborted"})
    BY <2>3 DEF Sides
  <2> HIDE DEF alice, reason
  <2>5. /\ v \in Records /\ v.from = p /\ v.to = n /\ v.alice = alice /\ v.bob = reason
    BY <1>1, <2>3, <2>4 DEF Sides
  <2> HIDE DEF v
  <2> QED
    BY <1>0, <1>1, <2>2, <2>3, <2>4, <2>5, SessionStepKeeps
<1> QED
  BY <1>2, <1>3

\* A new neighbour is synced with unless a sync runs.
LEMMA NeighborSyncKeeps ==
    ASSUME SyncInv, NEW n \in Peers, NEW p \in Peers, NeighborSync(n, p)
    PROVE  SyncInv'
<1>0. SyncTypes /\ Quiet /\ Slots /\ Accounted(state, session) /\ Exclusive(state, session)
  BY DEF SyncInv
<1>1. /\ n \in syncing /\ tally.ups < MaxUps /\ tally' = [tally EXCEPT !.ups = @ + 1]
      /\ UNCHANGED <<ended, syncing, left, reports>>
      /\ SyncWithPeer(n, p, "NewNeighbor", <<state[n][p], <<n, p>> \in resync>>, session)
  BY DEF NeighborSync, PeerState
<1>2. /\ state[n][p] \in States /\ state = [state EXCEPT ![n][p] = state[n][p]]
      /\ session \in SessionMaps
  BY <1>0 DEF SyncTypes, SessionMaps
<1>3. /\ Cardinality(resync) \in Nat /\ Cardinality(reports) \in Nat
      /\ Cardinality(Taken(session)) \in Nat
      /\ tally.ups \in 0..MaxUps /\ tally.reports \in 0..MaxReports
  BY <1>0, CountFacts DEF SyncTypes
<1>4. Cardinality(Taken(session)) < MaxUps + MaxReports
  BY <1>0, <1>1, <1>3, BoundsAssumption, SMTT(30) DEF Slots
<1>5. /\ state' \in StateMaps /\ session' \in SessionMaps
      /\ Accounted(state', session') /\ Exclusive(state', session')
      /\ \A k, l \in Peers : k # n => state'[k][l] = state[k][l]
                                      /\ (<<k, l>> \in resync' <=> <<k, l>> \in resync)
      /\ resync' \in SUBSET (Peers \X Peers) /\ IsFiniteSet(resync')
      /\ Cardinality(Taken(session')) + Cardinality(resync')
           <= IF state[n][p] = "idle" /\ <<n, p>> \in resync
              THEN Cardinality(Taken(session)) + Cardinality(resync)
              ELSE Cardinality(Taken(session)) + Cardinality(resync) + 1
  <2> DEFINE q == state[n][p]
  <2>1. Accounted([state EXCEPT ![n][p] = q], session) /\ Exclusive([state EXCEPT ![n][p] = q], session)
    BY <1>0, <1>2
  <2>2. SyncWithPeer(n, p, "NewNeighbor", <<q, <<n, p>> \in resync>>, session) /\ q \in States
    BY <1>1, <1>2
  <2> HIDE DEF q
  <2>3. q = state[n][p]
    BY DEF q
  <2> QED
    BY <1>0, <1>2, <1>4, <2>1, <2>2, <2>3, SyncWithPeerKeeps
<1>6. tally' \in [ups : 0..MaxUps, reports : 0..MaxReports]
      /\ tally'.ups = tally.ups + 1 /\ tally'.reports = tally.reports
  BY <1>0, <1>1, BoundsAssumption, SMTT(30) DEF SyncTypes
<1>7. SyncTypes'
  BY <1>0, <1>1, <1>5, <1>6 DEF SyncTypes, StateMaps, SessionMaps
<1>8. Quiet'
  BY <1>0, <1>1, <1>5 DEF Quiet
<1>9. Cardinality(Taken(session')) \in Nat /\ Cardinality(resync') \in Nat
  BY <1>5, SessionsFacts, FS_CardinalityType
<1>10. Slots'
  BY <1>0, <1>1, <1>3, <1>5, <1>6, <1>9, SMTT(30) DEF Slots
<1> QED
  BY <1>1, <1>5, <1>7, <1>8, <1>10 DEF SyncInv, Accounted, Exclusive

\* A report of news starts a sync, or is remembered for when the present one
\* ends.
LEMMA OnSyncReportKeeps ==
    ASSUME SyncInv, NEW n \in Peers, NEW p \in Peers, OnSyncReport(n, p)
    PROVE  SyncInv'
<1>0. SyncTypes /\ Quiet /\ Slots /\ Accounted(state, session) /\ Exclusive(state, session)
  BY DEF SyncInv
<1>1. /\ <<n, p>> \in reports /\ reports' = reports \ {<<n, p>>}
      /\ UNCHANGED <<ended, syncing, left, tally>>
  BY DEF OnSyncReport
<1>2. /\ state[n][p] \in States /\ state = [state EXCEPT ![n][p] = state[n][p]]
      /\ session \in SessionMaps
  BY <1>0 DEF SyncTypes, SessionMaps
<1>3. /\ Cardinality(resync) \in Nat /\ Cardinality(reports) \in Nat
      /\ Cardinality(Taken(session)) \in Nat
      /\ tally.ups \in 0..MaxUps /\ tally.reports \in 0..MaxReports
  BY <1>0, CountFacts DEF SyncTypes
<1>4. /\ IsFiniteSet(reports') /\ Cardinality(reports') = Cardinality(reports) - 1
      /\ reports' \in SUBSET (Peers \X Peers) /\ Cardinality(reports') \in Nat
  <2>1. IsFiniteSet(reports) /\ reports \in SUBSET (Peers \X Peers)
    BY <1>0 DEF SyncTypes
  <2>2. IsFiniteSet(reports') /\ Cardinality(reports') = Cardinality(reports) - 1
    BY <1>1, <2>1, FS_RemoveElement
  <2>3. Cardinality(reports') \in Nat
    BY <2>2, FS_CardinalityType
  <2> QED
    BY <1>1, <2>1, <2>2, <2>3
<1>5. CASE UNCHANGED <<state, resync, session>>
  <2>1. SyncTypes' /\ Quiet'
    BY <1>0, <1>1, <1>4, <1>5 DEF SyncTypes, Quiet
  <2>2. Slots'
    BY <1>0, <1>1, <1>3, <1>4, <1>5, SMTT(30) DEF Slots
  <2> QED
    BY <1>0, <1>1, <1>5, <2>1, <2>2, SMTT(30) DEF SyncInv, Accounted, Exclusive
<1>6. CASE /\ n \in syncing
           /\ SyncWithPeer(n, p, "SyncReport", <<state[n][p], <<n, p>> \in resync>>, session)
  <2>1. Cardinality(Taken(session)) < MaxUps + MaxReports
    BY <1>0, <1>3, <1>4, BoundsAssumption, SMTT(30) DEF Slots
  <2>5. /\ state' \in StateMaps /\ session' \in SessionMaps
        /\ Accounted(state', session') /\ Exclusive(state', session')
        /\ \A k, l \in Peers : k # n => state'[k][l] = state[k][l]
                                        /\ (<<k, l>> \in resync' <=> <<k, l>> \in resync)
        /\ resync' \in SUBSET (Peers \X Peers) /\ IsFiniteSet(resync')
        /\ Cardinality(Taken(session')) + Cardinality(resync')
             <= IF state[n][p] = "idle" /\ <<n, p>> \in resync
                THEN Cardinality(Taken(session)) + Cardinality(resync)
                ELSE Cardinality(Taken(session)) + Cardinality(resync) + 1
    <3> DEFINE q == state[n][p]
    <3>1. Accounted([state EXCEPT ![n][p] = q], session) /\ Exclusive([state EXCEPT ![n][p] = q], session)
      BY <1>0, <1>2
    <3>2. SyncWithPeer(n, p, "SyncReport", <<q, <<n, p>> \in resync>>, session) /\ q \in States
      BY <1>6, <1>2
    <3> HIDE DEF q
    <3>3. q = state[n][p]
      BY DEF q
    <3> QED
      BY <1>0, <1>2, <2>1, <3>1, <3>2, <3>3, SyncWithPeerKeeps
  <2>6. SyncTypes'
    BY <1>0, <1>1, <1>4, <2>5 DEF SyncTypes, StateMaps, SessionMaps
  <2>7. Quiet'
    BY <1>0, <1>1, <1>6, <2>5 DEF Quiet
  <2>8. Cardinality(Taken(session')) \in Nat /\ Cardinality(resync') \in Nat
    BY <2>5, SessionsFacts, FS_CardinalityType
  <2>9. Slots'
    BY <1>0, <1>1, <1>3, <1>4, <2>5, <2>8, SMTT(30) DEF Slots
  <2> QED
    BY <1>1, <2>5, <2>6, <2>7, <2>9 DEF SyncInv, Accounted, Exclusive
<1> QED
  BY <1>5, <1>6 DEF OnSyncReport, PeerState

\* A report is sent.
LEMMA NewsReportedKeeps ==
    ASSUME SyncInv, NEW n \in Peers, NEW p \in Peers, NewsReported(n, p)
    PROVE  SyncInv'
<1>0. SyncTypes /\ Quiet /\ Slots /\ Accounted(state, session) /\ Exclusive(state, session)
  BY DEF SyncInv
<1>1. /\ tally.reports < MaxReports /\ tally' = [tally EXCEPT !.reports = @ + 1]
      /\ reports' = reports \cup {<<n, p>>}
      /\ UNCHANGED <<ended, syncing, left, state, resync, session>>
  BY DEF NewsReported
<1>2. tally' \in [ups : 0..MaxUps, reports : 0..MaxReports]
      /\ tally'.ups = tally.ups /\ tally'.reports = tally.reports + 1
  BY <1>0, <1>1, BoundsAssumption, SMTT(30) DEF SyncTypes
<1>3. /\ Cardinality(resync) \in Nat /\ Cardinality(reports) \in Nat
      /\ Cardinality(Taken(session)) \in Nat /\ tally.ups \in Nat /\ tally.reports \in Nat
  BY <1>0, CountFacts
<1>4. /\ IsFiniteSet(reports') /\ reports' \in SUBSET (Peers \X Peers)
      /\ Cardinality(reports') = IF <<n, p>> \in reports THEN Cardinality(reports) ELSE Cardinality(reports) + 1
  <2>1. IsFiniteSet(reports) /\ reports \in SUBSET (Peers \X Peers)
    BY <1>0 DEF SyncTypes
  <2>2. /\ IsFiniteSet(reports')
        /\ Cardinality(reports') = IF <<n, p>> \in reports THEN Cardinality(reports) ELSE Cardinality(reports) + 1
    BY <1>1, <2>1, FS_AddElement
  <2> QED
    BY <1>1, <2>1, <2>2, SMTT(30)
<1>5. SyncTypes' /\ Quiet'
  BY <1>0, <1>1, <1>2, <1>4 DEF SyncTypes, Quiet
<1>6. Slots'
  BY <1>0, <1>1, <1>2, <1>3, <1>4, SMTT(30) DEF Slots
<1> QED
  BY <1>0, <1>1, <1>5, <1>6, SMTT(30) DEF SyncInv, Accounted, Exclusive

\* A node leaves the document.
LEMMA LeaveKeeps ==
    ASSUME SyncInv, NEW n \in Peers, Leave(n)
    PROVE  SyncInv'
<1>0. SyncTypes /\ Quiet /\ Slots /\ Accounted(state, session) /\ Exclusive(state, session)
  BY DEF SyncInv
<1>1. /\ syncing' = syncing \ {n} /\ left' = left \cup {n}
      /\ state' = [state EXCEPT ![n] = [p \in Peers |-> "idle"]]
      /\ resync' = {q \in resync : q[1] # n} /\ UNCHANGED <<ended, session, reports, tally>>
  BY DEF Leave
<1>2. /\ state' \in [Peers -> [Peers -> States]]
      /\ \A k, l \in Peers : state'[k][l] = IF k = n THEN "idle" ELSE state[k][l]
  BY <1>0, <1>1 DEF SyncTypes, States
<1>3. resync' \subseteq resync /\ IsFiniteSet(resync') /\ Cardinality(resync') <= Cardinality(resync)
      /\ Cardinality(resync') \in Nat
  BY <1>0, <1>1, FS_Subset, FS_CardinalityType DEF SyncTypes
<1>4. SyncTypes'
  BY <1>0, <1>1, <1>2, <1>3 DEF SyncTypes
<1>5. Quiet'
  BY <1>0, <1>1, <1>2 DEF Quiet
<1>6. Slots'
  BY <1>0, <1>1, <1>3, CountFacts, SMTT(30) DEF Slots
<1>7. Accounted(state', session')
  BY <1>0, <1>1, <1>2, SMTT(30) DEF Accounted
<1>8. ASSUME NEW k \in Peers, NEW l \in Peers, k < l, k \notin left'
      PROVE  Single(k, l, state', session')
  BY <1>0, <1>1, <1>2, <1>8, SMTT(30) DEF Exclusive, Single
<1> QED
  BY <1>1, <1>4, <1>5, <1>6, <1>7, <1>8 DEF SyncInv, Accounted, Exclusive

\* What a session is after n has aborted its tasks.
LEMMA AbortedFacts ==
    ASSUME NEW n \in Peers, NEW v \in SessionStates
    PROVE  LET u == Aborted(n, v) IN
           /\ u \in SessionStates /\ (v = Unused => u = Unused)
           /\ u.alice \notin {"none", "joined"} =>
                u.alice = v.alice /\ v.from # n /\ u.from = v.from /\ u.to = v.to
           /\ u.bob \notin {"none", "joined"} =>
                u.bob = v.bob /\ v.to # n /\ u.from = v.from /\ u.to = v.to
           /\ v.bob \notin {"none", "joined"} /\ v.to # n =>
                u.bob = v.bob /\ u.from = v.from /\ u.to = v.to
<1> DEFINE alice == IF v.from = n THEN "joined" ELSE v.alice
           bob == IF v.to = n THEN "joined" ELSE v.bob
           u == Aborted(n, v)
<1>1. u = IF alice = "joined" /\ bob \in {"none", "joined"} THEN Unused
          ELSE [from |-> v.from, to |-> v.to, alice |-> alice, bob |-> bob]
  BY DEF Aborted
<1>2. CASE v = Unused
  <2>1. v.from = 0 /\ v.to = 0 /\ v.alice = "none" /\ v.bob = "none"
    BY <1>2 DEF Unused
  <2>2. CASE n = 0
    BY <1>1, <1>2, <2>1, <2>2 DEF SessionStates
  <2>3. CASE n # 0
    <3>1. alice = "none" /\ bob = "none"
      BY <2>1, <2>3
    <3>2. u = [from |-> v.from, to |-> v.to, alice |-> "none", bob |-> "none"]
      BY <1>1, <3>1
    <3>3. u = Unused
      BY <2>1, <3>2 DEF Unused
    <3> QED
      BY <1>2, <2>1, <3>3 DEF SessionStates
  <2> QED
    BY <2>2, <2>3
<1>3. CASE v \in [from : Peers, to : Peers, alice : Sides, bob : Sides]
  <2> DEFINE x == [from |-> v.from, to |-> v.to, alice |-> alice, bob |-> bob]
  <2>1. alice \in Sides /\ bob \in Sides
    BY <1>3 DEF Sides
  <2>2. /\ x \in [from : Peers, to : Peers, alice : Sides, bob : Sides]
        /\ x.from = v.from /\ x.to = v.to /\ x.alice = alice /\ x.bob = bob
    <3> HIDE DEF alice, bob
    <3> QED
      BY <1>3, <2>1
  <2>3. Unused.alice = "none" /\ Unused.bob = "none"
    BY DEF Unused
  <2>4. v = Unused => u = Unused
    BY <1>2
  <2>5. u = IF alice = "joined" /\ bob \in {"none", "joined"} THEN Unused ELSE x
    BY <1>1
  <2> HIDE DEF x, u
  <2>6. CASE alice = "joined" /\ bob \in {"none", "joined"}
    BY <2>3, <2>4, <2>5, <2>6 DEF SessionStates, u
  <2>7. CASE ~(alice = "joined" /\ bob \in {"none", "joined"})
    BY <2>2, <2>4, <2>5, <2>7 DEF SessionStates, u
  <2> QED
    BY <2>6, <2>7
<1> QED
  BY <1>2, <1>3 DEF SessionStates

\* A live actor ends: no session is left to it, and the sessions of the others
\* stay as they are.
LEMMA ActorEndsKeeps ==
    ASSUME SyncInv, NEW s \in Sessions, ActorEnds(s)
    PROVE  SyncInv'
<1> DEFINE n == session[s].to
<1>0. SyncTypes /\ Quiet /\ Slots /\ Accounted(state, session) /\ Exclusive(state, session)
  BY DEF SyncInv
<1>1. n \in Peers
  BY <1>0, SessionFacts DEF ActorEnds
<1>2. /\ ended' = ended \cup {n} /\ syncing' = syncing \ {n}
      /\ state' = [state EXCEPT ![n] = [p \in Peers |-> "idle"]]
      /\ resync' = {q \in resync : q[1] # n} /\ UNCHANGED <<left, reports, tally>>
      /\ session' = [r \in Sessions |-> Aborted(n, session[r])]
  BY DEF ActorEnds
<1> HIDE DEF n
<1>3. ASSUME NEW r \in Sessions
      PROVE  /\ session'[r] \in SessionStates /\ (session[r] = Unused => session'[r] = Unused)
             /\ session'[r].alice \notin {"none", "joined"} =>
                  /\ session'[r].alice = session[r].alice /\ session[r].from # n
                  /\ session'[r].from = session[r].from /\ session'[r].to = session[r].to
             /\ session'[r].bob \notin {"none", "joined"} =>
                  /\ session'[r].bob = session[r].bob /\ session[r].to # n
                  /\ session'[r].from = session[r].from /\ session'[r].to = session[r].to
             /\ session[r].bob \notin {"none", "joined"} /\ session[r].to # n =>
                  /\ session'[r].bob = session[r].bob
                  /\ session'[r].from = session[r].from /\ session'[r].to = session[r].to
  <2> DEFINE v == session[r]
             u == Aborted(n, v)
  <2>1. v \in SessionStates /\ session'[r] = u
    BY <1>0, <1>2 DEF SyncTypes
  <2> HIDE DEF v
  <2>2. /\ u \in SessionStates /\ (v = Unused => u = Unused)
        /\ u.alice \notin {"none", "joined"} =>
             u.alice = v.alice /\ v.from # n /\ u.from = v.from /\ u.to = v.to
        /\ u.bob \notin {"none", "joined"} =>
             u.bob = v.bob /\ v.to # n /\ u.from = v.from /\ u.to = v.to
        /\ v.bob \notin {"none", "joined"} /\ v.to # n =>
             u.bob = v.bob /\ u.from = v.from /\ u.to = v.to
    BY <1>1, <2>1, AbortedFacts
  <2> HIDE DEF u
  <2> QED
    BY <2>1, <2>2 DEF v
<1>4. /\ state' \in [Peers -> [Peers -> States]]
      /\ \A k, l \in Peers : state'[k][l] = IF k = n THEN "idle" ELSE state[k][l]
  BY <1>0, <1>1, <1>2 DEF SyncTypes, States
<1>5. resync' \subseteq resync /\ IsFiniteSet(resync') /\ Cardinality(resync') <= Cardinality(resync)
      /\ Cardinality(resync') \in Nat
  BY <1>0, <1>2, FS_Subset, FS_CardinalityType DEF SyncTypes
<1>6. SyncTypes'
  <2>1. session' \in [Sessions -> SessionStates]
    BY <1>2, <1>3
  <2> QED
    BY <1>0, <1>2, <1>4, <1>5, <2>1 DEF SyncTypes
<1>7. Quiet'
  BY <1>0, <1>2, <1>4, SMTT(30) DEF Quiet
<1>8. Slots'
  <2>1. Taken(session') \subseteq Taken(session)
    BY <1>3 DEF Taken
  <2> QED
    BY <1>0, <1>2, <1>5, <2>1, CountFacts, SMTT(30) DEF Slots
<1>9. Accounted(state', session')
  <2> SUFFICES ASSUME NEW k \in Peers, NEW l \in Peers, state'[k][l] = "accept"
               PROVE  \E r \in Sessions : /\ session'[r].from = l /\ session'[r].to = k
                                          /\ session'[r].bob \in {"running", "ok", "err", "panicked"}
    BY DEF Accounted
  <2>1. k # n /\ state[k][l] = "accept"
    BY <1>4
  <2>2. PICK r \in Sessions : /\ session[r].from = l /\ session[r].to = k
                              /\ session[r].bob \in {"running", "ok", "err", "panicked"}
    BY <1>0, <2>1, SMTT(30) DEF Accounted
  <2> QED
    BY <1>3, <2>1, <2>2
<1>10. ASSUME NEW k \in Peers, NEW l \in Peers, k < l, k \notin left'
       PROVE  Single(k, l, state', session')
  <2>1. Single(k, l, state, session)
    BY <1>0, <1>2, <1>10 DEF Exclusive
  <2>2. CASE k = n
    <3>1. Live(k, l, session') = {}
      BY <1>3, <2>2 DEF Live
    <3> QED
      BY <1>4, <2>2, <3>1 DEF Single
  <2>3. CASE k # n
    <3>1. /\ Live(k, l, session') \subseteq Live(k, l, session)
          /\ \A r \in Live(k, l, session') : session'[r].from = session[r].from
      BY <1>3 DEF Live
    <3> QED
      BY <1>4, <2>1, <2>3, <3>1, SingleKept
  <2> QED
    BY <2>2, <2>3
<1> QED
  BY <1>2, <1>6, <1>7, <1>8, <1>9, <1>10 DEF SyncInv, Accounted, Exclusive

\* A node takes part in the document again.
LEMMA StartSyncKeeps ==
    ASSUME SyncInv, NEW n \in Peers, StartSync(n)
    PROVE  SyncInv'
  BY SMTT(30) DEF SyncInv, StartSync, SyncTypes, Quiet, Slots, Accounted, Exclusive

-----------------------------------------------------------------------------
(* The invariant. *)

\* The invariant holds when nobody syncs,
LEMMA SyncStarts == SyncInit => SyncInv
<1> SUFFICES ASSUME SyncInit PROVE SyncInv
  OBVIOUS
<1>1. \A s \in Sessions : session[s] = Unused
  BY DEF SyncInit
<1>2. Cardinality(Taken(session)) = 0 /\ Cardinality(resync) = 0 /\ Cardinality(reports) = 0
      /\ IsFiniteSet(resync) /\ IsFiniteSet(reports)
  <2>1. Taken(session) = {} /\ resync = {} /\ reports = {}
    BY <1>1 DEF Taken, SyncInit
  <2> QED
    BY <2>1, FS_EmptySet
<1>3. SyncTypes /\ Quiet
  BY <1>2, BoundsAssumption, SMTT(30) DEF SyncInit, SyncTypes, Quiet, States, SessionStates
<1>4. Slots
  BY <1>2, SMTT(30) DEF Slots, SyncInit
<1>5. Accounted(state, session)
  BY DEF SyncInit, Accounted
<1>6. ASSUME NEW n \in Peers, NEW p \in Peers PROVE Single(n, p, state, session)
  <2>1. Live(n, p, session) = {}
    BY <1>1, SMTT(30) DEF Live, Unused
  <2> QED
    BY <2>1 DEF Single
<1> QED
  BY <1>3, <1>4, <1>5, <1>6 DEF SyncInv, Exclusive

\* every step keeps it,
LEMMA SyncSteps == SyncInv /\ [SyncNext]_syncVars => SyncInv'
<1> SUFFICES ASSUME SyncInv, [SyncNext]_syncVars PROVE SyncInv'
  OBVIOUS
<1>s. ASSUME NEW s \in Sessions PROVE session[s].alice \in Sides /\ session[s].bob \in Sides
  BY SessionFacts DEF SyncInv
<1>1. ASSUME NEW s \in Sessions, Connected(s) PROVE SyncInv'
  BY <1>1, SetSessionKeeps DEF Connected, Sides
<1>2. ASSUME NEW s \in Sessions, DialFailed(s) PROVE SyncInv'
  BY <1>2, SetSessionKeeps DEF DialFailed, Sides
<1>3. ASSUME NEW s \in Sessions, AliceFailed(s) PROVE SyncInv'
  <2>1. "err" \in Sides
    BY DEF Sides
  <2> QED
    BY <1>3, <1>s, <2>1, SetSessionKeeps DEF AliceFailed
<1>4. ASSUME NEW s \in Sessions, BobFailed(s) PROVE SyncInv'
  <2>1. "err" \in Sides
    BY DEF Sides
  <2> QED
    BY <1>4, <1>s, <2>1, SetSessionKeeps DEF BobFailed
<1>p. ASSUME NEW s \in Sessions, BobPanicked(s) PROVE SyncInv'
  <2>1. "panicked" \in Sides
    BY DEF Sides
  <2> QED
    BY <1>p, <1>s, <2>1, SetSessionKeeps DEF BobPanicked
<1>5. ASSUME NEW s \in Sessions, Synced(s) PROVE SyncInv'
  <2>1. PICK a, b \in {"ok", "err"} : SetSession(s, a, b)
    BY <1>5 DEF Synced
  <2> QED
    BY <1>5, <2>1, SetSessionKeeps DEF Synced, Sides
<1>6. CASE UNCHANGED syncVars
  BY <1>6, SMTT(30) DEF syncVars, SyncInv, SyncTypes, Quiet, Slots, Accounted, Exclusive
<1> QED
  BY SMTT(30), <1>1, <1>2, <1>3, <1>4, <1>p, <1>5, <1>6, ActorEndsKeeps, NeighborSyncKeeps, NewsReportedKeeps, OnSyncReportKeeps,
     LeaveKeeps, StartSyncKeeps, AcceptSyncRequestKeeps, ConnectFinishedKeeps, AcceptFinishedKeeps
     DEF SyncNext

\* and so it holds always.
LEMMA SyncInvariant == SyncSpec => []SyncInv
  BY SyncStarts, SyncSteps, PTL DEF SyncSpec

\* A peer that is noted as accepted has an accept task that the actor has still
\* to join, whatever crosses, fails and overlaps: that makes the peer idle again,
\* or ends the actor if the task has panicked.
THEOREM AcceptsEnd == SyncSpec => []AcceptsAccounted
<1>1. SyncInv => AcceptsAccounted
  BY DEF SyncInv, Accounted, AcceptsAccounted
<1> QED
  BY <1>1, SyncInvariant, PTL

\* The lesser of two peers that stays in the document never runs two syncs with
\* the other at the same time.
THEOREM LesserSyncsOnce == SyncSpec => []LesserExclusive
<1>1. SyncInv => LesserExclusive
  <2> SUFFICES ASSUME SyncInv, NEW n \in Peers, NEW p \in Peers, n < p, n \notin left
               PROVE  Cardinality(Syncs(n, p)) <= 1
    BY DEF LesserExclusive
  <2>1. Syncs(n, p) \subseteq Live(n, p, session)
    BY DEF Syncs, Live
  <2>2. \A r, s \in Syncs(n, p) : r = s
    BY <2>1 DEF SyncInv, Exclusive, Single
  <2>3. CASE Syncs(n, p) = {}
    BY <2>3, FS_EmptySet, SMTT(30)
  <2>4. CASE Syncs(n, p) # {}
    <3>1. PICK s \in Syncs(n, p) : TRUE
      BY <2>4
    <3>2. Syncs(n, p) = {s}
      BY <2>2, <3>1
    <3> QED
      BY <3>2, FS_Singleton, SMTT(30)
  <2> QED
    BY <2>3, <2>4
<1> QED
  BY <1>1, SyncInvariant, PTL

-----------------------------------------------------------------------------
(* The download queue. *)


\* The types of the maps and sets, and what a task may be.
Typed ==
    /\ byHash \in [Hashes -> SUBSET Docs]
    /\ byDoc \in [Docs -> SUBSET Hashes]
    /\ tasks \in [Hashes -> [doc : Docs \cup {"none"}, res : {"none", "running", "ok", "err"}]]
    /\ active \in SUBSET Docs /\ mayEmit \in SUBSET Docs

\* QueuesAgree, with the tasks told apart by their result.
Queued ==
    \A h \in Hashes :
        /\ \A d \in Docs : d \in byHash[h] <=> h \in byDoc[d]
        /\ byHash[h] # {} <=> tasks[h].res # "none"
        /\ tasks[h].res # "none" => tasks[h].doc \in byHash[h]
        /\ tasks[h].res = "none" => tasks[h] = NoTask

ContentInv == Typed /\ Queued /\ ReadyPending

\* The result of a task tells whether there is one.
LEMMA QueuedAgree == ContentInv => QueuesAgree
<1> SUFFICES ASSUME ContentInv, NEW h \in Hashes
             PROVE  /\ \A d \in Docs : d \in byHash[h] <=> h \in byDoc[d]
                    /\ byHash[h] # {} <=> tasks[h] # NoTask
                    /\ tasks[h] # NoTask => tasks[h].doc \in byHash[h]
  BY DEF QueuesAgree
<1>1. tasks[h].res # "none" <=> tasks[h] # NoTask
  BY SMTT(30) DEF ContentInv, Queued, NoTask
<1> QED
  BY <1>1 DEF ContentInv, Queued

\* The invariant holds when nothing is queued.
LEMMA ContentStarts == ContentInit => ContentInv
  BY SMTT(30) DEF ContentInit, ContentInv, Typed, Queued, ReadyPending, NoTask

\* A hash is queued for a document, with a task if it had none.
LEMMA StartDownloadKeeps ==
    ASSUME ContentInv, NEW d \in Docs, NEW h \in Hashes, NEW o \in BOOLEAN,
           StartDownload(d, h, o), UNCHANGED <<active, mayEmit>>
    PROVE  ContentInv'
<1> USE DEF ContentInv
<1>1. CASE UNCHANGED <<byHash, byDoc, tasks>>
  BY <1>1 DEF Typed, Queued, ReadyPending
<1>2. CASE Queue(h, d) /\ h \in QueuedHashes /\ UNCHANGED tasks
  <2>1. Typed'
    BY <1>2 DEF Typed, Queue
  <2>2. Queued'
    BY <1>2 DEF Typed, Queued, Queue, QueuedHashes
  <2>3. ReadyPending'
    BY <1>2 DEF Typed, ReadyPending, Queue
  <2> QED
    BY <2>1, <2>2, <2>3
<1>3. CASE Queue(h, d) /\ tasks' = [tasks EXCEPT ![h] = [doc |-> d, res |-> "running"]]
  <2>1. Typed'
    BY <1>3 DEF Typed, Queue
  <2>2. Queued'
    BY <1>3 DEF Typed, Queued, Queue
  <2>3. ReadyPending'
    BY <1>3 DEF Typed, ReadyPending, Queue
  <2> QED
    BY <2>1, <2>2, <2>3
<1> QED
  BY <1>1, <1>2, <1>3 DEF StartDownload

\* Every step of the live actor and of its downloads keeps the invariant.
LEMMA ContentSteps == ContentInv /\ [ContentNext]_contentVars => ContentInv'
<1> SUFFICES ASSUME ContentInv, [ContentNext]_contentVars PROVE ContentInv'
  OBVIOUS
<1> USE DEF ContentInv
<1>0. ASSUME UNCHANGED <<byHash, byDoc, tasks, active, mayEmit>> PROVE ContentInv'
  BY <1>0 DEF Typed, Queued, ReadyPending
<1>1. ASSUME NEW d \in Docs, NEW h \in Hashes, NEW has \in BOOLEAN, RemoteInsert(d, h, has)
      PROVE  ContentInv'
  BY <1>0, <1>1, StartDownloadKeeps DEF RemoteInsert
<1>2. ASSUME NEW d \in Docs, NEW h \in Hashes, NeighborContentReady(d, h) PROVE ContentInv'
  BY <1>2, StartDownloadKeeps DEF NeighborContentReady
<1>3. ASSUME NEW h \in Hashes, DownloadEnds(h) PROVE ContentInv'
  <2>1. PICK r \in {"ok", "err"} : tasks' = [tasks EXCEPT ![h].res = r]
    BY <1>3 DEF DownloadEnds
  <2>2. /\ tasks[h].res = "running"
        /\ UNCHANGED <<byHash, byDoc, active, mayEmit>>
    BY <1>3 DEF DownloadEnds
  <2>3. /\ tasks'[h].res = r /\ tasks'[h].doc = tasks[h].doc
        /\ \A g \in Hashes \ {h} : tasks'[g] = tasks[g]
    BY <2>1 DEF Typed
  <2>4. Typed'
    BY <2>1, <2>2 DEF Typed
  <2>5. Queued'
    BY <2>2, <2>3 DEF Queued
  <2> QED
    BY <2>2, <2>4, <2>5 DEF ReadyPending
<1>4. ASSUME NEW h \in Hashes, OnDownloadReady(h) PROVE ContentInv'
  <2>1. /\ RemoveHash(h)
        /\ tasks' = [tasks EXCEPT ![h] = NoTask]
        /\ mayEmit' = mayEmit \ Completed(h)
        /\ active' = active
    BY <1>4 DEF OnDownloadReady
  <2>2. Typed'
    BY <2>1 DEF Typed, RemoveHash, NoTask
  <2>3. Queued'
    BY <2>1 DEF Typed, Queued, RemoveHash, NoTask
  <2>4. ReadyPending'
    BY <2>1 DEF Typed, ReadyPending, RemoveHash, Completed
  <2> QED
    BY <2>2, <2>3, <2>4
<1>5. ASSUME NEW d \in Docs, SyncFinished(d) PROVE ContentInv'
  BY <1>5 DEF SyncFinished, Typed, Queued, ReadyPending
<1>6. ASSUME NEW d \in Docs, LeaveDoc(d) PROVE ContentInv'
  BY <1>6 DEF LeaveDoc, Typed, Queued, ReadyPending
<1>7. ASSUME NEW d \in Docs, StartDoc(d) PROVE ContentInv'
  BY <1>7 DEF StartDoc, Typed, Queued, ReadyPending
<1>8. CASE UNCHANGED contentVars
  BY <1>0, <1>8 DEF contentVars
<1> QED
  BY <1>1, <1>2, <1>3, <1>4, <1>5, <1>6, <1>7, <1>8 DEF ContentNext

\* The two maps of the queue are each other's inverse, and a hash is queued
\* exactly as long as its one download runs or waits to be joined.
THEOREM QueueExact == ContentSpec => []QueuesAgree
  BY ContentStarts, ContentSteps, QueuedAgree, PTL DEF ContentSpec

\* No document waits for PendingContentReady without a download that will bring
\* it, whatever syncs end, downloads fail and documents are left meanwhile.
THEOREM WaitsEnd == ContentSpec => []ReadyPending
<1>1. ContentInv => ReadyPending
  BY DEF ContentInv
<1> QED
  BY <1>1, ContentStarts, ContentSteps, PTL DEF ContentSpec

=============================================================================
