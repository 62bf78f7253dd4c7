---------------------------- MODULE GossipProofs ----------------------------
(***************************************************************************)
(* Proofs about the two protocols of krikos-gossip.                        *)
(*                                                                         *)
(* PlumTree, for every set of peers, every overlay, any number of          *)
(* broadcasts and of changes of the overlay.  The three invariants are     *)
(* about one node each: a handler keeps them whatever the message is and   *)
(* whoever sent it, so there is one lemma per helper and handler, and one  *)
(* per action.                                                             *)
(*                                                                         *)
(* HyParView, for every set of nodes, every capacity and every walk        *)
(* length.  A handler is followed step by step: Good says what the state   *)
(* of a node and what it has pushed satisfy at every step.                 *)
(***************************************************************************)
EXTENDS HyParView, PlumTree, FiniteSetTheorems, TLAPS

\* Zenon proves what does not say otherwise.
USE ZenonT(30)

-----------------------------------------------------------------------------
(* PlumTree. *)

Rounds == Nat \cup {NoRound}

TreeMessages ==
    [kind : {"Gossip"}, id : Ids, round : Rounds] \cup [kind : {"Prune"}]
    \cup [kind : {"IHave"}, id : Ids, round : Nat]
    \cup [kind : {"Graft"}, id : Ids \cup {NoId}]
    \cup [kind : {"Neighbor"}] \cup [kind : {"Disconnect"}]

Announcements == [peer : Members, round : Nat]

Mail == [Members -> Seq(TreeMessages)]

TreeStates ==
    [eager : SUBSET Members, lazy : SUBSET Members, queue : Mail,
     tracked : SUBSET Ids, missing : [Ids -> Seq(Announcements)],
     received : SUBSET Ids, cache : [Ids -> Rounds],
     flagged : SUBSET Ids, grafts : [Ids -> Nat], dispatch : BOOLEAN, out : Mail]

\* What NeighborsServed says of one node with the active view vw.
Served(t, vw) == vw \subseteq t.eager \cup t.lazy /\ t.eager \cap t.lazy = {}
\* What DispatchPending says of one node.
Announcing(t) == (\E p \in Members : t.queue[p] # <<>>) => t.dispatch
\* What GraftPending says of one node.
Asking(t) ==
    \A id \in Ids :
        \/ t.grafts[id] > 0
        \/ id \notin t.flagged /\ (id \in t.received \/ t.missing[id] = <<>>)

Sound(t, vw) == t \in TreeStates /\ Served(t, vw) /\ Announcing(t)

\* r is t but for its mail.
Mailed(t, r) ==
    /\ r.eager = t.eager /\ r.lazy = t.lazy /\ r.queue = t.queue /\ r.tracked = t.tracked
    /\ r.missing = t.missing /\ r.received = t.received /\ r.cache = t.cache
    /\ r.flagged = t.flagged /\ r.grafts = t.grafts /\ r.dispatch = t.dispatch

-----------------------------------------------------------------------------
(* The messages and what is pushed. *)

\* The kinds of message are TreeMessages.
LEMMA TreeMessageFacts ==
    /\ \A id \in Ids, round \in Rounds : Gossip(id, round) \in TreeMessages
    /\ \A id \in Ids, round \in Nat : IHave(id, round) \in TreeMessages
    /\ \A id \in Ids \cup {NoId} : Graft(id) \in TreeMessages
    /\ Prune \in TreeMessages /\ LinkUp \in TreeMessages /\ LinkDown \in TreeMessages
  BY DEF TreeMessages, Gossip, IHave, Graft, Prune, LinkUp, LinkDown

\* A node that has only sent something is as sound as before.
LEMMA MailedSound ==
    ASSUME NEW t, NEW vw, Sound(t, vw), NEW r \in TreeStates, Mailed(t, r)
    PROVE  Sound(r, vw) /\ (Asking(t) => Asking(r))
  BY DEF Sound, Served, Announcing, Asking, Mailed

\* Pushing a message changes the mail alone.
LEMMA PushMailed ==
    ASSUME NEW t \in TreeStates, NEW ps, NEW m \in TreeMessages
    PROVE  Push(t, ps, m) \in TreeStates /\ Mailed(t, Push(t, ps, m))
<1> DEFINE mail == [p \in Members |-> IF p \in ps THEN Append(t.out[p], m) ELSE t.out[p]]
<1>1. mail \in Mail
  BY SMTT(30) DEF TreeStates, Mail
<1>2. Push(t, ps, m) = [t EXCEPT !.out = mail]
  BY DEF Push
<1> HIDE DEF mail
<1>3. [t EXCEPT !.out = mail] \in TreeStates /\ Mailed(t, [t EXCEPT !.out = mail])
  BY <1>1 DEF TreeStates, Mailed
<1> QED
  BY <1>2, <1>3

\* A message that is pushed changes nothing but the mail.
LEMMA PushSound ==
    ASSUME NEW t, NEW vw, Sound(t, vw), NEW ps, NEW m \in TreeMessages
    PROVE  /\ Sound(Push(t, ps, m), vw)
           /\ Asking(t) => Asking(Push(t, ps, m))
           /\ Mailed(t, Push(t, ps, m))
  BY PushMailed, MailedSound DEF Sound

-----------------------------------------------------------------------------
(* The helpers. *)

\* add_eager and add_lazy move a peer, and serve it from then on.
LEMMA AddSound ==
    ASSUME NEW t, NEW vw, Sound(t, vw), NEW p \in Members
    PROVE  \A r \in {AddEager(t, p), AddLazy(t, p)} :
             /\ Sound(r, vw) /\ Sound(r, vw \cup {p})
             /\ Asking(t) => Asking(r)
             /\ r.cache = t.cache
<1>1. TAKE r \in {AddEager(t, p), AddLazy(t, p)}
<1>2. /\ r \in TreeStates
      /\ r.eager \cup r.lazy = t.eager \cup t.lazy \cup {p}
      /\ r.eager \cap r.lazy \subseteq t.eager \cap t.lazy
      /\ r.queue = t.queue /\ r.dispatch = t.dispatch /\ r.cache = t.cache
      /\ r.grafts = t.grafts /\ r.flagged = t.flagged
      /\ r.received = t.received /\ r.missing = t.missing
  <2>1. CASE r = AddEager(t, p)
    BY <2>1 DEF AddEager, TreeStates, Sound
  <2>2. CASE r = AddLazy(t, p)
    BY <2>2 DEF AddLazy, TreeStates, Sound
  <2> QED
    BY <1>1, <2>1, <2>2
<1> QED
  BY <1>2 DEF Sound, Served, Announcing, Asking

\* Nor does one that is pushed to the eager peers.
LEMMA EagerPushSound ==
    ASSUME NEW t, NEW vw, Sound(t, vw), NEW me, NEW id \in Ids, NEW round \in Rounds, NEW sender
    PROVE  LET r == EagerPush(t, me, id, round, sender) IN
           Sound(r, vw) /\ (Asking(t) => Asking(r)) /\ Mailed(t, r)
  BY PushSound, TreeMessageFacts DEF EagerPush

\* What lazy_push queues, it has the timer scheduled for.
LEMMA LazyPushSound ==
    ASSUME NEW t, NEW vw, Sound(t, vw), NEW id \in Ids, NEW round \in Nat, NEW sender
    PROVE  LET r == LazyPush(t, id, round, sender) IN
           /\ Sound(r, vw)
           /\ Asking(t) => Asking(r)
<1> DEFINE queue == [p \in Members |->
                        IF p \in t.lazy \ {sender} /\ Len(t.queue[p]) < MaxLazyQueue
                        THEN Append(t.queue[p], IHave(id, round)) ELSE t.queue[p]]
           r == [t EXCEPT !.queue = queue, !.dispatch = TRUE]
<1>1. LazyPush(t, id, round, sender) = r
  BY DEF LazyPush
<1>2. queue \in Mail
  BY TreeMessageFacts, SMTT(30) DEF Sound, TreeStates, Mail
<1> HIDE DEF queue
<1>3. /\ r \in TreeStates /\ r.dispatch
      /\ r.eager = t.eager /\ r.lazy = t.lazy /\ r.grafts = t.grafts /\ r.flagged = t.flagged
      /\ r.received = t.received /\ r.missing = t.missing
  BY <1>2 DEF Sound, TreeStates
<1> HIDE DEF r
<1> QED
  BY <1>1, <1>3 DEF Sound, Served, Announcing, Asking

\* A non-empty set of naturals has a least element.
LEMMA LeastOf ==
    ASSUME NEW S \in SUBSET Nat, S # {}
    PROVE  \E x \in S : \A y \in S : x <= y
<1>1. PICK x \in S : \A y \in S : ~(<<y, x>> \in OpToRel(<, Nat))
  BY WFMin, NatLessThanWellFounded
<1>2. \A y \in S : ~(y < x)
  BY <1>1 DEF OpToRel
<1> QED
  BY <1>2, SMTT(30)

\* min_by over announcements finds one of them.
LEMMA BestFacts ==
    ASSUME NEW ihaves \in Seq(Announcements), ihaves # <<>>
    PROVE  Best(ihaves) \in Announcements
<1> DEFINE rounds == {ihaves[i].round : i \in DOMAIN ihaves}
<1>1. DOMAIN ihaves = 1..Len(ihaves) /\ 1 \in DOMAIN ihaves
      /\ \A i \in DOMAIN ihaves : ihaves[i] \in Announcements
  BY SMTT(30)
<1>2. rounds \in SUBSET Nat /\ rounds # {}
  BY <1>1, SMTT(30) DEF Announcements
<1>3. PICK x \in rounds : \A y \in rounds : x <= y
  BY <1>2, LeastOf
<1> DEFINE first == {i \in DOMAIN ihaves : ihaves[i].round = x}
<1>4. first \in SUBSET Nat /\ first # {}
  BY <1>1, <1>3, SMTT(30)
<1>5. PICK i \in first : \A j \in first : i <= j
  BY <1>4, LeastOf
<1>6. \A j \in DOMAIN ihaves : ihaves[i].round < ihaves[j].round
                               \/ (ihaves[i].round = ihaves[j].round /\ i <= j)
  <2> TAKE j \in DOMAIN ihaves
  <2>1. ihaves[j].round \in rounds /\ ihaves[i].round = x
    BY <1>5
  <2>2. x \in Nat /\ ihaves[j].round \in Nat /\ x <= ihaves[j].round
    BY <1>2, <1>3, <2>1
  <2>3. ihaves[j].round = x => i <= j
    BY <1>5
  <2> HIDE DEF rounds
  <2> QED
    BY <2>1, <2>2, <2>3, SMTT(30)
<1>7. i \in DOMAIN ihaves
  BY <1>5
<1> QED
  BY <1>1, <1>6, <1>7 DEF Best

\* optimize_tree moves peers between the two sets only.
LEMMA OptimizeTreeSound ==
    ASSUME NEW t, NEW vw, Sound(t, vw), NEW sender \in Members, NEW round \in Nat,
           NEW ihaves \in Seq(Announcements)
    PROVE  LET r == OptimizeTree(t, sender, round, ihaves) IN
           Sound(r, vw) /\ (Asking(t) => Asking(r))
<1>1. CASE OptimizeTree(t, sender, round, ihaves) = t
  BY <1>1
<1>2. CASE ihaves # <<>>
  <2> DEFINE peer == Best(ihaves).peer
             up == AddEager(t, peer)
             grafted == IF peer \in t.eager THEN t ELSE Push(up, {peer}, Graft(NoId))
             moved == AddLazy(grafted, sender)
             r == Push(moved, {sender}, Prune)
  <2>1. peer \in Members
    BY <1>2, BestFacts DEF Announcements
  <2> HIDE DEF peer
  <2>2. Sound(up, vw) /\ (Asking(t) => Asking(up))
    BY <2>1, AddSound
  <2> HIDE DEF up
  <2>3. Sound(grafted, vw) /\ (Asking(t) => Asking(grafted))
    BY <2>2, PushSound, TreeMessageFacts
  <2> HIDE DEF grafted
  <2>4. Sound(moved, vw) /\ (Asking(t) => Asking(moved))
    BY <2>3, AddSound
  <2> HIDE DEF moved
  <2>5. Sound(r, vw) /\ (Asking(t) => Asking(r))
    BY <2>4, PushSound, TreeMessageFacts
  <2> HIDE DEF r
  <2>6. OptimizeTree(t, sender, round, ihaves) \in {t, r}
    BY DEF OptimizeTree, r, moved, grafted, up, peer
  <2> QED
    BY <2>5, <2>6
<1> QED
  BY <1>1, <1>2 DEF OptimizeTree

-----------------------------------------------------------------------------
(* The handlers. *)

\* A message that the node has now got is not asked for any more.
LEMMA KeptSound ==
    ASSUME NEW t, NEW vw, Sound(t, vw), NEW id \in Ids, NEW round \in Nat
    PROVE  LET r == [t EXCEPT !.received = @ \cup {id}, !.cache[id] = round] IN
           Sound(r, vw) /\ (Asking(t) => Asking(r)) /\ r.missing = t.missing /\ id \in r.received
<1> DEFINE r == [t EXCEPT !.received = @ \cup {id}, !.cache[id] = round]
<1>1. /\ r \in TreeStates /\ r.received = t.received \cup {id}
      /\ r.eager = t.eager /\ r.lazy = t.lazy /\ r.grafts = t.grafts /\ r.flagged = t.flagged
      /\ r.queue = t.queue /\ r.dispatch = t.dispatch /\ r.missing = t.missing
  BY DEF Sound, TreeStates, Rounds
<1> HIDE DEF r
<1>2. Sound(r, vw) /\ (Asking(t) => Asking(r)) /\ id \in r.received
  BY <1>1 DEF Sound, Served, Announcing, Asking
<1> QED
  BY <1>1, <1>2 DEF r

\* A broadcast keeps a node sound.
LEMMA BroadcastSound ==
    ASSUME NEW t, NEW vw, Sound(t, vw), NEW me, NEW id \in Ids, NEW round \in Rounds
    PROVE  LET r == Broadcast(t, me, id, round) IN Sound(r, vw) /\ (Asking(t) => Asking(r))
<1>1. CASE round = NoRound
  BY <1>1, EagerPushSound DEF Broadcast
<1>2. CASE round # NoRound
  <2> DEFINE kept == [t EXCEPT !.received = @ \cup {id}, !.cache[id] = round]
             lazy == LazyPush(kept, id, round, me)
             r == EagerPush(lazy, me, id, round, me)
  <2>0. round \in Nat
    BY <1>2 DEF Rounds
  <2>1. Sound(kept, vw) /\ (Asking(t) => Asking(kept))
    BY <2>0, KeptSound
  <2> HIDE DEF kept
  <2>2. Sound(lazy, vw) /\ (Asking(t) => Asking(lazy))
    BY <2>0, <2>1, LazyPushSound
  <2> HIDE DEF lazy
  <2>3. Sound(r, vw) /\ (Asking(t) => Asking(r))
    BY <2>2, EagerPushSound
  <2>4. Broadcast(t, me, id, round) = r
    BY <1>2 DEF Broadcast, lazy, kept
  <2> QED
    BY <2>3, <2>4
<1> QED
  BY <1>1, <1>2

\* A message that arrives, new or not, keeps a node sound.
LEMMA OnGossipSound ==
    ASSUME NEW t, NEW vw, Sound(t, vw), NEW me, NEW sender \in Members,
           NEW m, m.id \in Ids, m.round \in Rounds
    PROVE  LET r == OnGossip(t, me, sender, m) IN Sound(r, vw) /\ (Asking(t) => Asking(r))
<1>1. CASE m.id \in t.received
  BY <1>1, AddSound, PushSound, TreeMessageFacts DEF OnGossip
<1>2. CASE m.id \notin t.received /\ m.round = NoRound
  BY <1>2 DEF OnGossip
<1>3. CASE m.id \notin t.received /\ m.round # NoRound
  <2> DEFINE id == m.id
             round == m.round + 1
             kept == [t EXCEPT !.received = @ \cup {id}, !.cache[id] = round]
             eager == EagerPush(kept, me, id, round, sender)
             pushed == LazyPush(eager, id, round, sender)
             found == [pushed EXCEPT !.flagged = @ \ {id}, !.tracked = @ \ {id},
                                     !.missing[id] = <<>>]
             r == OptimizeTree(found, sender, round, t.missing[id])
  <2>0. id \in Ids /\ round \in Nat /\ round \in Rounds
    BY <1>3, SMTT(30) DEF Rounds
  <2>r. OnGossip(t, me, sender, m) = r
    BY <1>3 DEF OnGossip
  <2> HIDE DEF id, round
  <2>1. Sound(kept, vw) /\ (Asking(t) => Asking(kept))
    BY <2>0, KeptSound
  <2> HIDE DEF kept
  <2>2. Sound(eager, vw) /\ (Asking(t) => Asking(eager))
    BY <2>0, <2>1, EagerPushSound
  <2> HIDE DEF eager
  <2>3. Sound(pushed, vw) /\ (Asking(t) => Asking(pushed))
    BY <2>0, <2>2, LazyPushSound
  <2> HIDE DEF pushed
  <2>4. Sound(found, vw) /\ (Asking(t) => Asking(found))
    <3>a. <<>> \in Seq(Announcements)
      BY SMTT(30)
    <3>b. pushed.missing \in [Ids -> Seq(Announcements)]
      BY <2>3 DEF Sound, TreeStates
    <3>0. [pushed.missing EXCEPT ![id] = <<>>] \in [Ids -> Seq(Announcements)]
      BY <3>a, <3>b
    <3>1. /\ found \in TreeStates /\ found.flagged = pushed.flagged \ {id}
          /\ found.missing = [pushed.missing EXCEPT ![id] = <<>>]
          /\ found.eager = pushed.eager /\ found.lazy = pushed.lazy
          /\ found.queue = pushed.queue /\ found.dispatch = pushed.dispatch
          /\ found.grafts = pushed.grafts /\ found.received = pushed.received
      BY <2>0, <2>3, <3>0 DEF Sound, TreeStates
    <3> HIDE DEF found
    <3>2. pushed.missing \in [Ids -> Seq(Announcements)]
      BY <2>3 DEF Sound, TreeStates
    <3> QED
      BY <2>3, <3>1, <3>2, SMTT(30) DEF Sound, Served, Announcing, Asking
  <2> HIDE DEF found
  <2>5. t.missing[id] \in Seq(Announcements)
    BY <2>0 DEF Sound, TreeStates
  <2>6. Sound(r, vw) /\ (Asking(t) => Asking(r))
    BY <2>0, <2>4, <2>5, OptimizeTreeSound
  <2> QED
    BY <2>r, <2>6
<1> QED
  BY <1>1, <1>2, <1>3

\* An announcement that is remembered has a timer.
LEMMA OnIHaveSound ==
    ASSUME NEW t, NEW vw, Sound(t, vw), NEW sender \in Members,
           NEW m, m.id \in Ids, m.round \in Nat
    PROVE  LET r == OnIHave(t, sender, m) IN Sound(r, vw) /\ (Asking(t) => Asking(r))
<1> DEFINE id == m.id
           seen == [t EXCEPT !.tracked = @ \cup {id}]
           entry == [peer |-> sender, round |-> m.round]
           missing == [seen.missing EXCEPT ![id] = Append(@, entry)]
           grafts == [seen.grafts EXCEPT ![id] = IF id \in t.flagged THEN @ ELSE @ + 1]
           r == [seen EXCEPT !.missing = missing, !.flagged = @ \cup {id}, !.grafts = grafts]
<1>0. id \in Ids /\ entry \in Announcements
  BY DEF Announcements
<1>1. OnIHave(t, sender, m) \in {t, seen, r}
  BY DEF OnIHave
<1> HIDE DEF id, entry
<1>2. /\ seen \in TreeStates /\ seen.eager = t.eager /\ seen.lazy = t.lazy
      /\ seen.queue = t.queue /\ seen.dispatch = t.dispatch /\ seen.received = t.received
      /\ seen.missing = t.missing /\ seen.flagged = t.flagged /\ seen.grafts = t.grafts
  BY <1>0 DEF Sound, TreeStates
<1> HIDE DEF seen
<1>3. Sound(seen, vw) /\ (Asking(t) => Asking(seen))
  BY <1>2 DEF Sound, Served, Announcing, Asking
<1>4. Sound(r, vw) /\ (Asking(t) => Asking(r))
  <2>1. missing \in [Ids -> Seq(Announcements)] /\ grafts \in [Ids -> Nat]
    BY <1>0, <1>2, SMTT(30) DEF TreeStates
  <2> HIDE DEF missing, grafts
  <2>2. /\ r \in TreeStates /\ r.eager = seen.eager /\ r.lazy = seen.lazy
        /\ r.queue = seen.queue /\ r.dispatch = seen.dispatch /\ r.received = seen.received
        /\ r.missing = missing /\ r.flagged = seen.flagged \cup {id} /\ r.grafts = grafts
    BY <1>0, <1>2, <2>1 DEF TreeStates
  <2> HIDE DEF r
  <2>3. Sound(r, vw)
    BY <1>3, <2>2 DEF Sound, Served, Announcing
  <2>4. ASSUME Asking(t), NEW k \in Ids
        PROVE  \/ r.grafts[k] > 0
               \/ k \notin r.flagged /\ (k \in r.received \/ r.missing[k] = <<>>)
    <3>1. /\ seen.grafts \in [Ids -> Nat] /\ seen.missing \in [Ids -> Seq(Announcements)]
          /\ seen.grafts = t.grafts /\ seen.flagged = t.flagged
          /\ \/ seen.grafts[k] > 0
             \/ k \notin seen.flagged /\ (k \in seen.received \/ seen.missing[k] = <<>>)
      BY <1>2, <1>3, <2>4 DEF TreeStates, Asking
    <3>2. CASE k = id
      BY <1>0, <2>2, <3>1, <3>2, SMTT(30) DEF grafts
    <3>3. CASE k # id
      BY <1>0, <2>2, <3>1, <3>3 DEF missing, grafts
    <3> QED
      BY <3>2, <3>3
  <2> QED
    BY <2>3, <2>4 DEF Asking
<1> QED
  BY <1>1, <1>3, <1>4

\* When a timer fires there is either nothing left to ask for, or the next one
\* is scheduled.
LEMMA OnSendGraftTimerSound ==
    ASSUME NEW t, NEW vw, Sound(t, vw), NEW id \in Ids, t.grafts[id] > 0
    PROVE  LET r == OnSendGraftTimer(t, id) IN Sound(r, vw) /\ (Asking(t) => Asking(r))
<1> DEFINE fired == [t EXCEPT !.flagged = @ \ {id}, !.grafts[id] = @ - 1]
           peer == Head(t.missing[id]).peer
           asked == [fired EXCEPT !.missing[id] = Tail(@), !.grafts[id] = @ + 1]
           up == AddEager(asked, peer)
           r == Push(up, {peer}, Graft(id))
<1>t. t \in TreeStates /\ t.missing \in [Ids -> Seq(Announcements)] /\ t.grafts \in [Ids -> Nat]
      /\ t.flagged \in SUBSET Ids /\ t.missing[id] \in Seq(Announcements) /\ t.grafts[id] \in Nat
  BY DEF Sound, TreeStates
<1>0. [t.grafts EXCEPT ![id] = @ - 1] \in [Ids -> Nat]
  BY <1>t, SMTT(30)
<1>1. /\ fired \in TreeStates /\ fired.eager = t.eager /\ fired.lazy = t.lazy
      /\ fired.queue = t.queue /\ fired.dispatch = t.dispatch /\ fired.received = t.received
      /\ fired.missing = t.missing /\ fired.flagged = t.flagged \ {id}
      /\ fired.grafts = [t.grafts EXCEPT ![id] = @ - 1]
  BY <1>t, <1>0 DEF TreeStates
<1> HIDE DEF fired
<1>2. Sound(fired, vw)
  BY <1>1 DEF Sound, Served, Announcing
<1>3. CASE id \in t.received \/ t.missing[id] = <<>>
  <2>1. OnSendGraftTimer(t, id) = fired
    BY <1>3 DEF OnSendGraftTimer, fired
  <2>2. Asking(t) => Asking(fired)
    BY <1>t, <1>1, <1>3 DEF Asking
  <2> QED
    BY <1>2, <2>1, <2>2
<1>4. CASE ~(id \in t.received \/ t.missing[id] = <<>>)
  <2>r. OnSendGraftTimer(t, id) = r
    BY <1>4 DEF OnSendGraftTimer, fired
  <2>1. peer \in Members
    <3>1. Head(t.missing[id]) \in Announcements
      BY <1>t, <1>4, SMTT(30)
    <3> QED
      BY <3>1 DEF Announcements
  <2> HIDE DEF peer
  <2>2. /\ [t.missing EXCEPT ![id] = Tail(@)] \in [Ids -> Seq(Announcements)]
        /\ [fired.grafts EXCEPT ![id] = @ + 1] = t.grafts
    BY <1>t, <1>1, <1>4, SMTT(30)
  <2>3. /\ asked \in TreeStates /\ asked.eager = fired.eager /\ asked.lazy = fired.lazy
        /\ asked.queue = fired.queue /\ asked.dispatch = fired.dispatch
        /\ asked.received = t.received /\ asked.flagged = t.flagged \ {id}
        /\ asked.missing = [t.missing EXCEPT ![id] = Tail(@)] /\ asked.grafts = t.grafts
    BY <1>t, <1>1, <2>2 DEF TreeStates
  <2> HIDE DEF asked
  <2>4. Sound(asked, vw)
    BY <1>2, <2>3 DEF Sound, Served, Announcing
  <2>5. Asking(t) => Asking(asked)
    BY <1>t, <2>3 DEF Asking
  <2>6. Sound(up, vw) /\ (Asking(asked) => Asking(up))
    BY <2>1, <2>4, AddSound
  <2> HIDE DEF up
  <2>7. Sound(r, vw) /\ (Asking(up) => Asking(r))
    BY <2>6, PushSound, TreeMessageFacts
  <2> QED
    BY <2>r, <2>5, <2>6, <2>7
<1> QED
  BY <1>3, <1>4

\* A graft keeps a node sound, whether or not it asks for a message.
LEMMA OnGraftSound ==
    ASSUME NEW t, NEW vw, Sound(t, vw), NEW sender \in Members, NEW m
    PROVE  LET r == OnGraft(t, sender, m) IN Sound(r, vw) /\ (Asking(t) => Asking(r))
<1> DEFINE grafted == AddEager(t, sender)
           r == Push(grafted, {sender}, Gossip(m.id, t.cache[m.id]))
<1>1. Sound(grafted, vw) /\ (Asking(t) => Asking(grafted))
  BY AddSound
<1>2. CASE m.id # NoId /\ m.id \in Ids /\ t.cache[m.id] # NoRound
  <2>1. Gossip(m.id, t.cache[m.id]) \in TreeMessages
    BY <1>2, TreeMessageFacts DEF Sound, TreeStates
  <2>2. OnGraft(t, sender, m) = r
    BY <1>2 DEF OnGraft
  <2> HIDE DEF grafted
  <2>3. Sound(r, vw) /\ (Asking(grafted) => Asking(r))
    BY <1>1, <2>1, PushSound
  <2> QED
    BY <1>1, <2>2, <2>3
<1>3. CASE ~(m.id # NoId /\ m.id \in Ids /\ t.cache[m.id] # NoRound)
  <2>1. OnGraft(t, sender, m) = grafted
    BY <1>3 DEF OnGraft
  <2> QED
    BY <1>1, <2>1
<1> QED
  BY <1>2, <1>3

\* The announcements of one peer are taken out; what is empty stays empty.
LEMMA WithoutFacts ==
    ASSUME NEW ihaves \in Seq(Announcements), NEW p
    PROVE  Without(ihaves, p) \in Seq(Announcements) /\ (ihaves = <<>> => Without(ihaves, p) = <<>>)
<1>1. CASE \E i \in DOMAIN ihaves : ihaves[i].peer = p
  <2> DEFINE i == CHOOSE i \in DOMAIN ihaves : ihaves[i].peer = p
             before == SubSeq(ihaves, 1, i - 1)
             after == SubSeq(ihaves, i + 1, Len(ihaves))
  <2>1. i \in 1..Len(ihaves) /\ ihaves # <<>>
    BY <1>1, SMTT(30)
  <2>r. Without(ihaves, p) = before \o after
    BY <1>1 DEF Without
  <2> HIDE DEF i
  <2>2. before \in Seq(Announcements) /\ after \in Seq(Announcements)
    BY <2>1, SMTT(30)
  <2> HIDE DEF before, after
  <2>3. before \o after \in Seq(Announcements)
    BY <2>2, SMTT(30)
  <2> QED
    BY <2>r, <2>1, <2>3
<1>2. CASE ~\E i \in DOMAIN ihaves : ihaves[i].peer = p
  BY <1>2 DEF Without
<1> QED
  BY <1>1, <1>2

\* A peer that is gone is neither pushed to nor asked.
LEMMA OnNeighborDownSound ==
    ASSUME NEW t, NEW vw, Sound(t, vw), NEW p \in Members
    PROVE  LET r == OnNeighborDown(t, p) IN
           Sound(r, vw \ {p}) /\ (Asking(t) => Asking(r)) /\ r.out = t.out
<1> DEFINE left == [id \in Ids |-> Without(t.missing[id], p)]
           tracked == {id \in t.tracked : left[id] # <<>>}
           r == [t EXCEPT !.missing = left, !.tracked = tracked, !.eager = @ \ {p}, !.lazy = @ \ {p}]
<1>t. t \in TreeStates /\ t.missing \in [Ids -> Seq(Announcements)] /\ t.tracked \in SUBSET Ids
  BY DEF Sound, TreeStates
<1>1. /\ left \in [Ids -> Seq(Announcements)]
      /\ \A id \in Ids : t.missing[id] = <<>> => left[id] = <<>>
  BY <1>t, WithoutFacts
<1>r. OnNeighborDown(t, p) = r
  BY DEF OnNeighborDown
<1>2. tracked \in SUBSET Ids
  BY <1>t
<1> HIDE DEF left, tracked
<1>3. /\ r \in TreeStates /\ r.eager = t.eager \ {p} /\ r.lazy = t.lazy \ {p}
      /\ r.queue = t.queue /\ r.dispatch = t.dispatch /\ r.received = t.received
      /\ r.missing = left /\ r.flagged = t.flagged /\ r.grafts = t.grafts /\ r.out = t.out
  BY <1>t, <1>1, <1>2 DEF TreeStates
<1> HIDE DEF r
<1>4. Sound(r, vw \ {p})
  BY <1>3 DEF Sound, Served, Announcing
<1>5. Asking(t) => Asking(r)
  BY <1>1, <1>3 DEF Asking
<1> QED
  BY <1>r, <1>3, <1>4, <1>5

\* When the dispatch timer fires, the queues are emptied.
LEMMA OnDispatchTimerSound ==
    ASSUME NEW t, NEW vw, Sound(t, vw)
    PROVE  LET r == OnDispatchTimer(t) IN Sound(r, vw) /\ (Asking(t) => Asking(r))
<1> DEFINE mail == [p \in Members |-> t.out[p] \o t.queue[p]]
           empty == [p \in Members |-> <<>>]
           r == [t EXCEPT !.out = mail, !.queue = empty, !.dispatch = FALSE]
<1>1. mail \in Mail /\ empty \in Mail
  BY SMTT(30) DEF Sound, TreeStates, Mail
<1>2. \A p \in Members : empty[p] = <<>>
  OBVIOUS
<1>r. OnDispatchTimer(t) = r
  BY DEF OnDispatchTimer
<1> HIDE DEF mail, empty
<1>3. /\ r \in TreeStates /\ r.eager = t.eager /\ r.lazy = t.lazy /\ r.queue = empty
      /\ r.received = t.received /\ r.missing = t.missing /\ r.flagged = t.flagged
      /\ r.grafts = t.grafts
  BY <1>1 DEF Sound, TreeStates
<1> HIDE DEF r
<1>4. Sound(r, vw) /\ (Asking(t) => Asking(r))
  BY <1>2, <1>3 DEF Sound, Served, Announcing, Asking
<1> QED
  BY <1>r, <1>4

\* Eviction leaves the peers and the queues alone.
LEMMA OnEvictCacheTimerSound ==
    ASSUME NEW t, NEW vw, Sound(t, vw), NEW old, NEW older
    PROVE  Sound(OnEvictCacheTimer(t, old, older), vw)
<1> DEFINE cache == [id \in Ids |-> IF id \in old THEN NoRound ELSE t.cache[id]]
           r == [t EXCEPT !.cache = cache, !.received = @ \ older]
<1>1. cache \in [Ids -> Rounds]
  BY DEF Sound, TreeStates, Rounds
<1>r. OnEvictCacheTimer(t, old, older) = r
  BY DEF OnEvictCacheTimer
<1> HIDE DEF cache
<1>2. /\ r \in TreeStates /\ r.eager = t.eager /\ r.lazy = t.lazy
      /\ r.queue = t.queue /\ r.dispatch = t.dispatch
  BY <1>1 DEF Sound, TreeStates
<1> HIDE DEF r
<1>3. Sound(r, vw)
  BY <1>2 DEF Sound, Served, Announcing
<1> QED
  BY <1>r, <1>3

\* Whatever a neighbour sends, the node stays sound for the view it then has.
LEMMA HandleTreeMessageSound ==
    ASSUME NEW t, NEW vw, Sound(t, vw), NEW me, NEW sender \in Members, NEW m \in TreeMessages
    PROVE  LET r == HandleTreeMessage(t, me, sender, m) IN
           /\ Sound(r, CASE m.kind = "Neighbor" -> vw \cup {sender}
                         [] m.kind = "Disconnect" -> vw \ {sender}
                         [] OTHER -> vw)
           /\ Asking(t) => Asking(r)
<1> DEFINE r == HandleTreeMessage(t, me, sender, m)
           next == CASE m.kind = "Neighbor" -> vw \cup {sender}
                     [] m.kind = "Disconnect" -> vw \ {sender}
                     [] OTHER -> vw
<1>1. CASE m \in [kind : {"Gossip"}, id : Ids, round : Rounds]
  <2>1. m.kind = "Gossip" /\ m.id \in Ids /\ m.round \in Rounds
    BY <1>1
  <2>2. r = OnGossip(t, me, sender, m) /\ next = vw
    BY <2>1 DEF HandleTreeMessage
  <2> QED
    BY <2>1, <2>2, OnGossipSound
<1>2. CASE m \in [kind : {"Prune"}]
  <2>1. r = AddLazy(t, sender) /\ next = vw
    BY <1>2 DEF HandleTreeMessage, OnPrune
  <2>2. Sound(AddLazy(t, sender), vw) /\ (Asking(t) => Asking(AddLazy(t, sender)))
    BY AddSound
  <2> QED
    BY <2>1, <2>2
<1>3. CASE m \in [kind : {"IHave"}, id : Ids, round : Nat]
  <2>1. m.kind = "IHave" /\ m.id \in Ids /\ m.round \in Nat
    BY <1>3
  <2>2. r = OnIHave(t, sender, m) /\ next = vw
    BY <2>1 DEF HandleTreeMessage
  <2> QED
    BY <2>1, <2>2, OnIHaveSound
<1>4. CASE m \in [kind : {"Graft"}, id : Ids \cup {NoId}]
  <2>1. r = OnGraft(t, sender, m) /\ next = vw
    BY <1>4 DEF HandleTreeMessage
  <2> QED
    BY <2>1, OnGraftSound
<1>5. CASE m \in [kind : {"Neighbor"}]
  <2>1. r = AddEager(t, sender) /\ next = vw \cup {sender}
    BY <1>5 DEF HandleTreeMessage, OnNeighborUp
  <2> QED
    BY <2>1, AddSound, SMTT(30)
<1>6. CASE m \in [kind : {"Disconnect"}]
  <2>1. r = OnNeighborDown(t, sender) /\ next = vw \ {sender}
    BY <1>6 DEF HandleTreeMessage
  <2> QED
    BY <2>1, OnNeighborDownSound, SMTT(30)
<1> QED
  BY <1>1, <1>2, <1>3, <1>4, <1>5, <1>6 DEF TreeMessages

-----------------------------------------------------------------------------
(* The nodes. *)

TreeTypes ==
    /\ tree \in [Members -> TreeStates]
    /\ view \in [Members -> SUBSET Members]
    /\ wire \in [Members -> Mail]
    /\ used \in [broadcasts : Nat, disturbances : Nat, evictions : Nat]

\* The inductive invariant: the properties with the types they need.
TreeInv ==
    /\ TreeTypes
    /\ \A n \in Members : Sound(tree[n], view[n]) /\ (used.evictions = 0 => Asking(tree[n]))

\* A step of one node keeps the invariant when its handler does.
LEMMA GrowInv ==
    ASSUME TreeInv, NEW n \in Members, NEW t, NEW vw \in SUBSET Members,
           NEW c \in [Members -> Mail], Grow(n, t, c),
           view' = [view EXCEPT ![n] = vw],
           used' \in [broadcasts : Nat, disturbances : Nat, evictions : Nat],
           used'.evictions = 0 => used.evictions = 0 /\ Asking(t),
           Sound(t, vw)
    PROVE  TreeInv'
<1> DEFINE sent == [t EXCEPT !.out = NoMail]
           mail == [p \in Members |-> IF <<n, p>> \in gone THEN c[n][p] ELSE c[n][p] \o t.out[p]]
<1>1. tree' = [tree EXCEPT ![n] = sent] /\ wire' = [c EXCEPT ![n] = mail]
  BY DEF Grow
<1>2. NoMail \in Mail
  BY SMTT(30) DEF NoMail, Mail
<1>3. sent \in TreeStates /\ Mailed(t, sent)
  BY <1>2 DEF Sound, TreeStates, Mailed
<1> HIDE DEF sent
<1>4. Sound(sent, vw) /\ (Asking(t) => Asking(sent))
  BY <1>3, MailedSound
<1>5. mail \in Mail
  BY SMTT(30) DEF Sound, TreeStates, Mail
<1> HIDE DEF mail
<1>6. TreeTypes'
  BY <1>1, <1>3, <1>5 DEF TreeInv, TreeTypes
<1>7. ASSUME NEW k \in Members
      PROVE  Sound(tree'[k], view'[k]) /\ (used'.evictions = 0 => Asking(tree'[k]))
  <2>1. CASE k = n
    <3>1. tree'[k] = sent /\ view'[k] = vw
      BY <1>1, <2>1 DEF TreeInv, TreeTypes
    <3> QED
      BY <1>4, <3>1
  <2>2. CASE k # n
    <3>1. tree'[k] = tree[k] /\ view'[k] = view[k]
      BY <1>1, <2>2 DEF TreeInv, TreeTypes
    <3> QED
      BY <3>1 DEF TreeInv
  <2> QED
    BY <2>1, <2>2
<1> QED
  BY <1>6, <1>7 DEF TreeInv

\* The invariant holds in every tree the overlay starts with,
LEMMA TreeInitInv == TreeInit => TreeInv
<1> SUFFICES ASSUME TreeInit PROVE TreeInv
  OBVIOUS
<1>p. PICK up \in SUBSET Links, pruned \in SUBSET Links :
      /\ pruned \subseteq up
      /\ view = [n \in Members |-> {p \in Members : {n, p} \in up}]
      /\ tree = [n \in Members |-> Planted({p \in Members : {n, p} \in up \ pruned},
                                           {p \in Members : {n, p} \in pruned})]
  BY DEF TreeInit
<1>1. \A eager, lazy \in SUBSET Members :
        /\ Planted(eager, lazy) \in TreeStates
        /\ Planted(eager, lazy).eager = eager /\ Planted(eager, lazy).lazy = lazy
        /\ Asking(Planted(eager, lazy)) /\ Announcing(Planted(eager, lazy))
  <2> TAKE eager, lazy \in SUBSET Members
  <2> DEFINE t == Planted(eager, lazy)
             quiet == [p \in Members |-> <<>>]
             none == [id \in Ids |-> <<>>]
             absent == [id \in Ids |-> NoRound]
             zero == [id \in Ids |-> 0]
  <2>1. /\ quiet \in Mail /\ NoMail \in Mail /\ none \in [Ids -> Seq(Announcements)]
        /\ absent \in [Ids -> Rounds] /\ zero \in [Ids -> Nat]
    BY SMTT(30) DEF Mail, NoMail, Rounds
  <2>2. /\ \A p \in Members : quiet[p] = <<>>
        /\ \A id \in Ids : none[id] = <<>>
    OBVIOUS
  <2>3. t = [eager |-> eager, lazy |-> lazy, queue |-> quiet, tracked |-> {}, missing |-> none,
             received |-> {}, cache |-> absent, flagged |-> {}, grafts |-> zero,
             dispatch |-> FALSE, out |-> NoMail]
    BY DEF Planted
  <2> HIDE DEF quiet, none, absent, zero, t
  <2>4. /\ t \in TreeStates /\ t.eager = eager /\ t.lazy = lazy
        /\ t.queue = quiet /\ t.missing = none /\ t.flagged = {}
    BY <2>1, <2>3 DEF TreeStates
  <2>5. Asking(t) /\ Announcing(t)
    BY <2>2, <2>4 DEF Asking, Announcing
  <2> QED
    BY <2>4, <2>5 DEF t
<1>2. TreeTypes
  <2>1. tree \in [Members -> TreeStates] /\ view \in [Members -> SUBSET Members]
    BY <1>p, <1>1
  <2>2. wire \in [Members -> Mail]
    BY SMTT(30) DEF TreeInit, Mail
  <2>3. used \in [broadcasts : Nat, disturbances : Nat, evictions : Nat]
    BY DEF TreeInit
  <2> QED
    BY <2>1, <2>2, <2>3 DEF TreeTypes
<1>3. ASSUME NEW n \in Members
      PROVE  Sound(tree[n], view[n]) /\ Asking(tree[n])
  <2> DEFINE eager == {p \in Members : {n, p} \in up \ pruned}
             lazy == {p \in Members : {n, p} \in pruned}
  <2>1. tree[n] = Planted(eager, lazy) /\ view[n] = {p \in Members : {n, p} \in up}
    BY <1>p
  <2>2. view[n] = eager \cup lazy /\ eager \cap lazy = {}
    BY <1>p, <2>1
  <2>3. eager \in SUBSET Members /\ lazy \in SUBSET Members
    OBVIOUS
  <2> HIDE DEF eager, lazy
  <2>4. /\ tree[n] \in TreeStates /\ tree[n].eager = eager /\ tree[n].lazy = lazy
        /\ Asking(tree[n]) /\ Announcing(tree[n])
    <3>1. /\ Planted(eager, lazy) \in TreeStates
          /\ Planted(eager, lazy).eager = eager /\ Planted(eager, lazy).lazy = lazy
          /\ Asking(Planted(eager, lazy)) /\ Announcing(Planted(eager, lazy))
      BY <1>1, <2>3
    <3> QED
      BY <2>1, <3>1
  <2> QED
    BY <2>2, <2>3, <2>4 DEF Sound, Served
<1> QED
  BY <1>2, <1>3 DEF TreeInv

\* every step keeps it,
LEMMA TreeNextInv == TreeInv /\ [TreeNext]_treeVars => TreeInv'
<1> SUFFICES ASSUME TreeInv, [TreeNext]_treeVars PROVE TreeInv'
  OBVIOUS
<1> DEFINE Counts == [broadcasts : Nat, disturbances : Nat, evictions : Nat]
<1>t. /\ wire \in [Members -> Mail] /\ used \in Counts
      /\ \A n \in Members : /\ view[n] \in SUBSET Members /\ view = [view EXCEPT ![n] = view[n]]
                            /\ tree[n] \in TreeStates
      /\ \A n, p \in Members : wire[n][p] \in Seq(TreeMessages)
  BY DEF TreeInv, TreeTypes, Mail
<1>s. \A n \in Members : Sound(tree[n], view[n]) /\ (used.evictions = 0 => Asking(tree[n]))
  BY DEF TreeInv
<1>1. ASSUME NEW n \in Members, NEW id \in Ids, NEW round \in {0, NoRound}, DoBroadcast(n, id, round)
      PROVE  TreeInv'
  <2> DEFINE t == Broadcast(tree[n], n, id, round)
  <2>1. Sound(t, view[n]) /\ (Asking(tree[n]) => Asking(t))
    BY <1>s, BroadcastSound DEF Rounds
  <2>2. Grow(n, t, wire) /\ view' = view /\ used' = [used EXCEPT !.broadcasts = @ + 1]
    BY <1>1 DEF DoBroadcast
  <2> HIDE DEF t
  <2>3. used' \in Counts /\ used'.evictions = used.evictions
    BY <1>t, <2>2, SMTT(30)
  <2> QED
    BY <1>t, <1>s, <2>1, <2>2, <2>3, GrowInv
<1>2. ASSUME NEW n \in Members, NEW p \in Members, RecvFrom(n, p)
      PROVE  TreeInv'
  <2> DEFINE m == Head(wire[p][n])
             t == HandleTreeMessage(tree[n], n, p, m)
             vw == CASE m.kind = "Neighbor" -> view[n] \cup {p}
                     [] m.kind = "Disconnect" -> view[n] \ {p}
                     [] OTHER -> view[n]
             c == [wire EXCEPT ![p][n] = Tail(@)]
  <2>0. wire[p][n] # <<>> /\ wire[p] \in Mail
    BY <1>2, <1>t DEF RecvFrom
  <2>1. m \in TreeMessages /\ Tail(wire[p][n]) \in Seq(TreeMessages)
    BY <1>t, <2>0, SMTT(30)
  <2>2. Grow(n, t, c) /\ view' = [view EXCEPT ![n] = vw] /\ used' = used
    BY <1>2, <1>t DEF RecvFrom
  <2>3. vw \in SUBSET Members
    BY <1>t
  <2>4. [wire[p] EXCEPT ![n] = Tail(@)] \in Mail
    BY <1>t, <2>0, <2>1 DEF Mail
  <2>5. c \in [Members -> Mail]
    BY <1>t, <2>4
  <2> HIDE DEF m, c
  <2>6. Sound(t, vw) /\ (Asking(tree[n]) => Asking(t))
    BY <1>s, <2>1, HandleTreeMessageSound
  <2> HIDE DEF t, vw
  <2> QED
    BY <1>t, <1>s, <2>2, <2>3, <2>5, <2>6, GrowInv
<1>3. ASSUME NEW n \in Members, NEW id \in Ids, SendGraft(n, id)
      PROVE  TreeInv'
  <2> DEFINE t == OnSendGraftTimer(tree[n], id)
  <2>1. Sound(t, view[n]) /\ (Asking(tree[n]) => Asking(t))
    BY <1>3, <1>s, OnSendGraftTimerSound DEF SendGraft
  <2>2. Grow(n, t, wire) /\ view' = view /\ used' = used
    BY <1>3 DEF SendGraft
  <2> HIDE DEF t
  <2> QED
    BY <1>t, <1>s, <2>1, <2>2, GrowInv
<1>4. ASSUME NEW n \in Members, DispatchLazyPush(n)
      PROVE  TreeInv'
  <2> DEFINE t == OnDispatchTimer(tree[n])
  <2>1. Sound(t, view[n]) /\ (Asking(tree[n]) => Asking(t))
    BY <1>s, OnDispatchTimerSound
  <2>2. Grow(n, t, wire) /\ view' = view /\ used' = used
    BY <1>4 DEF DispatchLazyPush
  <2> HIDE DEF t
  <2> QED
    BY <1>t, <1>s, <2>1, <2>2, GrowInv
<1>5. ASSUME NEW n \in Members, EvictCache(n)
      PROVE  TreeInv'
  <2>1. PICK old, older \in SUBSET {id \in Ids : id \in tree[n].received} :
          Grow(n, OnEvictCacheTimer(tree[n], old, older), wire)
    BY <1>5 DEF EvictCache
  <2> DEFINE t == OnEvictCacheTimer(tree[n], old, older)
  <2>2. Sound(t, view[n])
    BY <1>s, OnEvictCacheTimerSound
  <2>3. view' = view /\ used' = [used EXCEPT !.disturbances = @ + 1, !.evictions = @ + 1]
    BY <1>5 DEF EvictCache
  <2>4. Grow(n, t, wire)
    BY <2>1
  <2> HIDE DEF t
  <2>n. used.disturbances + 1 \in Nat /\ used.evictions + 1 \in Nat /\ used.evictions + 1 # 0
    BY <1>t, SMTT(30)
  <2>5. used' \in Counts /\ used'.evictions # 0
    BY <1>t, <2>3, <2>n
  <2> QED
    BY <1>t, <2>2, <2>3, <2>4, <2>5, GrowInv
<1>6. ASSUME NEW n \in Members, NEW p \in Members, NeighborUp(n, p)
      PROVE  TreeInv'
  <2> DEFINE up == OnNeighborUp(tree[n], p)
             t == Push(up, {p}, LinkUp)
             vw == view[n] \cup {p}
  <2>1. Sound(up, vw) /\ (Asking(tree[n]) => Asking(up))
    BY <1>s, AddSound DEF OnNeighborUp
  <2>2. Grow(n, t, wire) /\ view' = [view EXCEPT ![n] = vw]
        /\ used' = [used EXCEPT !.disturbances = @ + 1]
    BY <1>6, <1>t DEF NeighborUp
  <2>3. used' \in Counts /\ used'.evictions = used.evictions /\ vw \in SUBSET Members
    BY <1>t, <2>2, SMTT(30)
  <2> HIDE DEF up, vw
  <2>4. Sound(t, vw) /\ (Asking(up) => Asking(t))
    BY <2>1, PushSound, TreeMessageFacts
  <2> HIDE DEF t
  <2> QED
    BY <1>t, <1>s, <2>1, <2>2, <2>3, <2>4, GrowInv
<1>7. ASSUME NEW n \in Members, NEW p \in Members, NeighborDown(n, p)
      PROVE  TreeInv'
  <2> DEFINE down == OnNeighborDown(tree[n], p)
             t == Push(down, {p}, LinkDown)
             vw == view[n] \ {p}
  <2>1. Sound(down, vw) /\ (Asking(tree[n]) => Asking(down))
    BY <1>s, OnNeighborDownSound
  <2>2. Grow(n, t, wire) /\ view' = [view EXCEPT ![n] = vw]
        /\ used' = [used EXCEPT !.disturbances = @ + 1]
    BY <1>7, <1>t DEF NeighborDown
  <2>3. used' \in Counts /\ used'.evictions = used.evictions /\ vw \in SUBSET Members
    BY <1>t, <2>2, SMTT(30)
  <2> HIDE DEF down, vw
  <2>4. Sound(t, vw) /\ (Asking(down) => Asking(t))
    BY <2>1, PushSound, TreeMessageFacts
  <2> HIDE DEF t
  <2> QED
    BY <1>t, <1>s, <2>1, <2>2, <2>3, <2>4, GrowInv
<1>8. ASSUME NEW n \in Members, NEW p \in Members, LinkLost(n, p)
      PROVE  TreeInv'
  <2> DEFINE c == [wire EXCEPT ![n][p] = <<>>]
             d == [c EXCEPT ![p][n] = <<>>]
  <2>0. <<>> \in Seq(TreeMessages)
    BY SMTT(30)
  <2>1. [wire[n] EXCEPT ![p] = <<>>] \in Mail
    BY <1>t, <2>0 DEF Mail
  <2>2. c \in [Members -> Mail]
    BY <1>t, <2>1
  <2> HIDE DEF c
  <2>3. [c[p] EXCEPT ![n] = <<>>] \in Mail
    BY <2>0, <2>2 DEF Mail
  <2>4. d \in [Members -> Mail]
    BY <2>2, <2>3
  <2>5. wire' = d
    BY <1>8 DEF LinkLost, c
  <2> HIDE DEF d
  <2>6. tree' = tree /\ view' = view /\ used' = [used EXCEPT !.disturbances = @ + 1]
    BY <1>8 DEF LinkLost
  <2>7. used' \in Counts /\ used'.evictions = used.evictions
    BY <1>t, <2>6, SMTT(30)
  <2> QED
    BY <2>4, <2>5, <2>6, <2>7 DEF TreeInv, TreeTypes
<1>9. ASSUME NEW n \in Members, NEW p \in Members, LinkClosed(n, p)
      PROVE  TreeInv'
  <2> DEFINE t == OnNeighborDown(tree[n], p)
             vw == view[n] \ {p}
  <2>1. Sound(t, vw) /\ (Asking(tree[n]) => Asking(t)) /\ t \in TreeStates
    BY <1>s, OnNeighborDownSound DEF Sound
  <2>2. /\ tree' = [tree EXCEPT ![n] = t] /\ view' = [view EXCEPT ![n] = vw]
        /\ wire' = wire /\ used' = used
    BY <1>9, <1>t DEF LinkClosed, TreeInv, TreeTypes
  <2>3. vw \in SUBSET Members
    BY <1>t
  <2> HIDE DEF t, vw
  <2>4. TreeTypes'
    BY <2>1, <2>2, <2>3 DEF TreeInv, TreeTypes
  <2>5. \A k \in Members : \/ k = n /\ tree'[k] = t /\ view'[k] = vw
                           \/ k # n /\ tree'[k] = tree[k] /\ view'[k] = view[k]
    BY <2>2 DEF TreeInv, TreeTypes
  <2> QED
    BY <1>s, <2>1, <2>2, <2>4, <2>5 DEF TreeInv
<1>10. CASE UNCHANGED treeVars
  BY <1>10 DEF treeVars, TreeInv, TreeTypes
<1> QED
  BY <1>1, <1>2, <1>3, <1>4, <1>5, <1>6, <1>7, <1>8, <1>9, <1>10 DEF TreeNext

\* and so it holds always.
LEMMA TreeInvariant == TreeSpec => []TreeInv
  BY TreeInitInv, TreeNextInv, PTL DEF TreeSpec

\* Whatever prunes, grafts, optimizations and link changes cross on the way, a
\* neighbour is an eager or a lazy peer, never neither and never both.
THEOREM AlwaysServed == TreeSpec => []NeighborsServed
<1>1. TreeInv => NeighborsServed
  BY DEF TreeInv, Sound, Served, NeighborsServed
<1> QED
  BY <1>1, TreeInvariant, PTL

\* What was announced and has not come has a SendGraft timer, as long as there
\* is a peer to ask and nothing has expired.
THEOREM AlwaysAsked == TreeSpec => []GraftPending
<1>1. TreeInv => GraftPending
  BY SMTT(30) DEF TreeInv, TreeTypes, Asking, GraftPending
<1> QED
  BY <1>1, TreeInvariant, PTL

\* What is queued for lazy peers has a dispatch timer.
THEOREM AlwaysDispatched == TreeSpec => []DispatchPending
<1>1. TreeInv => DispatchPending
  BY DEF TreeInv, Sound, Announcing, DispatchPending
<1> QED
  BY <1>1, TreeInvariant, PTL

-----------------------------------------------------------------------------
(* HyParView. *)

\* A message that may be sent to p: no random walk comes to the node it is about.
SafeMessages(p) ==
    {m \in Messages : /\ m.kind = "ForwardJoin" => m.peer # p
                      /\ m.kind = "Shuffle" => m.origin # p}

Outs == [mail : [Nodes -> Seq(Messages)], drop : SUBSET Nodes, up : SUBSET Nodes,
         down : SUBSET Nodes, timer : SUBSET Nodes]
States == [active : SUBSET Nodes, passive : SUBSET Nodes, pending : SUBSET Nodes,
           alive : SUBSET Nodes, out : Outs]

Views(t, me) ==
    /\ t.active \cap t.passive = {}
    /\ me \notin t.active \cup t.passive
    /\ Cardinality(t.active) <= ActiveCap
    /\ Cardinality(t.passive) <= PassiveCap
Posted(t) == \A p \in Nodes : t.out.mail[p] \in Seq(SafeMessages(p))
\* The active view is the one the handler began with, changed as it reports.
Reported(t, was) == t.active = (was \ t.out.down) \cup t.out.up
Good(t, me, was) == t \in States /\ Views(t, me) /\ Posted(t) /\ Reported(t, was)

-----------------------------------------------------------------------------
(* What the helpers that push do to a state. *)

\* Send appends to the mail of the peers it is for, and changes nothing else.
LEMMA SendFacts ==
    ASSUME NEW t \in States, NEW ps, NEW m \in Messages
    PROVE  LET r == Send(t, ps, m) IN
           /\ r \in States
           /\ r.active = t.active /\ r.passive = t.passive
           /\ r.pending = t.pending /\ r.alive = t.alive
           /\ r.out.up = t.out.up /\ r.out.down = t.out.down
           /\ r.out.mail = [p \in Nodes |-> IF p \in ps THEN Append(t.out.mail[p], m)
                                            ELSE t.out.mail[p]]
<1>1. DEFINE mail == [p \in Nodes |-> IF p \in ps THEN Append(t.out.mail[p], m)
                                      ELSE t.out.mail[p]]
<1>2. mail \in [Nodes -> Seq(Messages)]
  BY SMTT(30) DEF States, Outs
<1>3. Send(t, ps, m) = [t EXCEPT !.out.mail = mail]
  BY DEF Send
<1>4. HIDE DEF mail
<1>5. [t EXCEPT !.out.mail = mail] \in States
  BY <1>2 DEF States, Outs
<1>6. LET r == [t EXCEPT !.out.mail = mail] IN
      /\ r.active = t.active /\ r.passive = t.passive
      /\ r.pending = t.pending /\ r.alive = t.alive
      /\ r.out.up = t.out.up /\ r.out.down = t.out.down
      /\ r.out.mail = mail
  BY DEF States, Outs
<1>7. QED
  BY <1>3, <1>5, <1>6 DEF mail

\* Sending what may be sent keeps a state good (push_back of SendMessage).
LEMMA SendGood ==
    ASSUME NEW t, NEW me, NEW was, Good(t, me, was), NEW ps, NEW m \in Messages,
           \A p \in ps : m \in SafeMessages(p)
    PROVE  LET r == Send(t, ps, m) IN
           /\ Good(r, me, was)
           /\ r.active = t.active /\ r.passive = t.passive
           /\ r.pending = t.pending /\ r.alive = t.alive /\ r.out.up = t.out.up
<1>1. t \in States
  BY DEF Good
<1>2. DEFINE r == Send(t, ps, m)
<1>3. /\ r \in States
      /\ r.active = t.active /\ r.passive = t.passive
      /\ r.pending = t.pending /\ r.alive = t.alive
      /\ r.out.up = t.out.up /\ r.out.down = t.out.down
      /\ r.out.mail = [p \in Nodes |-> IF p \in ps THEN Append(t.out.mail[p], m)
                                       ELSE t.out.mail[p]]
  BY <1>1, SendFacts, SMTT(30)
<1>4. HIDE DEF r
<1>5. Posted(r)
  BY <1>3, SMTT(30) DEF Good, Posted
<1>6. Views(r, me) /\ Reported(r, was)
  BY <1>3 DEF Good, Views, Reported
<1>7. QED
  BY <1>3, <1>5, <1>6 DEF Good, r

\* Dropping a connection and scheduling a timer keep a state good.
LEMMA PushGood ==
    ASSUME NEW t, NEW me, NEW was, Good(t, me, was), NEW p \in Nodes
    PROVE  \A r \in {Drop(t, p), Timer(t, p)} :
             /\ Good(r, me, was)
             /\ r.active = t.active /\ r.passive = t.passive
             /\ r.pending = t.pending /\ r.alive = t.alive /\ r.out.up = t.out.up
<1>1. TAKE r \in {Drop(t, p), Timer(t, p)}
<1>2. t \in States
  BY DEF Good
<1>3. /\ r \in States
      /\ r.active = t.active /\ r.passive = t.passive
      /\ r.pending = t.pending /\ r.alive = t.alive
      /\ r.out.up = t.out.up /\ r.out.down = t.out.down /\ r.out.mail = t.out.mail
  <2>1. CASE r = Drop(t, p)
    BY <1>2, <2>1 DEF Drop, States, Outs
  <2>2. CASE r = Timer(t, p)
    BY <1>2, <2>2 DEF Timer, States, Outs
  <2>3. QED
    BY <1>1, <2>1, <2>2
<1>4. QED
  BY <1>3 DEF Good, Views, Posted, Reported

\* The kinds of message, each in Messages, and which are safe for everyone.
LEMMA MessageFacts ==
    /\ Join \in Messages /\ \A p : Join \in SafeMessages(p)
    /\ \A pr \in {"low", "high"} : Neighbor(pr) \in Messages
                                   /\ \A p : Neighbor(pr) \in SafeMessages(p)
    /\ \A b \in BOOLEAN : Disconnect(b) \in Messages /\ \A p : Disconnect(b) \in SafeMessages(p)
    /\ \A S \in SUBSET Nodes : ShuffleReply(S) \in Messages
                               /\ \A p : ShuffleReply(S) \in SafeMessages(p)
    /\ \A q \in Nodes, ttl \in 0..ARWL :
          ForwardJoin(q, ttl) \in Messages /\ \A p : p # q => ForwardJoin(q, ttl) \in SafeMessages(p)
    /\ \A q \in Nodes, S \in SUBSET Nodes, ttl \in 0..SRWL :
          Shuffle(q, S, ttl) \in Messages /\ \A p : p # q => Shuffle(q, S, ttl) \in SafeMessages(p)
BY DEF Messages, SafeMessages, Join, Neighbor, Disconnect, ShuffleReply, ForwardJoin, Shuffle

-----------------------------------------------------------------------------
(* Helpers of the handlers. *)

\* Every set of nodes is finite.
LEMMA NodesFinite ==
    \A S \in SUBSET Nodes : IsFiniteSet(S) /\ Cardinality(S) \in Nat
BY NodesAssumption, FS_Subset, FS_CardinalityType

\* shuffled_and_capped returns at most as many as asked for, of those given.
LEMMA CappedFacts ==
    ASSUME NEW S \in SUBSET Nodes, NEW n \in Nat, NEW T \in Capped(S, n)
    PROVE  T \subseteq S /\ Cardinality(T) <= n
BY NodesFinite, SMTT(30) DEF Capped, Lesser

\* A Neighbor request keeps a state good.
LEMMA SendNeighborGood ==
    ASSUME NEW t, NEW me, NEW was, Good(t, me, was), NEW p \in Nodes, NEW pr \in {"low", "high"}
    PROVE  LET r == SendNeighbor(t, p, pr) IN
           /\ Good(r, me, was)
           /\ r.active = t.active /\ r.passive = t.passive /\ r.out.up = t.out.up
<1>1. CASE p \in t.pending
  BY <1>1 DEF SendNeighbor
<1>2. CASE p \notin t.pending
  <2>1. DEFINE q == [t EXCEPT !.pending = @ \cup {p}]
  <2>2. /\ q \in States /\ q.active = t.active /\ q.passive = t.passive /\ q.out = t.out
    BY DEF Good, States
  <2>3. HIDE DEF q
  <2>4. Good(q, me, was)
    BY <2>2 DEF Good, Views, Posted, Reported
  <2>5. Neighbor(pr) \in Messages /\ \A x \in {p} : Neighbor(pr) \in SafeMessages(x)
    BY MessageFacts
  <2>6. LET r == Send(q, {p}, Neighbor(pr)) IN
        Good(r, me, was) /\ r.active = q.active /\ r.passive = q.passive /\ r.out.up = q.out.up
    BY <2>4, <2>5, SendGood, SMTT(30)
  <2>7. SendNeighbor(t, p, pr) = Send(q, {p}, Neighbor(pr))
    BY <1>2 DEF SendNeighbor, q
  <2>8. QED
    BY <2>2, <2>6, <2>7
<1>3. QED
  BY <1>1, <1>2

\* add_passive touches the passive view alone, and keeps a state good.
LEMMA AddPassiveGood ==
    ASSUME NEW t, NEW me, NEW was, Good(t, me, was), NEW ps \in SUBSET Nodes,
           NEW r \in AddPassive(t, me, ps)
    PROVE  /\ Good(r, me, was)
           /\ r.active = t.active /\ r.pending = t.pending /\ r.alive = t.alive /\ r.out = t.out
<1>1. DEFINE new == ps \ (t.active \cup {me})
<1>2. CASE new \subseteq t.passive
  BY <1>2 DEF AddPassive
<1>3. CASE ~ (new \subseteq t.passive)
  <2>1. PICK q \in Capped(t.passive \cup new, PassiveCap) : r = [t EXCEPT !.passive = q]
    BY <1>3 DEF AddPassive
  <2>2. t \in States
    BY DEF Good
  <2>3. t.passive \cup new \in SUBSET Nodes
    BY <2>2 DEF States
  <2>4. q \subseteq t.passive \cup new /\ Cardinality(q) <= PassiveCap
    BY <2>1, <2>3, CappedFacts, CapsAssumption
  <2>5. /\ r \in States /\ r.passive = q /\ r.active = t.active
        /\ r.pending = t.pending /\ r.alive = t.alive /\ r.out = t.out
    BY <2>1, <2>2, <2>3, <2>4 DEF States
  <2>6. Views(r, me)
    BY <2>4, <2>5 DEF Views, Good
  <2>7. QED
    BY <2>5, <2>6 DEF Good, Posted, Reported
<1>4. QED
  BY <1>2, <1>3

\* What a shuffle reply names are nodes.
LEMMA ReplyNodesFacts ==
    ASSUME NEW active \in SUBSET Nodes, NEW passive \in SUBSET Nodes, NEW len \in Nat
    PROVE  ReplyNodes(active, passive, len) \subseteq SUBSET Nodes
<1>1. Cardinality(passive) \in Nat
  BY NodesFinite
<1>2. CASE Cardinality(passive) >= len
  BY <1>2, CappedFacts DEF ReplyNodes
<1>3. CASE ~ (Cardinality(passive) >= len)
  <2>1. len - Cardinality(passive) \in Nat
    BY <1>1, <1>3, SMTT(30)
  <2>2. \A a \in Capped(active, len - Cardinality(passive)) : a \subseteq active
    BY <2>1, CappedFacts
  <2>3. QED
    BY <1>3, <2>2 DEF ReplyNodes
<1>4. QED
  BY <1>2, <1>3

\* send_shuffle_reply keeps a state good.
LEMMA SendShuffleReplyGood ==
    ASSUME NEW t, NEW me, NEW was, Good(t, me, was), NEW to \in Nodes, NEW len \in Nat,
           NEW r \in SendShuffleReply(t, to, len)
    PROVE  /\ Good(r, me, was)
           /\ r.active = t.active /\ r.passive = t.passive
           /\ r.pending = t.pending /\ r.alive = t.alive /\ r.out.up = t.out.up
<1>1. t.active \in SUBSET Nodes /\ t.passive \in SUBSET Nodes
  BY DEF Good, States
<1>2. PICK nodes \in ReplyNodes(t.active, t.passive, len) : r = Send(t, {to}, ShuffleReply(nodes))
  BY DEF SendShuffleReply
<1>3. nodes \in SUBSET Nodes
  BY <1>1, <1>2, ReplyNodesFacts
<1>4. ShuffleReply(nodes) \in Messages /\ \A p \in {to} : ShuffleReply(nodes) \in SafeMessages(p)
  BY <1>3, MessageFacts
<1>5. QED
  BY <1>2, <1>4, SendGood, SMTT(30)

\* send_disconnect keeps a state good.
LEMMA SendDisconnectGood ==
    ASSUME NEW t, NEW me, NEW was, Good(t, me, was), NEW p \in Nodes, NEW alive \in BOOLEAN,
           NEW r \in SendDisconnect(t, p, alive)
    PROVE  /\ Good(r, me, was)
           /\ r.active = t.active /\ r.passive = t.passive
           /\ r.pending = t.pending /\ r.alive = t.alive /\ r.out.up = t.out.up
<1>1. PICK q \in SendShuffleReply(t, p, ShuffleActive + ShufflePassive) :
         r = Drop(Send(q, {p}, Disconnect(alive)), p)
  BY DEF SendDisconnect
<1>2. ShuffleActive + ShufflePassive \in Nat
  BY CapsAssumption, SMTT(30)
<1>3. /\ Good(q, me, was)
      /\ q.active = t.active /\ q.passive = t.passive
      /\ q.pending = t.pending /\ q.alive = t.alive /\ q.out.up = t.out.up
  BY <1>1, <1>2, SendShuffleReplyGood, SMTT(30)
<1>4. Disconnect(alive) \in Messages /\ \A x \in {p} : Disconnect(alive) \in SafeMessages(x)
  BY MessageFacts
<1>5. DEFINE s == Send(q, {p}, Disconnect(alive))
<1>6. /\ Good(s, me, was)
      /\ s.active = q.active /\ s.passive = q.passive
      /\ s.pending = q.pending /\ s.alive = q.alive /\ s.out.up = q.out.up
  BY <1>3, <1>4, SendGood, SMTT(30)
<1>7. HIDE DEF s
<1>8. r = Drop(s, p)
  BY <1>1 DEF s
<1>9. QED
  BY <1>3, <1>6, <1>8, PushGood, SMTT(30)

\* refill_active_from_passive sends at most a request, and leaves the views alone.
LEMMA RefillGood ==
    ASSUME NEW t, NEW me, NEW was, Good(t, me, was), NEW skip, NEW r \in Refill(t, skip)
    PROVE  Good(r, me, was) /\ r.active = t.active /\ r.out.up = t.out.up
<1>1. CASE r = t
  BY <1>1
<1>2. CASE r # t
  <2>1. PICK p \in t.passive, pr \in {"low", "high"} : r = Timer(SendNeighbor(t, p, pr), p)
    BY <1>2 DEF Refill
  <2>2. p \in Nodes
    BY DEF Good, States
  <2>3. LET q == SendNeighbor(t, p, pr) IN
        Good(q, me, was) /\ q.active = t.active /\ q.out.up = t.out.up
    BY <2>2, SendNeighborGood
  <2>4. QED
    BY <2>1, <2>2, <2>3, PushGood
<1>3. QED
  BY <1>1, <1>2

\* remove_active_by_index takes one peer out of the active view and reports it;
\* the handlers remove before they report a peer as up.
LEMMA RemoveByIndexGood ==
    ASSUME NEW t, NEW me, NEW was, Good(t, me, was), t.out.up = {}, NEW p \in t.active,
           NEW reason, NEW r \in RemoveActiveByIndex(t, me, p, reason)
    PROVE  Good(r, me, was) /\ r.active = t.active \ {p} /\ r.out.up = {}
<1>1. t \in States /\ p \in Nodes /\ t.active \in SUBSET Nodes
  BY DEF Good, States
<1>2. DEFINE away == Down([t EXCEPT !.active = @ \ {p}], p)
             told == IF reason = "random" THEN SendDisconnect(away, p, TRUE)
                     ELSE {Drop(away, p)}
<1>3. /\ away \in States
      /\ away.active = t.active \ {p} /\ away.passive = t.passive
      /\ away.out.up = {} /\ away.out.down = t.out.down \cup {p} /\ away.out.mail = t.out.mail
  BY <1>1 DEF Down, States, Outs
<1>4. HIDE DEF away
<1>5. Cardinality(away.active) <= ActiveCap
  BY <1>1, <1>3, NodesFinite, FS_RemoveElement, CapsAssumption, SMTT(30) DEF Good, Views
<1>6. Good(away, me, was)
  BY <1>3, <1>5 DEF Good, Views, Posted, Reported
<1>7. \A q \in told : Good(q, me, was) /\ q.active = t.active \ {p} /\ q.out.up = {}
  <2>1. TAKE q \in told
  <2>2. CASE q \in SendDisconnect(away, p, TRUE)
    <3>1. DEFINE yes == TRUE
    <3>2. yes \in BOOLEAN /\ q \in SendDisconnect(away, p, yes)
      BY <2>2
    <3>3. HIDE DEF yes, told
    <3>4. Good(q, me, was) /\ q.active = away.active /\ q.out.up = away.out.up
      BY <1>1, <1>6, <3>2, SendDisconnectGood, SMTT(30)
    <3>5. QED
      BY <1>3, <3>4
  <2>3. CASE q = Drop(away, p)
    <3>1. Good(q, me, was) /\ q.active = away.active /\ q.out.up = away.out.up
      BY <1>1, <1>6, <2>3, PushGood
    <3>2. QED
      BY <1>3, <3>1
  <2>4. QED
    BY <2>1, <2>2, <2>3
<1>8. HIDE DEF told
<1>9. \E q, a :
        /\ q \in told \/ \E x \in told : q \in AddPassive(x, me, {p})
        /\ a \in {q.alive, q.alive \ {p}, q.alive \cup {p}}
        /\ r = [q EXCEPT !.alive = a]
  <2>1. DEFINE keep == reason \in {"random", "alive"} \/ (reason = "closed" /\ p \in t.alive)
               mark(q) == [q EXCEPT !.alive = IF reason = "closed" THEN @ \ {p}
                                              ELSE IF keep THEN @ \cup {p} ELSE @]
               kept == UNION {AddPassive(q, me, {p}) : q \in told}
  <2>2. RemoveActiveByIndex(t, me, p, reason)
           = IF keep THEN {mark(q) : q \in kept} ELSE {mark(q) : q \in told}
    BY DEF RemoveActiveByIndex, told, away
  <2>3. \E q \in kept \cup told : r = mark(q)
    <3>1. HIDE DEF keep, mark, kept
    <3>2. CASE keep
      BY <2>2, <3>2
    <3>3. CASE ~ keep
      BY <2>2, <3>3
    <3>4. QED
      BY <3>2, <3>3
  <2>4. PICK q \in kept \cup told : r = mark(q)
    BY <2>3
  <2>5. DEFINE a == IF reason = "closed" THEN q.alive \ {p}
                    ELSE IF keep THEN q.alive \cup {p} ELSE q.alive
  <2>6. r = [q EXCEPT !.alive = a]
    BY <2>4
  <2>7. a \in {q.alive, q.alive \ {p}, q.alive \cup {p}}
    OBVIOUS
  <2>8. q \in told \/ \E x \in told : q \in AddPassive(x, me, {p})
    BY <2>4
  <2>9. QED
    BY <2>6, <2>7, <2>8
<1>10. PICK q, a :
        /\ q \in told \/ \E x \in told : q \in AddPassive(x, me, {p})
        /\ a \in {q.alive, q.alive \ {p}, q.alive \cup {p}}
        /\ r = [q EXCEPT !.alive = a]
  BY <1>9
<1>11. Good(q, me, was) /\ q.active = t.active \ {p} /\ q.out.up = {}
  <2>1. CASE q \in told
    BY <1>7, <2>1
  <2>2. ASSUME NEW x \in told, q \in AddPassive(x, me, {p})
        PROVE  Good(q, me, was) /\ q.active = t.active \ {p} /\ q.out.up = {}
    <3>1. Good(x, me, was) /\ x.active = t.active \ {p} /\ x.out.up = {}
      BY <1>7
    <3>2. {p} \in SUBSET Nodes
      BY <1>1
    <3>3. QED
      BY <2>2, <3>1, <3>2, AddPassiveGood, SMTT(30)
  <2>3. QED
    BY <1>10, <2>1, <2>2
<1>12. q \in States /\ a \in SUBSET Nodes
  BY <1>1, <1>10, <1>11 DEF Good, States
<1>13. /\ r \in States /\ r.active = q.active /\ r.passive = q.passive /\ r.out = q.out
  BY <1>10, <1>12 DEF States
<1>14. QED
  BY <1>11, <1>13 DEF Good, Views, Posted, Reported

\* remove_active: a removal, then perhaps a request to a passive peer.
LEMMA RemoveActiveGood ==
    ASSUME NEW t, NEW me, NEW was, Good(t, me, was), t.out.up = {}, NEW p \in t.active,
           NEW reason, NEW r \in RemoveActive(t, me, p, reason)
    PROVE  Good(r, me, was)
BY RemoveByIndexGood, RefillGood, SMTT(30) DEF RemoveActive

\* add_active_unchecked keeps a state good where there is room for one more.
LEMMA AddUncheckedGood ==
    ASSUME NEW t, NEW me, NEW was, Good(t, me, was), NEW p \in Nodes, p # me, p \notin t.active,
           Cardinality(t.active) < ActiveCap, NEW pr \in {"low", "high"}, NEW reply \in BOOLEAN
    PROVE  LET r == AddActiveUnchecked(t, p, pr, reply) IN
           Good(r, me, was) /\ r.active = t.active \cup {p}
<1>1. t \in States /\ t.active \in SUBSET Nodes /\ t.passive \in SUBSET Nodes
  BY DEF Good, States
<1>2. DEFINE added == Up([t EXCEPT !.passive = @ \ {p}, !.active = @ \cup {p}], p)
<1>3. /\ added \in States
      /\ added.active = t.active \cup {p} /\ added.passive = t.passive \ {p}
      /\ added.out.up = t.out.up \cup {p} /\ added.out.down = t.out.down
      /\ added.out.mail = t.out.mail
  BY <1>1 DEF Up, States, Outs
<1>4. HIDE DEF added
<1>5. Cardinality(added.active) <= ActiveCap
  BY <1>1, <1>3, NodesFinite, FS_AddElement, CapsAssumption, SMTT(30)
<1>6. Cardinality(added.passive) <= PassiveCap
  <2>1. Cardinality(t.passive \ {p}) <= Cardinality(t.passive)
    BY <1>1, NodesFinite, FS_Subset
  <2>2. Cardinality(t.passive) \in Nat /\ Cardinality(t.passive \ {p}) \in Nat
    BY <1>1, NodesFinite
  <2>3. QED
    BY <1>3, <2>1, <2>2, CapsAssumption, SMTT(30) DEF Good, Views
<1>7. Good(added, me, was)
  BY <1>3, <1>5, <1>6 DEF Good, Views, Posted, Reported
<1>8. QED
  BY <1>3, <1>7, SendNeighborGood, SMTT(30) DEF AddActiveUnchecked, added

\* add_active keeps a state good: an eviction makes room where there is none.
LEMMA AddActiveGood ==
    ASSUME NEW t, NEW me, NEW was, Good(t, me, was), t.out.up = {}, NEW p \in Nodes, p # me,
           NEW pr \in {"low", "high"}, NEW reply \in BOOLEAN, NEW r \in AddActive(t, me, p, pr, reply)
    PROVE  Good(r, me, was)
<1>1. t \in States /\ t.active \in SUBSET Nodes
  BY DEF Good, States
<1>2. Cardinality(t.active) \in Nat /\ IsFiniteSet(t.active)
  BY <1>1, NodesFinite
<1>3. CASE p \in t.active
  BY <1>3, SendNeighborGood, SMTT(30) DEF AddActive
<1>4. CASE p \notin t.active /\ ActiveIsFull(t)
  <2>1. PICK q \in t.active : \E s \in RemoveActiveByIndex(t, me, q, "random") :
           r = AddActiveUnchecked(s, p, pr, reply)
    BY <1>4 DEF AddActive
  <2>2. PICK s \in RemoveActiveByIndex(t, me, q, "random") :
           r = AddActiveUnchecked(s, p, pr, reply)
    BY <2>1
  <2>3. Good(s, me, was) /\ s.active = t.active \ {q}
    BY <2>2, RemoveByIndexGood, SMTT(30)
  <2>4. Cardinality(s.active) < ActiveCap
    <3>1. Cardinality(t.active \ {q}) = Cardinality(t.active) - 1
      BY <1>2, <2>1, FS_RemoveElement
    <3>2. Cardinality(t.active) <= ActiveCap
      BY DEF Good, Views
    <3>3. QED
      BY <1>2, <2>3, <3>1, <3>2, CapsAssumption, SMTT(30)
  <2>5. p \notin s.active
    BY <1>4, <2>3
  <2>6. QED
    BY <2>2, <2>3, <2>4, <2>5, AddUncheckedGood
<1>5. CASE p \notin t.active /\ ~ ActiveIsFull(t)
  <2>1. r = AddActiveUnchecked(t, p, pr, reply)
    BY <1>5 DEF AddActive
  <2>2. Cardinality(t.active) < ActiveCap
    BY <1>2, <1>5, CapsAssumption, SMTT(30) DEF ActiveIsFull
  <2>3. QED
    BY <1>5, <2>1, <2>2, AddUncheckedGood
<1>6. QED
  BY <1>3, <1>4, <1>5

\* A state with the same active view and no more passive peers is as good.
LEMMA ForgetGood ==
    ASSUME NEW t, NEW me, NEW was, Good(t, me, was), NEW r \in States,
           r.active = t.active, r.passive \subseteq t.passive, r.out = t.out
    PROVE  Good(r, me, was)
<1>1. t.passive \in SUBSET Nodes /\ r.passive \in SUBSET Nodes
  BY DEF Good, States
<1>2. Cardinality(r.passive) <= PassiveCap
  <2>1. Cardinality(r.passive) <= Cardinality(t.passive)
    BY <1>1, NodesFinite, FS_Subset
  <2>2. Cardinality(t.passive) \in Nat /\ Cardinality(r.passive) \in Nat
    BY <1>1, NodesFinite
  <2>3. QED
    BY <2>1, <2>2, CapsAssumption, SMTT(30) DEF Good, Views
<1>3. QED
  BY <1>2 DEF Good, Views, Posted, Reported

\* A request that is answered is no longer pending.
LEMMA AnsweredGood ==
    ASSUME NEW t, NEW me, NEW was, Good(t, me, was), NEW p
    PROVE  LET r == [t EXCEPT !.pending = @ \ {p}] IN
           /\ Good(r, me, was)
           /\ r.active = t.active /\ r.passive = t.passive /\ r.alive = t.alive /\ r.out = t.out
<1>1. t \in States
  BY DEF Good
<1>2. DEFINE r == [t EXCEPT !.pending = @ \ {p}]
<1>3. /\ r \in States
      /\ r.active = t.active /\ r.passive = t.passive /\ r.alive = t.alive /\ r.out = t.out
  BY <1>1 DEF States
<1>4. HIDE DEF r
<1>5. Good(r, me, was)
  BY <1>3, ForgetGood
<1>6. QED
  BY <1>3, <1>5 DEF r

-----------------------------------------------------------------------------
(* The handlers: each keeps a state good. *)

\* on_join: the walk that introduces a node is not sent to it.
LEMMA OnJoinGood ==
    ASSUME NEW t, NEW me, NEW was, Good(t, me, was), t.out.up = {}, NEW p \in Nodes,
           NEW r \in OnJoin(t, me, p)
    PROVE  Good(r, me, was)
<1>1. DEFINE yes == TRUE
             added == IF Refuses(t, me, p, "high") THEN {t} ELSE AddActive(t, me, p, "high", yes)
<1>2. PICK q \in added : r = Send(q, q.active \ {p}, ForwardJoin(p, ARWL))
  BY DEF OnJoin
<1>3. yes \in BOOLEAN
  OBVIOUS
<1>4. HIDE DEF yes
<1>5. Good(q, me, was)
  <2>1. CASE Refuses(t, me, p, "high")
    BY <1>2, <2>1
  <2>2. CASE ~ Refuses(t, me, p, "high")
    <3>1. q \in AddActive(t, me, p, "high", yes)
      BY <1>2, <2>2
    <3>2. p # me
      BY <2>2 DEF Refuses
    <3>3. "high" \in {"low", "high"}
      OBVIOUS
    <3>4. QED
      BY <1>3, <3>1, <3>2, <3>3, AddActiveGood
  <2>3. QED
    BY <2>1, <2>2
<1>6. /\ ForwardJoin(p, ARWL) \in Messages
      /\ \A x \in q.active \ {p} : ForwardJoin(p, ARWL) \in SafeMessages(x)
  BY MessageFacts, CapsAssumption, SMTT(30)
<1>7. QED
  BY <1>2, <1>5, <1>6, SendGood

\* on_forward_join: the walk goes on to an active peer, which the new node is not.
LEMMA OnForwardJoinGood ==
    ASSUME NEW t, NEW me, NEW was, Good(t, me, was), NEW from, NEW p \in Nodes,
           NEW ttl \in 0..ARWL, NEW r \in OnForwardJoin(t, me, from, p, ttl)
    PROVE  Good(r, me, was)
<1>1. DEFINE stop == p \in t.active \/ ttl = 0 \/ Cardinality(t.active) <= 1
             base == IF ttl = PRWL THEN AddPassive(t, me, {p}) ELSE {t}
<1>2. CASE stop
  <2>1. r = SendNeighbor(t, p, "high")
    BY <1>2 DEF OnForwardJoin
  <2>2. QED
    BY <2>1, SendNeighborGood
<1>3. CASE ~ stop
  <2>1. PICK q \in base : r \in IF p \in q.pending THEN {q}
              ELSE {Send(q, {next}, ForwardJoin(p, TtlNext(ttl))) : next \in q.active \ {from}}
    BY <1>3 DEF OnForwardJoin
  <2>2. Good(q, me, was) /\ q.active = t.active
    <3>1. {p} \in SUBSET Nodes
      OBVIOUS
    <3>2. CASE ttl = PRWL
      BY <2>1, <3>1, <3>2, AddPassiveGood, SMTT(30)
    <3>3. CASE ttl # PRWL
      BY <2>1, <3>3
    <3>4. QED
      BY <3>2, <3>3
  <2>3. CASE r = q
    BY <2>2, <2>3
  <2>4. CASE r # q
    <3>1. PICK next \in q.active : r = Send(q, {next}, ForwardJoin(p, TtlNext(ttl)))
      BY <2>1, <2>4
    <3>2. TtlNext(ttl) \in 0..ARWL
      BY CapsAssumption, SMTT(30) DEF TtlNext
    <3>3. next # p
      BY <1>3, <2>2, <3>1
    <3>4. /\ ForwardJoin(p, TtlNext(ttl)) \in Messages
          /\ \A x \in {next} : ForwardJoin(p, TtlNext(ttl)) \in SafeMessages(x)
      BY <3>2, <3>3, MessageFacts
    <3>5. QED
      BY <2>2, <3>1, <3>4, SendGood
  <2>5. QED
    BY <2>3, <2>4
<1>4. QED
  BY <1>2, <1>3

\* on_neighbor: the peer is added, with an eviction if need be, or refused.
LEMMA OnNeighborGood ==
    ASSUME NEW t, NEW me, NEW was, Good(t, me, was), t.out.up = {}, NEW from \in Nodes,
           NEW pr \in {"low", "high"}, NEW r \in OnNeighbor(t, me, from, pr)
    PROVE  Good(r, me, was)
<1>1. DEFINE q == [t EXCEPT !.pending = @ \ {from}]
             yes == TRUE
             reply == from \notin t.pending
<1>2. Good(q, me, was) /\ q.out.up = {}
  BY AnsweredGood
<1>3. yes \in BOOLEAN /\ reply \in BOOLEAN
  OBVIOUS
<1>4. r \in IF Refuses(q, me, from, pr) THEN SendDisconnect(q, from, yes)
            ELSE AddActive(q, me, from, pr, reply)
  BY DEF OnNeighbor
<1>5. HIDE DEF q, yes, reply
<1>6. CASE Refuses(q, me, from, pr)
  <2>1. r \in SendDisconnect(q, from, yes)
    BY <1>4, <1>6
  <2>2. QED
    BY <1>2, <1>3, <2>1, SendDisconnectGood
<1>7. CASE ~ Refuses(q, me, from, pr)
  <2>1. r \in AddActive(q, me, from, pr, reply)
    BY <1>4, <1>7
  <2>2. from # me
    BY <1>7 DEF Refuses
  <2>3. QED
    BY <1>2, <1>3, <2>1, <2>2, AddActiveGood
<1>8. QED
  BY <1>6, <1>7

\* on_shuffle: the walk avoids its origin.
LEMMA OnShuffleGood ==
    ASSUME NEW t, NEW me, NEW was, Good(t, me, was), NEW from, NEW m,
           m.origin \in Nodes, m.nodes \in SUBSET Nodes, m.ttl \in 0..SRWL,
           NEW r \in OnShuffle(t, me, from, m)
    PROVE  Good(r, me, was)
<1>1. DEFINE stop == m.ttl = 0 \/ Cardinality(t.active) <= 1
<1>2. CASE stop
  <2>1. PICK q \in AddPassive(t, me, m.nodes) :
           r \in SendShuffleReply(q, m.origin, Cardinality(m.nodes))
    BY <1>2 DEF OnShuffle
  <2>2. Cardinality(m.nodes) \in Nat
    BY NodesFinite
  <2>3. Good(q, me, was)
    BY <2>1, AddPassiveGood
  <2>4. QED
    BY <2>1, <2>2, <2>3, SendShuffleReplyGood
<1>3. CASE ~ stop
  <2>1. CASE r = t
    BY <2>1
  <2>2. CASE r # t
    <3>1. PICK n \in t.active \ {m.origin, from} :
             r = Send(t, {n}, Shuffle(m.origin, m.nodes, TtlNext(m.ttl)))
      BY <1>3, <2>2 DEF OnShuffle
    <3>2. TtlNext(m.ttl) \in 0..SRWL
      BY CapsAssumption, SMTT(30) DEF TtlNext
    <3>3. /\ Shuffle(m.origin, m.nodes, TtlNext(m.ttl)) \in Messages
          /\ \A x \in {n} : Shuffle(m.origin, m.nodes, TtlNext(m.ttl)) \in SafeMessages(x)
      BY <3>1, <3>2, MessageFacts
    <3>4. QED
      BY <3>1, <3>3, SendGood
  <2>3. QED
    BY <2>1, <2>2
<1>4. QED
  BY <1>2, <1>3

\* on_shuffle_reply: peers for the passive view, then perhaps a request.
LEMMA OnShuffleReplyGood ==
    ASSUME NEW t, NEW me, NEW was, Good(t, me, was), NEW nodes \in SUBSET Nodes,
           NEW r \in OnShuffleReply(t, me, nodes)
    PROVE  Good(r, me, was)
BY AddPassiveGood, RefillGood DEF OnShuffleReply

\* on_disconnect: an active peer is removed and reported.
LEMMA OnDisconnectGood ==
    ASSUME NEW t, NEW me, NEW was, Good(t, me, was), t.out.up = {}, NEW from \in Nodes, NEW alive,
           NEW r \in OnDisconnect(t, me, from, alive)
    PROVE  Good(r, me, was)
<1>1. DEFINE q == [t EXCEPT !.pending = @ \ {from}]
             why == IF alive THEN "alive" ELSE "leaving"
<1>2. Good(q, me, was) /\ q.out.up = {}
  BY AnsweredGood
<1>3. \/ from \in q.active /\ r \in RemoveActive(q, me, from, why)
      \/ r = [q EXCEPT !.alive = @ \cup {from}]
      \/ r = q
  BY DEF OnDisconnect
<1>4. HIDE DEF q, why
<1>5. CASE from \in q.active /\ r \in RemoveActive(q, me, from, why)
  BY <1>2, <1>5, RemoveActiveGood
<1>6. CASE r = [q EXCEPT !.alive = @ \cup {from}]
  <2>1. q \in States
    BY <1>2 DEF Good
  <2>2. r \in States /\ r.active = q.active /\ r.passive = q.passive /\ r.out = q.out
    BY <1>6, <2>1 DEF States
  <2>3. QED
    BY <1>2, <2>2 DEF Good, Views, Posted, Reported
<1>7. QED
  BY <1>2, <1>3, <1>5, <1>6

\* handle_message keeps a state good, whatever the message.
LEMMA HandleMessageGood ==
    ASSUME NEW t, NEW me, NEW was, Good(t, me, was), t.out.up = {}, NEW from \in Nodes,
           NEW m \in Messages, NEW r \in HandleMessage(t, me, from, m)
    PROVE  Good(r, me, was)
<1>1. DEFINE done == CASE m.kind = "Join" -> OnJoin(t, me, from)
                       [] m.kind = "ForwardJoin" -> OnForwardJoin(t, me, from, m.peer, m.ttl)
                       [] m.kind = "Shuffle" -> OnShuffle(t, me, from, m)
                       [] m.kind = "ShuffleReply" -> OnShuffleReply(t, me, m.nodes)
                       [] m.kind = "Neighbor" -> OnNeighbor(t, me, from, m.priority)
                       [] m.kind = "Disconnect" -> OnDisconnect(t, me, from, m.alive)
<1>2. PICK q \in done : r = IF m.kind # "Disconnect" /\ from \notin q.active
                            THEN Drop(q, from) ELSE q
  BY DEF HandleMessage
<1>3. Good(q, me, was)
  <2>1. CASE m.kind = "Join"
    <3>1. q \in OnJoin(t, me, from)
      BY <1>2, <2>1
    <3>2. QED
      BY <3>1, OnJoinGood
  <2>2. CASE m.kind = "ForwardJoin"
    <3>1. q \in OnForwardJoin(t, me, from, m.peer, m.ttl)
      BY <1>2, <2>2
    <3>2. m.peer \in Nodes /\ m.ttl \in 0..ARWL
      BY <2>2 DEF Messages
    <3>3. QED
      BY <3>1, <3>2, OnForwardJoinGood
  <2>3. CASE m.kind = "Shuffle"
    <3>1. q \in OnShuffle(t, me, from, m)
      BY <1>2, <2>3
    <3>2. m.origin \in Nodes /\ m.nodes \in SUBSET Nodes /\ m.ttl \in 0..SRWL
      BY <2>3 DEF Messages
    <3>3. QED
      BY <3>1, <3>2, OnShuffleGood
  <2>4. CASE m.kind = "ShuffleReply"
    <3>1. q \in OnShuffleReply(t, me, m.nodes)
      BY <1>2, <2>4
    <3>2. m.nodes \in SUBSET Nodes
      BY <2>4 DEF Messages
    <3>3. QED
      BY <3>1, <3>2, OnShuffleReplyGood
  <2>5. CASE m.kind = "Neighbor"
    <3>1. q \in OnNeighbor(t, me, from, m.priority)
      BY <1>2, <2>5
    <3>2. m.priority \in {"low", "high"}
      BY <2>5 DEF Messages
    <3>3. QED
      BY <3>1, <3>2, OnNeighborGood
  <2>6. CASE m.kind = "Disconnect"
    <3>1. q \in OnDisconnect(t, me, from, m.alive)
      BY <1>2, <2>6
    <3>2. QED
      BY <3>1, OnDisconnectGood
  <2>7. m.kind \in {"Join", "ForwardJoin", "Shuffle", "ShuffleReply", "Neighbor", "Disconnect"}
    BY DEF Messages
  <2>8. QED
    BY <2>1, <2>2, <2>3, <2>4, <2>5, <2>6, <2>7
<1>4. HIDE DEF done
<1>5. CASE r = q
  BY <1>3, <1>5
<1>6. CASE r = Drop(q, from)
  BY <1>3, <1>6, PushGood
<1>7. QED
  BY <1>2, <1>5, <1>6

\* handle_connection_closed: an active peer is removed and reported, a passive
\* one forgotten unless it said that it is alive.
LEMMA ConnectionClosedGood ==
    ASSUME NEW t, NEW me, NEW was, Good(t, me, was), t.out.up = {}, NEW p \in Nodes,
           NEW r \in HandleConnectionClosed(t, me, p)
    PROVE  Good(r, me, was)
<1>1. DEFINE q == [t EXCEPT !.pending = @ \ {p}]
             P == IF p \in q.alive THEN q.passive ELSE q.passive \ {p}
<1>2. Good(q, me, was) /\ q.out.up = {}
  BY AnsweredGood
<1>3. \/ p \in q.active /\ r \in RemoveActive(q, me, p, "closed")
      \/ r = [q EXCEPT !.alive = @ \ {p}, !.passive = P]
  BY DEF HandleConnectionClosed
<1>4. HIDE DEF q
<1>5. CASE p \in q.active /\ r \in RemoveActive(q, me, p, "closed")
  BY <1>2, <1>5, RemoveActiveGood
<1>6. CASE r = [q EXCEPT !.alive = @ \ {p}, !.passive = P]
  <2>1. q \in States
    BY <1>2 DEF Good
  <2>2. P \subseteq q.passive
    OBVIOUS
  <2>3. HIDE DEF P
  <2>4. r \in States /\ r.active = q.active /\ r.passive = P /\ r.out = q.out
    BY <1>6, <2>1, <2>2 DEF States
  <2>5. QED
    BY <1>2, <2>2, <2>4, ForgetGood
<1>7. QED
  BY <1>3, <1>5, <1>6

\* handle_shuffle_timer: a walk of the node itself goes to an active peer.
LEMMA ShuffleTimerGood ==
    ASSUME NEW t, NEW me \in Nodes, NEW was, Good(t, me, was), NEW r \in HandleShuffleTimer(t, me)
    PROVE  Good(r, me, was)
<1>1. CASE r = t
  BY <1>1
<1>2. CASE r # t
  <2>1. DEFINE walk(n, a, b) == Send(t, {n}, Shuffle(me, a \cup b \cup {me}, SRWL))
               A(n) == Capped(t.active \ {n}, ShuffleActive)
               B(n) == Capped(t.passive \ {n}, ShufflePassive)
  <2>2. PICK n, a, b : n \in t.active /\ a \in A(n) /\ b \in B(n) /\ r = walk(n, a, b)
    <3>1. HandleShuffleTimer(t, me)
            = IF t.active = {} THEN {t}
              ELSE UNION {{walk(n, a, b) : a \in A(n), b \in B(n)} : n \in t.active}
      BY SMTT(30) DEF HandleShuffleTimer
    <3>2. HIDE DEF walk, A, B
    <3>3. r \in UNION {{walk(n, a, b) : a \in A(n), b \in B(n)} : n \in t.active}
      BY <1>2, <3>1, SMTT(30)
    <3>4. PICK n \in t.active : r \in {walk(n, a, b) : a \in A(n), b \in B(n)}
      BY <3>3, SMTT(30)
    <3>5. QED
      BY <3>4, SMTT(30)
  <2>3. t.active \in SUBSET Nodes /\ t.passive \in SUBSET Nodes /\ me \notin t.active
    BY DEF Good, States, Views
  <2>4. a \subseteq t.active \ {n}
    BY <2>2, <2>3, CappedFacts, CapsAssumption
  <2>5. b \subseteq t.passive \ {n}
    BY <2>2, <2>3, CappedFacts, CapsAssumption
  <2>6. a \cup b \cup {me} \in SUBSET Nodes
    BY <2>3, <2>4, <2>5
  <2>7. SRWL \in 0..SRWL /\ n # me
    BY <2>2, <2>3, CapsAssumption, SMTT(30)
  <2>8. /\ Shuffle(me, a \cup b \cup {me}, SRWL) \in Messages
        /\ \A x \in {n} : Shuffle(me, a \cup b \cup {me}, SRWL) \in SafeMessages(x)
    BY <2>6, <2>7, MessageFacts
  <2>9. QED
    BY <2>2, <2>8, SendGood
<1>3. QED
  BY <1>1, <1>2

\* handle_pending_neighbor_timer: the peer is forgotten, and another one asked.
LEMMA PendingTimerGood ==
    ASSUME NEW t, NEW me, NEW was, Good(t, me, was), NEW p,
           NEW r \in HandlePendingNeighborTimer(t, p)
    PROVE  Good(r, me, was) /\ r.active = t.active
<1>1. CASE r = t
  BY <1>1
<1>2. CASE r # t
  <2>1. DEFINE q == [t EXCEPT !.pending = @ \ {p}, !.passive = @ \ {p}]
  <2>2. r \in Refill(q, {})
    BY <1>2 DEF HandlePendingNeighborTimer
  <2>3. t \in States
    BY DEF Good
  <2>4. q \in States /\ q.active = t.active /\ q.passive \subseteq t.passive /\ q.out = t.out
    BY <2>3 DEF States
  <2>5. HIDE DEF q
  <2>6. Good(q, me, was)
    BY <2>4, ForgetGood
  <2>7. QED
    BY <2>2, <2>4, <2>6, RefillGood, SMTT(30)
<1>3. QED
  BY <1>1, <1>2

\* A sequence over a set is one over every larger set.
LEMMA SeqMonotone ==
    ASSUME NEW S, NEW T, S \subseteq T
    PROVE  \A s \in Seq(S) : s \in Seq(T)
BY SMTT(30)

\* handle_quit: what is sent may be sent, and it goes to nodes.
LEMMA QuitGood ==
    ASSUME NEW t \in States, NEW r \in HandleQuit(t)
    PROVE  r.out \in Outs /\ \A p \in Nodes : r.out.mail[p] \in Seq(SafeMessages(p))
<1>1. DEFINE mail(f) == [p \in Nodes |-> IF p \in t.active
                                         THEN <<ShuffleReply(f[p]), Disconnect(FALSE)>> ELSE <<>>]
             end(f) == [Fresh EXCEPT !.out = [Nothing EXCEPT !.mail = mail(f), !.drop = t.active]]
             k == Cardinality(t.active)
             orders == {o \in [1..k -> t.active] : \A i, j \in 1..k : o[i] = o[j] => i = j}
             left(o, i) == {o[j] : j \in (i + 1)..k}
             said(o) == {f \in [t.active -> SUBSET Nodes] : \A i \in 1..k :
                           f[o[i]] \in ReplyNodes(left(o, i), t.passive,
                                                  ShuffleActive + ShufflePassive)}
<1>2. PICK f \in [t.active -> SUBSET Nodes] : r = end(f)
  <2>1. HandleQuit(t) = UNION {{end(f) : f \in said(o)} : o \in orders}
    BY DEF HandleQuit
  <2>2. \A o : said(o) \subseteq [t.active -> SUBSET Nodes]
    OBVIOUS
  <2>3. HIDE DEF end, said, orders
  <2>4. PICK o \in orders : r \in {end(f) : f \in said(o)}
    BY <2>1
  <2>5. QED
    BY <2>2, <2>4
<1>3. t.active \in SUBSET Nodes
  BY DEF States
<1>4. \A p \in Nodes : mail(f)[p] \in Seq(SafeMessages(p))
  <2>1. TAKE p \in Nodes
  <2>2. CASE p \in t.active
    <3>1. ShuffleReply(f[p]) \in SafeMessages(p)
      BY <2>2, MessageFacts
    <3>2. Disconnect(FALSE) \in SafeMessages(p)
      BY MessageFacts
    <3>3. mail(f)[p] = <<ShuffleReply(f[p]), Disconnect(FALSE)>>
      BY <2>2
    <3>4. \A S : \A x, y \in S : <<x, y>> \in Seq(S)
      BY SMTT(30)
    <3>5. QED
      BY <3>1, <3>2, <3>3, <3>4
  <2>3. CASE p \notin t.active
    BY <2>3, SMTT(30)
  <2>4. QED
    BY <2>2, <2>3
<1>5. mail(f) \in [Nodes -> Seq(Messages)]
  <2>1. \A p \in Nodes : mail(f)[p] \in Seq(Messages)
    <3>1. \A p \in Nodes : SafeMessages(p) \subseteq Messages
      BY DEF SafeMessages
    <3>2. QED
      BY <1>4, <3>1, SeqMonotone
  <2>2. mail(f) = [p \in Nodes |-> mail(f)[p]]
    OBVIOUS
  <2>3. HIDE DEF mail
  <2>4. QED
    BY <2>1, <2>2
<1>6. HIDE DEF mail
<1>7. r.out = [mail |-> mail(f), drop |-> t.active, up |-> {}, down |-> {}, timer |-> {}]
  BY <1>2 DEF Fresh, Nothing
<1>8. QED
  BY <1>3, <1>4, <1>5, <1>7, SMTT(30) DEF Outs

-----------------------------------------------------------------------------
(* The network. *)

Wire(p) == [msg : SafeMessages(p), fresh : BOOLEAN]
Pairs == SUBSET (Nodes \X Nodes)
Nets == [chan : [Nodes -> [Nodes -> Seq([msg : Messages, fresh : BOOLEAN])]],
         entry : Pairs, broken : Pairs, closing : Pairs]
\* Every connection carries what may be sent on it.
NetGood(w) == w \in Nets /\ \A n, p \in Nodes : w.chan[n][p] \in Seq(Wire(p))

\* What goes on a connection is the mail, the first of it marked where the
\* connection is new.
LEMMA ItemsFacts ==
    ASSUME NEW S, NEW s \in Seq(S), NEW b \in BOOLEAN
    PROVE  [i \in 1..Len(s) |-> [msg |-> s[i], fresh |-> i = 1 /\ b]]
              \in Seq([msg : S, fresh : BOOLEAN])
<1>1. \A i \in 1..Len(s) : [msg |-> s[i], fresh |-> i = 1 /\ b] \in [msg : S, fresh : BOOLEAN]
  BY SMTT(30)
<1>2. DEFINE e(i) == [msg |-> s[i], fresh |-> i = 1 /\ b]
             R == [msg : S, fresh : BOOLEAN]
<1>3. Len(s) \in Nat /\ \A i \in 1..Len(s) : e(i) \in R
  BY <1>1, SMTT(30)
<1>4. HIDE DEF e, R
<1>5. [i \in 1..Len(s) |-> e(i)] \in Seq(R)
  BY <1>3, SMTT(30)
<1>6. QED
  BY <1>5 DEF e, R

\* A network with good channels and pairs of nodes is good.
LEMMA NetIntro ==
    ASSUME NEW chan, NEW entry \in Pairs, NEW broken \in Pairs, NEW closing \in Pairs,
           chan \in [Nodes -> [Nodes -> Seq([msg : Messages, fresh : BOOLEAN])]],
           \A n, p \in Nodes : chan[n][p] \in Seq(Wire(p))
    PROVE  NetGood([chan |-> chan, entry |-> entry, broken |-> broken, closing |-> closing])
BY DEF NetGood, Nets

\* A sequence of what may be sent to p is one of messages.
LEMMA WireType ==
    ASSUME NEW p
    PROVE  \A s \in Seq(Wire(p)) : s \in Seq([msg : Messages, fresh : BOOLEAN])
<1>1. Wire(p) \subseteq [msg : Messages, fresh : BOOLEAN]
  BY DEF Wire, SafeMessages
<1>2. QED
  BY <1>1, SeqMonotone

\* A row of channels that carry what may be sent on them replaces another.
LEMMA RowGood ==
    ASSUME NEW w, NetGood(w), NEW n \in Nodes, NEW row,
           row = [p \in Nodes |-> row[p]], \A p \in Nodes : row[p] \in Seq(Wire(p))
    PROVE  LET chan == [w.chan EXCEPT ![n] = row] IN
           /\ chan \in [Nodes -> [Nodes -> Seq([msg : Messages, fresh : BOOLEAN])]]
           /\ \A x, p \in Nodes : chan[x][p] \in Seq(Wire(p))
<1>1. DEFINE M == Seq([msg : Messages, fresh : BOOLEAN])
<1>2. w.chan \in [Nodes -> [Nodes -> M]] /\ \A x, p \in Nodes : w.chan[x][p] \in Seq(Wire(p))
  BY DEF NetGood, Nets
<1>3. \A p \in Nodes : row[p] \in M
  BY WireType
<1>4. HIDE DEF M
<1>5. row \in [Nodes -> M]
  BY <1>3
<1>6. [w.chan EXCEPT ![n] = row] \in [Nodes -> [Nodes -> M]]
  BY <1>2, <1>5
<1>7. \A x, p \in Nodes : [w.chan EXCEPT ![n] = row][x][p] \in Seq(Wire(p))
  BY <1>2
<1>8. QED
  BY <1>6, <1>7 DEF M

\* Carrying out what a handler pushed keeps the network good.
LEMMA PerformGood ==
    ASSUME NEW n \in Nodes, NEW out \in Outs, NEW w, NetGood(w),
           \A p \in Nodes : out.mail[p] \in Seq(SafeMessages(p))
    PROVE  NetGood(Perform(n, out, w))
<1>1. DEFINE sent == {p \in Nodes : out.mail[p] # <<>>}
             opened == {p \in sent : <<n, p>> \notin w.entry}
             live(p) == <<n, p>> \notin w.broken
             items(p) == [i \in 1..Len(out.mail[p]) |->
                             [msg |-> out.mail[p][i], fresh |-> i = 1 /\ p \in opened]]
             ended == {p \in out.drop : p \in sent \/ <<n, p>> \in w.entry}
             row == [p \in Nodes |-> IF live(p) THEN w.chan[n][p] \o items(p) ELSE w.chan[n][p]]
             chan == [w.chan EXCEPT ![n] = row]
             entry == (w.entry \cup ({n} \X sent)) \ ({n} \X out.drop)
             broken == w.broken \ ({n} \X out.drop)
             closing == (w.closing \ ({n} \X (opened \cup out.drop)))
                        \cup {<<p, n>> : p \in {p \in ended : live(p) /\ <<n, p>> \notin w.closing}}
<1>2. Perform(n, out, w)
        = [chan |-> chan, entry |-> entry, broken |-> broken, closing |-> closing]
  BY DEF Perform
<1>3. /\ w.entry \in Pairs /\ w.broken \in Pairs /\ w.closing \in Pairs
      /\ out.drop \in SUBSET Nodes
  BY DEF NetGood, Nets, Outs
<1>4. entry \in Pairs /\ broken \in Pairs /\ closing \in Pairs
  <2>1. DEFINE news == {p \in ended : live(p) /\ <<n, p>> \notin w.closing}
  <2>2. sent \subseteq Nodes /\ news \subseteq Nodes
    BY <1>3
  <2>3. entry \subseteq w.entry \cup ({n} \X sent) /\ broken \subseteq w.broken
    OBVIOUS
  <2>4. closing \subseteq w.closing \cup {<<p, n>> : p \in news}
    OBVIOUS
  <2>5. HIDE DEF sent, news, entry, broken, closing
  <2>6. {n} \X sent \subseteq Nodes \X Nodes
    BY <2>2
  <2>7. {<<p, n>> : p \in news} \subseteq Nodes \X Nodes
    BY <2>2, SMTT(30)
  <2>8. QED
    BY <1>3, <2>3, <2>4, <2>6, <2>7 DEF Pairs
<1>5. \A p \in Nodes : row[p] \in Seq(Wire(p))
  <2>1. TAKE p \in Nodes
  <2>2. w.chan[n][p] \in Seq(Wire(p))
    BY DEF NetGood
  <2>3. items(p) \in Seq(Wire(p))
    <3>1. DEFINE b == p \in opened
    <3>2. b \in BOOLEAN /\ out.mail[p] \in Seq(SafeMessages(p))
      BY SMTT(30)
    <3>3. HIDE DEF b
    <3>4. [i \in 1..Len(out.mail[p]) |-> [msg |-> out.mail[p][i], fresh |-> i = 1 /\ b]]
             \in Seq(Wire(p))
      BY <3>2, ItemsFacts DEF Wire
    <3>5. QED
      BY <3>4 DEF b
  <2>4. HIDE DEF items
  <2>5. w.chan[n][p] \o items(p) \in Seq(Wire(p))
    BY <2>2, <2>3, SMTT(30)
  <2>6. row[p] = IF live(p) THEN w.chan[n][p] \o items(p) ELSE w.chan[n][p]
    OBVIOUS
  <2>7. HIDE DEF row, live
  <2>8. QED
    BY <2>2, <2>5, <2>6
<1>6. row = [p \in Nodes |-> row[p]]
  <2>1. HIDE DEF live, items
  <2>2. QED
    OBVIOUS
<1>7. HIDE DEF row, entry, broken, closing
<1>8. /\ chan \in [Nodes -> [Nodes -> Seq([msg : Messages, fresh : BOOLEAN])]]
      /\ \A x, p \in Nodes : chan[x][p] \in Seq(Wire(p))
  BY <1>5, <1>6, RowGood
<1>9. HIDE DEF chan
<1>10. QED
  BY <1>2, <1>4, <1>8, NetIntro

-----------------------------------------------------------------------------
(* The swarm. *)

\* The inductive invariant: every node is as a handler leaves it, with nothing
\* pushed, and what its application was told is its active view, joined or not.
Swarm ==
    /\ node \in [Nodes -> States]
    /\ \A n \in Nodes : node[n].out = Nothing /\ Views(node[n], n)
    /\ joined \subseteq Nodes
    /\ neighbors \in [Nodes -> SUBSET Nodes]
    /\ \A n \in Nodes : neighbors[n] = node[n].active
    /\ NetGood(net)
    /\ timers \in Pairs

\* A node between two handlers is good, with nothing pushed.
LEMMA IdleGood ==
    ASSUME Swarm, NEW n \in Nodes
    PROVE  Good(node[n], n, node[n].active) /\ node[n].out.up = {}
<1>1. node[n] \in States /\ Views(node[n], n) /\ node[n].out = Nothing
  BY DEF Swarm
<1>2. /\ node[n].out.up = {} /\ node[n].out.down = {}
      /\ \A p \in Nodes : node[n].out.mail[p] = <<>>
  BY <1>1, SMTT(30) DEF Nothing
<1>3. Posted(node[n])
  <2>1. \A S : <<>> \in Seq(S)
    BY SMTT(30)
  <2>2. QED
    BY <1>2, <2>1 DEF Posted
<1>4. Reported(node[n], node[n].active)
  BY <1>2 DEF Reported
<1>5. QED
  BY <1>1, <1>2, <1>3, <1>4 DEF Good

\* Nothing that has been pushed is a possible Outs, and Fresh a possible state.
LEMMA FreshFacts ==
    /\ Nothing \in Outs /\ Fresh \in States
    /\ \A n : Views(Fresh, n)
    /\ Fresh.active = {} /\ Fresh.out = Nothing
<1>1. Nothing \in Outs
  BY SMTT(30) DEF Nothing, Outs
<1>2. /\ Fresh \in States /\ Fresh.active = {} /\ Fresh.passive = {} /\ Fresh.out = Nothing
  BY <1>1 DEF Fresh, States
<1>3. Cardinality({}) = 0
  BY FS_EmptySet
<1>4. QED
  BY <1>1, <1>2, <1>3, CapsAssumption, SMTT(30) DEF Views

\* A handler's good outcome is carried out: the node is idle again, the
\* application has been told and the network is good.
LEMMA BecomeGood ==
    ASSUME Swarm, NEW n \in Nodes, NEW r, Good(r, n, node[n].active), NEW w, NetGood(w),
           Become(n, r, w), joined' \subseteq Nodes
    PROVE  Swarm'
<1>1. r \in States /\ r.out \in Outs /\ r.active \in SUBSET Nodes
  BY DEF Good, States
<1>2. DEFINE q == [r EXCEPT !.out = Nothing]
<1>3. q \in States /\ q.active = r.active /\ q.passive = r.passive /\ q.out = Nothing
  BY <1>1, FreshFacts DEF States
<1>4. HIDE DEF q
<1>5. node' = [node EXCEPT ![n] = q]
  BY DEF Become, q
<1>6. node' \in [Nodes -> States]
  BY <1>3, <1>5 DEF Swarm
<1>7. \A x \in Nodes : node'[x].out = Nothing /\ Views(node'[x], x)
  BY <1>3, <1>5 DEF Swarm, Good, Views
<1>8. neighbors' = [neighbors EXCEPT ![n] = r.active]
  BY DEF Become, Swarm, Good, Reported
<1>9. neighbors' \in [Nodes -> SUBSET Nodes] /\ \A x \in Nodes : neighbors'[x] = node'[x].active
  BY <1>1, <1>3, <1>5, <1>8 DEF Swarm
<1>10. NetGood(net')
  BY <1>1, PerformGood DEF Become, Good, Posted
<1>11. timers' \in Pairs
  <2>1. r.out.timer \in SUBSET Nodes
    BY <1>1 DEF Outs
  <2>2. QED
    BY <2>1 DEF Become, Swarm, Pairs
<1>12. QED
  BY <1>6, <1>7, <1>9, <1>10, <1>11 DEF Swarm

\* Replacing the channels of a network.
LEMMA NetChan ==
    ASSUME NEW w \in Nets, NEW chan \in [Nodes -> [Nodes -> Seq([msg : Messages, fresh : BOOLEAN])]]
    PROVE  LET v == [w EXCEPT !.chan = chan] IN
           v \in Nets /\ v.chan = chan
<1>1. DEFINE C == [Nodes -> [Nodes -> Seq([msg : Messages, fresh : BOOLEAN])]]
             N == [chan : C, entry : Pairs, broken : Pairs, closing : Pairs]
<1>2. N = Nets /\ w \in N /\ chan \in C
  BY DEF Nets
<1>3. HIDE DEF C
<1>4. LET v == [w EXCEPT !.chan = chan] IN
      v \in N /\ v.chan = chan
  BY <1>2
<1>5. HIDE DEF N
<1>6. QED
  BY <1>2, <1>4

\* Replacing the connections that end.
LEMMA NetClosing ==
    ASSUME NEW w \in Nets, NEW closing \in Pairs
    PROVE  LET v == [w EXCEPT !.closing = closing] IN
           v \in Nets /\ v.chan = w.chan /\ v.broken = w.broken
<1>1. DEFINE C == [Nodes -> [Nodes -> Seq([msg : Messages, fresh : BOOLEAN])]]
             N == [chan : C, entry : Pairs, broken : Pairs, closing : Pairs]
<1>2. N = Nets /\ w \in N
  BY DEF Nets
<1>3. HIDE DEF C
<1>4. LET v == [w EXCEPT !.closing = closing] IN
      v \in N /\ v.chan = w.chan /\ v.broken = w.broken
  BY <1>2
<1>5. HIDE DEF N
<1>6. QED
  BY <1>2, <1>4

\* Replacing the connections that are gone.
LEMMA NetBroken ==
    ASSUME NEW w \in Nets, NEW broken \in Pairs
    PROVE  LET v == [w EXCEPT !.broken = broken] IN
           v \in Nets /\ v.chan = w.chan
<1>1. DEFINE C == [Nodes -> [Nodes -> Seq([msg : Messages, fresh : BOOLEAN])]]
             N == [chan : C, entry : Pairs, broken : Pairs, closing : Pairs]
<1>2. N = Nets /\ w \in N
  BY DEF Nets
<1>3. HIDE DEF C
<1>4. LET v == [w EXCEPT !.broken = broken] IN
      v \in N /\ v.chan = w.chan
  BY <1>2
<1>5. HIDE DEF N
<1>6. QED
  BY <1>2, <1>4

\* A network with the channels of a good one is good.
LEMMA SameChannels ==
    ASSUME NEW w, NetGood(w), NEW v \in Nets, v.chan = w.chan
    PROVE  NetGood(v)
BY DEF NetGood

\* The connections after a message from p has been read by n.
LEMMA ReadGood ==
    ASSUME NetGood(net), NEW n \in Nodes, NEW p \in Nodes, net.chan[p][n] # <<>>
    PROVE  /\ Head(net.chan[p][n]).msg \in Messages
           /\ NetGood([net EXCEPT !.chan[p][n] = Tail(net.chan[p][n])])
<1>1. DEFINE c == net.chan[p][n]
             row == [net.chan[p] EXCEPT ![n] = Tail(c)]
<1>2. /\ net \in Nets /\ c \in Seq(Wire(n)) /\ c # <<>>
      /\ \A x \in Nodes : net.chan[p][x] \in Seq(Wire(x))
  BY DEF NetGood
<1>3. net.chan[p] = [x \in Nodes |-> net.chan[p][x]]
  BY <1>2 DEF Nets
<1>4. Head(c) \in Wire(n) /\ Tail(c) \in Seq(Wire(n))
  <2>1. HIDE DEF c
  <2>2. QED
    BY <1>2, SMTT(30)
<1>5. Head(c).msg \in Messages
  BY <1>4 DEF Wire, SafeMessages
<1>6. row = [x \in Nodes |-> row[x]] /\ \A x \in Nodes : row[x] \in Seq(Wire(x))
  <2>1. HIDE DEF c
  <2>2. QED
    BY <1>2, <1>3, <1>4
<1>7. HIDE DEF row
<1>8. DEFINE chan == [net.chan EXCEPT ![p] = row]
<1>9. /\ chan \in [Nodes -> [Nodes -> Seq([msg : Messages, fresh : BOOLEAN])]]
      /\ \A x, y \in Nodes : chan[x][y] \in Seq(Wire(y))
  BY <1>6, RowGood
<1>10. HIDE DEF chan
<1>11. [net EXCEPT !.chan[p][n] = Tail(c)] = [net EXCEPT !.chan = chan]
  BY DEF chan, row
<1>12. LET v == [net EXCEPT !.chan = chan] IN v \in Nets /\ v.chan = chan
  BY <1>2, <1>9, NetChan
<1>13. NetGood([net EXCEPT !.chan = chan])
  BY <1>9, <1>12 DEF NetGood
<1>14. QED
  BY <1>5, <1>11, <1>13

\* The initial states satisfy the invariant.
LEMMA InitSwarm == Init => Swarm
<1> SUFFICES ASSUME Init PROVE Swarm
  OBVIOUS
<1>1. /\ node \in [Nodes -> States]
      /\ \A n \in Nodes : node[n].out = Nothing /\ Views(node[n], n)
      /\ neighbors \in [Nodes -> SUBSET Nodes]
      /\ \A n \in Nodes : neighbors[n] = node[n].active
  <2>1. node = [n \in Nodes |-> Fresh] /\ neighbors = [n \in Nodes |-> {}]
    BY DEF Init
  <2>2. node \in [Nodes -> States] /\ neighbors \in [Nodes -> SUBSET Nodes]
    BY <2>1, FreshFacts
  <2>3. \A n \in Nodes : node[n] = Fresh /\ neighbors[n] = {}
    BY <2>1
  <2>4. QED
    BY <2>2, <2>3, FreshFacts
<1>2. NetGood(net)
  <2>1. DEFINE chan == [n \in Nodes |-> [p \in Nodes |-> <<>>]]
  <2>2. \A S : <<>> \in Seq(S)
    BY SMTT(30)
  <2>3. chan \in [Nodes -> [Nodes -> Seq([msg : Messages, fresh : BOOLEAN])]]
    BY <2>2
  <2>4. \A n, p \in Nodes : chan[n][p] = <<>>
    OBVIOUS
  <2>5. HIDE DEF chan
  <2>6. \A n, p \in Nodes : chan[n][p] \in Seq(Wire(p))
    BY <2>2, <2>4
  <2>7. {} \in Pairs
    BY DEF Pairs
  <2>8. NetGood([chan |-> chan, entry |-> {}, broken |-> {}, closing |-> {}])
    BY <2>3, <2>6, <2>7, NetIntro
  <2>9. QED
    BY <2>8 DEF Init, chan
<1>3. QED
  BY <1>1, <1>2 DEF Init, Swarm, Pairs

\* A join adds Join messages to what an idle node has pushed.
LEMMA JoinStep ==
    ASSUME Swarm, NEW n \in Nodes, NEW ps \in SUBSET Nodes, JoinPeers(n, ps)
    PROVE  Swarm'
<1>1. DEFINE r == IF ps = {} THEN node[n] ELSE Send(node[n], ps, Join)
<1>2. Good(node[n], n, node[n].active)
  BY IdleGood
<1>3. Join \in Messages /\ \A p \in ps : Join \in SafeMessages(p)
  BY MessageFacts
<1>4. Good(Send(node[n], ps, Join), n, node[n].active)
  BY <1>2, <1>3, SendGood
<1>5. Good(r, n, node[n].active)
  BY <1>2, <1>4
<1>6. Become(n, r, net) /\ joined' \subseteq Nodes
  BY DEF JoinPeers, Swarm
<1>7. HIDE DEF r
<1>8. QED
  BY <1>5, <1>6, BecomeGood DEF Swarm

\* A message is read and handled, or dropped where the topic is not joined.
LEMMA RecvStep ==
    ASSUME Swarm, NEW n \in Nodes, NEW p \in Nodes, RecvMessage(n, p)
    PROVE  Swarm'
<1>1. DEFINE c == net.chan[p][n]
             rest == [net EXCEPT !.chan[p][n] = Tail(c)]
             w == IF Head(c).fresh
                  THEN [rest EXCEPT !.entry = @ \cup {<<n, p>>}, !.broken = @ \ {<<n, p>>},
                                    !.closing = @ \ {<<n, p>>}]
                  ELSE rest
<1>2. c # <<>> /\ UNCHANGED joined
  BY DEF RecvMessage
<1>3. Head(c).msg \in Messages /\ NetGood(rest)
  BY <1>2, ReadGood DEF Swarm
<1>4. \/ n \in joined /\ \E r \in HandleMessage(node[n], n, p, Head(c).msg) : Become(n, r, w)
      \/ net' = w /\ UNCHANGED <<node, neighbors, timers>>
  BY DEF RecvMessage
<1>5. NetGood(w)
  <2>1. HIDE DEF rest, c
  <2>2. rest \in Nets
    BY <1>3 DEF NetGood
  <2>3. DEFINE E == rest.entry \cup {<<n, p>>}
               B == rest.broken \ {<<n, p>>}
               D == rest.closing \ {<<n, p>>}
               v == [rest EXCEPT !.entry = E, !.broken = B, !.closing = D]
  <2>4. rest.entry \in Pairs /\ rest.broken \in Pairs /\ rest.closing \in Pairs
    BY <2>2 DEF Nets
  <2>5. E \in Pairs /\ B \in Pairs /\ D \in Pairs
    BY <2>4, SMTT(30) DEF Pairs
  <2>6. w = IF Head(c).fresh THEN v ELSE rest
    OBVIOUS
  <2>7. HIDE DEF E, B, D, w
  <2>8. v \in Nets /\ v.chan = rest.chan
    <3>1. DEFINE C == [Nodes -> [Nodes -> Seq([msg : Messages, fresh : BOOLEAN])]]
                 N == [chan : C, entry : Pairs, broken : Pairs, closing : Pairs]
    <3>2. N = Nets /\ rest \in N
      BY <2>2 DEF Nets
    <3>3. HIDE DEF C
    <3>4. v \in N /\ v.chan = rest.chan
      BY <2>5, <3>2
    <3>5. QED
      BY <3>2, <3>4
  <2>9. HIDE DEF v
  <2>10. NetGood(v)
    BY <1>3, <2>8, SameChannels
  <2>11. QED
    BY <1>3, <2>6, <2>10
<1>6. HIDE DEF w, rest, c
<1>7. CASE \E r \in HandleMessage(node[n], n, p, Head(c).msg) : Become(n, r, w)
  <2>1. PICK r \in HandleMessage(node[n], n, p, Head(c).msg) : Become(n, r, w)
    BY <1>7
  <2>2. Good(node[n], n, node[n].active) /\ node[n].out.up = {}
    BY IdleGood
  <2>3. Good(r, n, node[n].active)
    BY <1>3, <2>1, <2>2, HandleMessageGood
  <2>4. joined' \subseteq Nodes
    BY <1>2 DEF Swarm
  <2>5. QED
    BY <1>5, <2>1, <2>3, <2>4, BecomeGood
<1>8. CASE net' = w /\ UNCHANGED <<node, neighbors, timers>>
  BY <1>2, <1>5, <1>8 DEF Swarm
<1>9. QED
  BY <1>4, <1>7, <1>8

\* The end of a connection is handled, or only recorded.
LEMMA ClosedStep ==
    ASSUME Swarm, NEW n \in Nodes, NEW p \in Nodes, PeerDisconnected(n, p)
    PROVE  Swarm'
<1>1. DEFINE w == [net EXCEPT !.closing = @ \ {<<n, p>>}]
             away == [w EXCEPT !.broken = @ \cup {<<n, p>>}]
<1>2. NetGood(net) /\ net \in Nets
  BY DEF Swarm, NetGood
<1>3. DEFINE D == net.closing \ {<<n, p>>}
             B == net.broken \cup {<<n, p>>}
<1>4. D \in Pairs /\ B \in Pairs /\ net.broken \in Pairs /\ net.entry \in Pairs
  <2>1. net.entry \in Pairs /\ net.broken \in Pairs /\ net.closing \in Pairs
    BY <1>2 DEF Nets
  <2>2. QED
    BY <2>1, SMTT(30) DEF Pairs
<1>5. /\ UNCHANGED joined
      /\ \/ net' = w /\ UNCHANGED <<node, neighbors, timers>>
         \/ net' = away /\ UNCHANGED <<node, neighbors, timers>>
         \/ \E r \in HandleConnectionClosed(node[n], n, p) : Become(n, r, away)
  BY DEF PeerDisconnected
<1>6. /\ w \in Nets /\ w.chan = net.chan
      /\ away \in Nets /\ away.chan = net.chan
  <2>1. w = [net EXCEPT !.closing = D] /\ away = [w EXCEPT !.broken = w.broken \cup {<<n, p>>}]
    OBVIOUS
  <2>2. HIDE DEF w, away, D
  <2>3. w \in Nets /\ w.chan = net.chan /\ w.broken = net.broken
    BY <1>2, <1>4, <2>1, NetClosing
  <2>4. away = [w EXCEPT !.broken = B]
    BY <2>1, <2>3
  <2>5. HIDE DEF B
  <2>6. away \in Nets /\ away.chan = w.chan
    BY <1>4, <2>3, <2>4, NetBroken
  <2>7. QED
    BY <2>3, <2>6
<1>7. HIDE DEF w, away, D, B
<1>8. NetGood(w) /\ NetGood(away)
  BY <1>2, <1>6, SameChannels
<1>9. CASE net' \in {w, away} /\ UNCHANGED <<node, neighbors, timers>>
  BY <1>5, <1>8, <1>9 DEF Swarm
<1>10. CASE \E r \in HandleConnectionClosed(node[n], n, p) : Become(n, r, away)
  <2>1. PICK r \in HandleConnectionClosed(node[n], n, p) : Become(n, r, away)
    BY <1>10
  <2>2. Good(node[n], n, node[n].active) /\ node[n].out.up = {}
    BY IdleGood
  <2>3. Good(r, n, node[n].active)
    BY <2>1, <2>2, ConnectionClosedGood
  <2>4. joined' \subseteq Nodes
    BY <1>5 DEF Swarm
  <2>5. QED
    BY <1>8, <2>1, <2>3, <2>4, BecomeGood
<1>11. QED
  BY <1>5, <1>9, <1>10

\* A shuffle timer starts a walk.
LEMMA ShuffleStep ==
    ASSUME Swarm, NEW n \in Nodes, DoShuffle(n)
    PROVE  Swarm'
<1>1. PICK r \in HandleShuffleTimer(node[n], n) : Become(n, r, net)
  BY DEF DoShuffle
<1>2. Good(node[n], n, node[n].active)
  BY IdleGood
<1>3. Good(r, n, node[n].active)
  BY <1>1, <1>2, ShuffleTimerGood
<1>4. joined' \subseteq Nodes /\ NetGood(net)
  BY DEF Swarm, DoShuffle
<1>5. QED
  BY <1>1, <1>3, <1>4, BecomeGood

\* A request that was not answered in time: the application is told nothing,
\* and the active view stays.
LEMMA TimerStep ==
    ASSUME Swarm, NEW n \in Nodes, NEW p \in Nodes, PendingNeighborRequest(n, p)
    PROVE  Swarm'
<1>1. UNCHANGED <<joined, neighbors>>
  BY DEF PendingNeighborRequest
<1>2. CASE n \notin joined
  <2>1. timers' = timers \ {<<n, p>>} /\ UNCHANGED <<node, net>>
    BY <1>2 DEF PendingNeighborRequest
  <2>2. QED
    BY <1>1, <2>1 DEF Swarm, Pairs
<1>3. CASE n \in joined
  <2>1. PICK r \in HandlePendingNeighborTimer(node[n], p) :
           /\ node' = [node EXCEPT ![n] = [r EXCEPT !.out = Nothing]]
           /\ timers' = (timers \ {<<n, p>>}) \cup ({n} \X r.out.timer)
           /\ net' = Perform(n, r.out, net)
    BY <1>3 DEF PendingNeighborRequest
  <2>2. Good(node[n], n, node[n].active)
    BY IdleGood
  <2>3. Good(r, n, node[n].active) /\ r.active = node[n].active
    BY <2>1, <2>2, PendingTimerGood, SMTT(30)
  <2>4. r \in States /\ r.out \in Outs
    BY <2>3 DEF Good, States
  <2>5. DEFINE q == [r EXCEPT !.out = Nothing]
  <2>6. q \in States /\ q.active = r.active /\ q.passive = r.passive /\ q.out = Nothing
    BY <2>4, FreshFacts DEF States
  <2>7. node' = [node EXCEPT ![n] = q]
    BY <2>1
  <2>8. HIDE DEF q
  <2>9. Views(q, n)
    BY <2>3, <2>6 DEF Good, Views
  <2>10. /\ node' \in [Nodes -> States]
         /\ \A x \in Nodes : node'[x].out = Nothing /\ Views(node'[x], x)
    BY <2>6, <2>7, <2>9 DEF Swarm
  <2>11. \A x \in Nodes : neighbors'[x] = node'[x].active
    BY <1>1, <2>3, <2>6, <2>7 DEF Swarm
  <2>12. NetGood(net')
    BY <2>1, <2>3, <2>4, PerformGood DEF Swarm, Good, Posted
  <2>13. r.out.timer \in SUBSET Nodes
    BY <2>4 DEF Outs
  <2>14. timers' \in Pairs
    BY <2>1, <2>13 DEF Swarm, Pairs
  <2>15. QED
    BY <1>1, <2>10, <2>11, <2>12, <2>14 DEF Swarm
<1>4. QED
  BY <1>2, <1>3

\* A node that leaves the topic starts afresh, and its neighbours are forgotten.
LEMMA QuitStep ==
    ASSUME Swarm, NEW n \in Nodes, Quit(n)
    PROVE  Swarm'
<1>1. PICK r \in HandleQuit(node[n]) :
         node' = [node EXCEPT ![n] = Fresh] /\ net' = Perform(n, r.out, net)
  BY DEF Quit
<1>2. /\ neighbors' = [neighbors EXCEPT ![n] = {}]
      /\ joined' = joined \ {n} /\ UNCHANGED timers
  BY DEF Quit
<1>3. node[n] \in States
  BY DEF Swarm
<1>4. r.out \in Outs /\ \A p \in Nodes : r.out.mail[p] \in Seq(SafeMessages(p))
  BY <1>1, <1>3, QuitGood
<1>5. NetGood(net')
  BY <1>1, <1>4, PerformGood DEF Swarm
<1>6. /\ node' \in [Nodes -> States]
      /\ \A x \in Nodes : node'[x].out = Nothing /\ Views(node'[x], x)
  BY <1>1, FreshFacts DEF Swarm
<1>7. /\ neighbors' \in [Nodes -> SUBSET Nodes]
      /\ \A x \in Nodes : neighbors'[x] = node'[x].active
  BY <1>1, <1>2, FreshFacts DEF Swarm
<1>8. QED
  BY <1>2, <1>5, <1>6, <1>7 DEF Swarm

\* A connection that breaks loses what was on it.
LEMMA LostStep ==
    ASSUME Swarm, NEW n \in Nodes, NEW p \in Nodes, ConnectionLost(n, p)
    PROVE  Swarm'
<1>1. DEFINE chan == [net.chan EXCEPT ![n][p] = <<>>, ![p][n] = <<>>]
             both == {<<n, p>>, <<p, n>>}
<1>2. /\ net' = [chan |-> chan, entry |-> net.entry,
                 broken |-> net.broken \cup both, closing |-> net.closing \cup both]
      /\ UNCHANGED <<node, joined, neighbors, timers>>
  BY DEF ConnectionLost
<1>3. /\ net.chan \in [Nodes -> [Nodes -> Seq([msg : Messages, fresh : BOOLEAN])]]
      /\ \A x, y \in Nodes : net.chan[x][y] \in Seq(Wire(y))
      /\ net.entry \in Pairs /\ net.broken \in Pairs /\ net.closing \in Pairs
  BY DEF Swarm, NetGood, Nets
<1>4. net.broken \cup both \in Pairs /\ net.closing \cup both \in Pairs
  BY <1>3, SMTT(30) DEF Pairs
<1>5. /\ chan \in [Nodes -> [Nodes -> Seq([msg : Messages, fresh : BOOLEAN])]]
      /\ \A x, y \in Nodes : chan[x][y] \in Seq(Wire(y))
  <2>1. DEFINE M == Seq([msg : Messages, fresh : BOOLEAN])
  <2>2. \A S : <<>> \in Seq(S)
    BY SMTT(30)
  <2>3. <<>> \in M /\ net.chan \in [Nodes -> [Nodes -> M]]
    BY <1>3, <2>2
  <2>4. HIDE DEF M
  <2>5. chan \in [Nodes -> [Nodes -> M]]
    BY <2>3
  <2>6. \A x, y \in Nodes : chan[x][y] \in {net.chan[x][y], <<>>}
    BY <2>3
  <2>7. HIDE DEF chan
  <2>8. \A x, y \in Nodes : chan[x][y] \in Seq(Wire(y))
    BY <1>3, <2>2, <2>6
  <2>9. QED
    BY <2>5, <2>8 DEF M
<1>6. HIDE DEF chan, both
<1>7. NetGood(net')
  BY <1>2, <1>3, <1>4, <1>5, NetIntro
<1>8. QED
  BY <1>2, <1>7 DEF Swarm

\* Every step preserves the invariant.
LEMMA StepSwarm == Swarm /\ [Next]_vars => Swarm'
<1> SUFFICES ASSUME Swarm, [Next]_vars PROVE Swarm'
  OBVIOUS
<1>1. CASE UNCHANGED vars
  BY <1>1 DEF vars, Swarm
<1>2. CASE Next
  <2>1. PICK n \in Nodes :
          \/ \E ps \in SUBSET Nodes : JoinPeers(n, ps)
          \/ \E p \in Nodes : RecvMessage(n, p)
          \/ \E p \in Nodes : PeerDisconnected(n, p)
          \/ DoShuffle(n)
          \/ \E p \in Nodes : PendingNeighborRequest(n, p)
          \/ Quit(n)
          \/ \E p \in Nodes : ConnectionLost(n, p)
    BY <1>2 DEF Next
  <2>2. QED
    BY <2>1, JoinStep, RecvStep, ClosedStep, ShuffleStep, TimerStep, QuitStep, LostStep
<1>3. QED
  BY <1>1, <1>2

\* The invariant says what is claimed.
LEMMA SwarmMeans == Swarm => TypeOK /\ ViewsApart /\ NeighborsTold /\ WalksSafe
<1> SUFFICES ASSUME Swarm PROVE TypeOK /\ ViewsApart /\ NeighborsTold /\ WalksSafe
  OBVIOUS
<1>1. node \in [Nodes -> [active : SUBSET Nodes, passive : SUBSET Nodes, pending : SUBSET Nodes,
                          alive : SUBSET Nodes, out : {Nothing}]]
  <2>1. node \in [Nodes -> States] /\ \A n \in Nodes : node[n] \in States /\ node[n].out = Nothing
    BY DEF Swarm
  <2>2. \A t \in States : t.out = Nothing =>
           t \in [active : SUBSET Nodes, passive : SUBSET Nodes, pending : SUBSET Nodes,
                  alive : SUBSET Nodes, out : {Nothing}]
    BY DEF States
  <2>3. QED
    BY <2>1, <2>2
<1>2. TypeOK
  BY <1>1 DEF Swarm, TypeOK, NetGood, Nets, Pairs
<1>3. ViewsApart
  BY DEF Swarm, Views, ViewsApart
<1>4. NeighborsTold
  BY DEF Swarm, NeighborsTold
<1>5. WalksSafe
  <2>1. SUFFICES ASSUME NEW n \in Nodes, NEW p \in Nodes, NEW i \in DOMAIN net.chan[n][p]
                 PROVE  LET m == net.chan[n][p][i].msg IN
                        /\ m.kind = "ForwardJoin" => m.peer # p
                        /\ m.kind = "Shuffle" => m.origin # p
    BY DEF WalksSafe
  <2>2. net.chan[n][p] \in Seq(Wire(p))
    BY DEF Swarm, NetGood
  <2>3. net.chan[n][p][i] \in Wire(p)
    BY <2>1, <2>2, SMTT(30)
  <2>4. net.chan[n][p][i].msg \in SafeMessages(p)
    BY <2>3 DEF Wire
  <2>5. QED
    BY <2>4 DEF SafeMessages
<1>6. QED
  BY <1>2, <1>3, <1>4, <1>5

\* Nothing but messages, connections and timers of the swarm's nodes ever
\* occurs, however the handlers of hyparview.rs interleave.
THEOREM TypeCorrect == Spec => []TypeOK
BY InitSwarm, StepSwarm, SwarmMeans, PTL DEF Spec

\* For every swarm and all capacities: the two views of a node never overlap,
\* never hold the node and never grow past their capacities.
THEOREM Apart == Spec => []ViewsApart
BY InitSwarm, StepSwarm, SwarmMeans, PTL DEF Spec

\* For every swarm: NeighborUp and NeighborDown account for the active view of
\* a joined topic exactly.
THEOREM Told == Spec => []NeighborsTold
BY InitSwarm, StepSwarm, SwarmMeans, PTL DEF Spec

\* For every swarm and all walk lengths: no ForwardJoin reaches the node it
\* introduces and no Shuffle its origin.
THEOREM Walks == Spec => []WalksSafe
BY InitSwarm, StepSwarm, SwarmMeans, PTL DEF Spec

=============================================================================
