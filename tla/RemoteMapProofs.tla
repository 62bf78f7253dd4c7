--------------------------- MODULE RemoteMapProofs ---------------------------
(***************************************************************************)
(* Proofs about the actors an endpoint keeps for its remotes: the map and  *)
(* the tasks agree, every permit is accounted for, and a message is in one *)
(* place at a time, through the end of an actor and the start of its       *)
(* successor.                                                              *)
(***************************************************************************)
EXTENDS RemoteMap, FiniteSetTheorems, TLAPS

\* Zenon proves what does not say otherwise.
USE ZenonT(30)

Phases == {"unused", "running", "closing", "closed", "ended", "queued", "gone"}
Places == {"select", "send", "push", "join", "stopped"}

Types ==
    /\ senders \in [Ids -> Actors \cup {0}]
    /\ free \in Nat
    /\ started \in 0..(2 * MaxMsgs)
    /\ stage \in [Actors -> Phases]
    /\ owner \in [Actors -> Ids \cup {NoId}]
    /\ inbox \in [Actors -> Seq(Msgs)]
    /\ initial \in [Actors -> Seq(Msgs)]
    /\ left \in [Actors -> Seq(Msgs)]
    /\ completions \in Seq(Actors)
    /\ at \in Places
    /\ inflight \in SUBSET (Msgs \X Actors)
    /\ issued \in 0..MaxMsgs
    /\ to \in [Msgs -> Ids \cup {NoId}]
    /\ tried \in SUBSET Msgs
    /\ handled \in Seq(Msgs)
    /\ refused \in SUBSET Msgs /\ dropped \in SUBSET Msgs /\ lost \in SUBSET Msgs

-----------------------------------------------------------------------------
(* The map and the tasks. *)

\* The sender of a remote leads to an actor for it whose task is to be joined;
\* every such actor is led to; actors are started in turn; the completion
\* queue names every actor once, and only such as wait there.
Led ==
    /\ \A i \in Ids : senders[i] # 0 =>
          stage[senders[i]] \in Pending /\ owner[senders[i]] = i
    /\ \A a \in Actors : stage[a] \in Pending => owner[a] \in Ids /\ senders[owner[a]] = a
InTurn == \A a \in Actors : stage[a] = "unused" <=> a > started
QueuedOnce ==
    /\ \A k \in 1..Len(completions) : stage[completions[k]] = "queued"
    /\ \A j, k \in 1..Len(completions) : completions[j] = completions[k] => j = k
Permitted == free + Cardinality({a \in Actors : stage[a] \in Pending}) = MaxActors

MapInv == Led /\ InTurn /\ QueuedOnce /\ Permitted

-----------------------------------------------------------------------------
(* The messages. *)

Elems(s) == {s[k] : k \in 1..Len(s)}
Distinct(s) == \A j, k \in 1..Len(s) : s[j] = s[k] => j = k
Holds(a) == Elems(initial[a]) \cup Elems(inbox[a]) \cup Elems(left[a])

\* An actor's queues hold messages for its remote, each once; they are empty
\* before it starts and after it is joined, those it began with are handled
\* before it leaves, and the inbox is empty once it is drained.
QueuesOf(a) ==
    /\ Distinct(initial[a]) /\ Distinct(inbox[a]) /\ Distinct(left[a])
    /\ Elems(initial[a]) \cap Elems(inbox[a]) = {}
    /\ \A m \in Holds(a) : to[m] = owner[a]
    /\ stage[a] # "running" => initial[a] = <<>>
    /\ stage[a] \notin {"running", "closing", "closed"} => inbox[a] = <<>>
    /\ stage[a] \notin {"ended", "queued"} => left[a] = <<>>
Queues == \A a \in Actors : QueuesOf(a)

\* A slot is for a message to the actor's remote; a message takes one; and the
\* socket actor waits for its own to be filled.
Slots ==
    \A m \in Msgs : \A a \in Actors : <<m, a>> \in inflight =>
        /\ stage[a] # "unused" /\ to[m] = owner[a]
        /\ \A b \in Actors : <<m, b>> \in inflight => a = b
        /\ m \in tried \/ (at = "push" /\ m = cur)

\* The message the socket actor is busy with was the last it took up.
Busy ==
    /\ tried \subseteq 1..issued
    /\ \A m \in 1..issued : to[m] \in Ids
    /\ at \in {"send", "push", "join"} =>
          /\ cur \in 1..issued /\ cur \notin tried
          /\ \A m \in 1..issued : m > cur => m \in tried
    /\ at = "send" => senders[to[cur]] # 0

\* The places where a message can be.
Flying == {m \in Msgs : \E a \in Actors : <<m, a>> \in inflight}
Waiting == {m \in Msgs : \E a \in Actors : m \in Holds(a)}
Failed == refused \cup dropped \cup lost
Current == IF at \in {"send", "join"} THEN {cur} ELSE {}

\* Every message that was issued is in one of five sets.
Parted(H, F, W, X, C, n) ==
    \A m \in Msgs :
        /\ m <= n <=> m \in H \cup F \cup W \cup X \cup C
        /\ m \in H => m \notin F \cup W \cup X \cup C
        /\ m \in F => m \notin W \cup X \cup C
        /\ m \in W => m \notin X \cup C
        /\ m \in X => m \notin C

PlaceInv ==
    /\ Queues /\ Slots /\ Busy
    /\ Distinct(handled)
    /\ Parted(Elems(handled), Flying, Waiting, Failed, Current, issued)

RInv == Types /\ MapInv /\ PlaceInv

-----------------------------------------------------------------------------
(* Sequences. *)

Consts == MaxMsgs \in Nat /\ MaxActors \in Nat /\ NoId \notin Ids

\* What an empty queue, a queue with a message more and the rest of a queue
\* hold.
LEMMA ElemsEmpty == Elems(<<>>) = {} /\ Distinct(<<>>)
BY SMTT(30) DEF Elems, Distinct

\* A queue holds what it is a sequence of.
LEMMA ElemsType ==
    ASSUME NEW S, NEW s \in Seq(S)
    PROVE  Elems(s) \subseteq S /\ Elems(s) = Range(s)
<1>1. Elems(s) \subseteq S
  BY SMTT(30) DEF Elems
<1>2. Elems(s) = Range(s)
  BY SMTT(30) DEF Elems, Range
<1>3. QED
  BY <1>1, <1>2

\* A message more at the end.
LEMMA ElemsAppend ==
    ASSUME NEW S, NEW s \in Seq(S), NEW x \in S
    PROVE  /\ Append(s, x) \in Seq(S)
           /\ Elems(Append(s, x)) = Elems(s) \cup {x}
           /\ Distinct(s) /\ x \notin Elems(s) => Distinct(Append(s, x))
<1> DEFINE t == Append(s, x)
<1>1. /\ Len(s) \in Nat /\ Len(t) = Len(s) + 1 /\ t[Len(s) + 1] = x /\ t \in Seq(S)
      /\ \A i \in 1..Len(s) : t[i] = s[i]
  BY SMTT(30)
<1> HIDE DEF t
<1>2. \A y \in Elems(t) : y \in Elems(s) \cup {x}
  BY <1>1, SMTT(30) DEF Elems
<1>3. \A y \in Elems(s) \cup {x} : y \in Elems(t)
  BY <1>1, SMTT(30) DEF Elems
<1>4. ASSUME Distinct(s), x \notin Elems(s) PROVE Distinct(t)
  BY <1>1, <1>4, SMTT(30) DEF Elems, Distinct
<1>5. QED
  BY <1>1, <1>2, <1>3, <1>4 DEF t

\* The first message and the rest.
LEMMA ElemsTail ==
    ASSUME NEW S, NEW s \in Seq(S), s # <<>>
    PROVE  /\ Tail(s) \in Seq(S) /\ Head(s) \in S
           /\ Elems(s) = {Head(s)} \cup Elems(Tail(s))
           /\ Distinct(s) => Distinct(Tail(s)) /\ Head(s) \notin Elems(Tail(s))
<1> DEFINE t == Tail(s)
<1>1. /\ Len(s) \in Nat \ {0} /\ t \in Seq(S) /\ Len(t) = Len(s) - 1 /\ Head(s) = s[1]
      /\ \A i \in 1..Len(t) : t[i] = s[i + 1]
      /\ s[1] \in S
  BY SMTT(30)
<1> HIDE DEF t
<1>2. \A y \in Elems(t) \cup {s[1]} : y \in Elems(s)
  BY <1>1, SMTT(30) DEF Elems
<1>3. ASSUME NEW i \in 1..Len(s) PROVE s[i] \in Elems(t) \cup {s[1]}
  <2>1. CASE i = 1
    BY <2>1
  <2>2. CASE i # 1
    <3>1. i - 1 \in 1..Len(t) /\ t[i - 1] = s[i]
      BY <1>1, <2>2, SMTT(30)
    <3>2. QED
      BY <3>1 DEF Elems
  <2>3. QED
    BY <2>1, <2>2
<1>4. \A y \in Elems(s) : y \in Elems(t) \cup {s[1]}
  BY <1>3 DEF Elems
<1>5. ASSUME Distinct(s) PROVE Distinct(t) /\ s[1] \notin Elems(t)
  BY <1>1, <1>5, SMTT(30) DEF Distinct, Elems
<1>6. QED
  BY <1>1, <1>2, <1>4, <1>5 DEF t

\* The head of a queue behind another.
LEMMA HeadConcat ==
    ASSUME NEW S, NEW s \in Seq(S), NEW t \in Seq(S)
    PROVE  /\ s \o t # <<>> <=> s # <<>> \/ t # <<>>
           /\ s # <<>> => Head(s \o t) = Head(s)
           /\ s = <<>> => s \o t = t
BY SMTT(30)

-----------------------------------------------------------------------------
(* The types. *)

\* Actors and messages are numbers, and there are finitely many.
LEMMA ActorFacts ==
    ASSUME Consts
    PROVE  /\ Actors = 1..(2 * MaxMsgs) /\ Msgs = 1..MaxMsgs
           /\ 0 \notin Actors /\ Actors \subseteq Nat /\ Msgs \subseteq Nat
           /\ IsFiniteSet(Actors)
BY FS_Interval, SMTT(30) DEF Consts, Actors, Msgs

\* The phases, and those of a task that was not joined.
LEMMA PhaseFacts ==
    /\ Pending \subseteq Phases /\ "unused" \notin Pending /\ "gone" \notin Pending
    /\ "running" \in Pending /\ "closing" \in Pending /\ "closed" \in Pending
    /\ "ended" \in Pending /\ "queued" \in Pending
    /\ "unused" \in Phases /\ "gone" \in Phases
BY DEF Pending, Phases

\* start_remote_state_actor.
LEMMA StartTypes ==
    ASSUME Consts, Types, NEW i \in Ids, NEW msgs \in Seq(Msgs),
           NEW others \in [Actors -> Phases], Start(i, msgs, others)
    PROVE  /\ started + 1 \in Actors
           /\ started' \in 0..(2 * MaxMsgs) /\ senders' \in [Ids -> Actors \cup {0}]
           /\ stage' \in [Actors -> Phases] /\ owner' \in [Actors -> Ids \cup {NoId}]
           /\ initial' \in [Actors -> Seq(Msgs)]
<1>1. started + 1 \in Actors /\ started' = started + 1
  BY DEF Start
<1>2. started' \in 0..(2 * MaxMsgs)
  BY <1>1, ActorFacts, SMTT(30)
<1>3. QED
  BY <1>1, <1>2, PhaseFacts DEF Start, Types

\* A message that is sent has a number of its own.
LEMMA Issue ==
    ASSUME Consts, Types, issued < MaxMsgs, NEW i \in Ids
    PROVE  /\ issued + 1 \in 0..MaxMsgs /\ issued + 1 \in Msgs /\ issued \in Nat
           /\ [to EXCEPT ![issued + 1] = i] \in [Msgs -> Ids \cup {NoId}]
<1>1. issued \in 0..MaxMsgs /\ to \in [Msgs -> Ids \cup {NoId}]
  BY DEF Types
<1>2. issued + 1 \in 0..MaxMsgs /\ issued + 1 \in 1..MaxMsgs /\ issued \in Nat
  BY <1>1, SMTT(30) DEF Consts
<1>3. issued + 1 \in Msgs
  BY <1>2 DEF Msgs
<1>4. QED
  BY <1>1, <1>2, <1>3

\* RemoteStateActor::run takes a message from the front of its queues.
Takes(a, x) ==
    /\ x \in Msgs /\ handled' = Append(handled, x)
    /\ \/ /\ initial[a] # <<>> /\ x = Head(initial[a])
          /\ initial' = [initial EXCEPT ![a] = Tail(initial[a])] /\ inbox' = inbox
       \/ /\ initial[a] = <<>> /\ inbox[a] # <<>> /\ x = Head(inbox[a])
          /\ inbox' = [inbox EXCEPT ![a] = Tail(inbox[a])] /\ initial' = initial

\* An actor that handles a message takes it from the head of one of its
\* queues.
LEMMA HandleTakes ==
    ASSUME Types, NEW a \in Actors, HandleMessage(a)
    PROVE  \E x : Takes(a, x)
<1> DEFINE s == initial[a]
           t == inbox[a]
<1>1. s \in Seq(Msgs) /\ t \in Seq(Msgs)
  BY DEF Types
<1>2. handled' = Append(handled, Head(s \o t)) /\ s \o t # <<>>
  BY DEF HandleMessage
<1>3. CASE s # <<>>
  <2>1. initial' = [initial EXCEPT ![a] = Tail(s)] /\ inbox' = inbox
    BY <1>3 DEF HandleMessage
  <2>2. Head(s \o t) = Head(s) /\ Head(s) \in Msgs
    BY <1>1, <1>3, HeadConcat, ElemsTail
  <2>3. QED
    BY <1>2, <1>3, <2>1, <2>2 DEF Takes
<1>4. CASE s = <<>>
  <2>1. inbox' = [inbox EXCEPT ![a] = Tail(t)] /\ initial' = initial
    BY <1>4 DEF HandleMessage
  <2>2. t # <<>> /\ s \o t = t
    BY <1>1, <1>2, <1>4, HeadConcat
  <2>3. Head(t) \in Msgs
    BY <1>1, <2>2, ElemsTail
  <2>4. QED
    BY <1>2, <1>4, <2>1, <2>2, <2>3 DEF Takes
<1>5. QED
  BY <1>3, <1>4

\* remove_or_restart_actor.
LEMMA RemoveTypes ==
    ASSUME Consts, Types, NEW a \in Actors, owner[a] \in Ids, NEW msgs \in Seq(Msgs),
           completions # <<>>, RemoveOrRestart(a, msgs), at' \in Places
    PROVE  Types'
<1> DEFINE joined == [stage EXCEPT ![a] = "gone"]
<1>1. joined \in [Actors -> Phases]
  BY PhaseFacts DEF Types
<1> HIDE DEF joined
<1>2. /\ completions' \in Seq(Actors) /\ left' \in [Actors -> Seq(Msgs)]
      /\ UNCHANGED <<inbox, inflight, issued, to, tried, handled, refused, lost>>
  BY SMTT(30) DEF RemoveOrRestart, Types, msgVars
<1>3. /\ started' \in 0..(2 * MaxMsgs) /\ senders' \in [Ids -> Actors \cup {0}]
      /\ stage' \in [Actors -> Phases] /\ owner' \in [Actors -> Ids \cup {NoId}]
      /\ initial' \in [Actors -> Seq(Msgs)] /\ free' \in Nat /\ dropped' \in SUBSET Msgs
  <2>1. CASE /\ senders' = [senders EXCEPT ![owner[a]] = 0] /\ free' = free + 1
             /\ stage' = joined /\ dropped' = dropped \cup Range(msgs)
             /\ UNCHANGED <<started, owner, initial>>
    <3>1. Range(msgs) \subseteq Msgs
      BY ElemsType, SMTT(30)
    <3>2. QED
      BY <1>1, <2>1, <3>1, SMTT(30) DEF Types
  <2>2. CASE Start(owner[a], msgs, joined) /\ UNCHANGED <<free, dropped>>
    BY <1>1, <2>2, StartTypes DEF Types
  <2>3. QED
    BY <2>1, <2>2 DEF RemoveOrRestart, joined
<1>4. QED
  BY <1>2, <1>3 DEF Types

\* The task that is joined next is the one its remote's sender leads to.
LEMMA CompletionsHead ==
    ASSUME Consts, Types, MapInv, completions # <<>>
    PROVE  /\ Head(completions) \in Actors
           /\ stage[Head(completions)] = "queued"
           /\ owner[Head(completions)] \in Ids
           /\ senders[owner[Head(completions)]] = Head(completions)
           /\ left[Head(completions)] \in Seq(Msgs)
<1>1. Head(completions) = completions[1] /\ 1 \in 1..Len(completions)
      /\ Head(completions) \in Actors
  BY SMTT(30) DEF Types
<1>2. QED
  BY <1>1, PhaseFacts, SMTT(30) DEF MapInv, QueuedOnce, Led, Types

\* Every step keeps the types.
LEMMA TypesStep ==
    ASSUME Consts, Types, MapInv, PlaceInv, [MapNext]_remoteVars
    PROVE  Types'
<1> USE DEF mapVars, taskVars, sockVars, msgVars, fateVars
<1>1. ASSUME NEW i \in Ids, SendToActor(i) PROVE Types'
  <2>1. /\ issued' \in 0..MaxMsgs /\ issued + 1 \in Msgs
        /\ to' \in [Msgs -> Ids \cup {NoId}]
        /\ UNCHANGED <<inbox, left, completions, inflight, tried, handled, dropped, lost>>
    BY <1>1, Issue DEF SendToActor
  <2>2. CASE UNCHANGED <<mapVars, stage, owner, initial>>
    BY <1>1, <2>1, <2>2 DEF SendToActor, Types, Places
  <2>3. CASE senders[i] = 0 /\ free > 0 /\ free' = free - 1 /\ Start(i, <<>>, stage)
             /\ at' = "send" /\ UNCHANGED refused
    <3>1. <<>> \in Seq(Msgs)
      BY SMTT(30)
    <3>2. stage \in [Actors -> Phases] /\ free' \in Nat /\ at' \in Places
      BY <2>3, SMTT(30) DEF Types, Places
    <3>3. /\ started' \in 0..(2 * MaxMsgs) /\ senders' \in [Ids -> Actors \cup {0}]
          /\ stage' \in [Actors -> Phases] /\ owner' \in [Actors -> Ids \cup {NoId}]
          /\ initial' \in [Actors -> Seq(Msgs)]
      BY <2>3, <3>1, <3>2, StartTypes
    <3>4. QED
      BY <2>1, <2>3, <3>2, <3>3 DEF Types
  <2>4. QED
    BY <1>1, <2>2, <2>3 DEF SendToActor
<1>2. ASSUME NEW i \in Ids, TrySendRemote(i) PROVE Types'
  <2>1. /\ issued' \in 0..MaxMsgs /\ issued + 1 \in Msgs
        /\ to' \in [Msgs -> Ids \cup {NoId}]
    BY <1>2, Issue DEF TrySendRemote
  <2>2. senders[i] # 0 => senders[i] \in Actors
    BY DEF Types
  <2>3. QED
    BY <1>2, <2>1, <2>2, SMTT(30) DEF TrySendRemote, Types
<1>3. CASE Reserve
  <2>1. cur \in Msgs /\ senders[to[cur]] \in Actors
    BY <1>3, ActorFacts, SMTT(30) DEF Reserve, PlaceInv, Busy, Types, Consts
  <2>2. QED
    BY <1>3, <2>1, SMTT(30) DEF Reserve, Types, Places
<1>4. CASE SendFails \/ CloseEndpoint \/ Stop
  BY <1>4 DEF SendFails, CloseEndpoint, Stop, Types, Places
<1>5. ASSUME NEW a \in Actors, NEW m \in Msgs, Push(m, a) PROVE Types'
  <2>1. at' \in Places
    BY <1>5 DEF Push, Types, Places
  <2>2. inbox' \in [Actors -> Seq(Msgs)] /\ lost' \in SUBSET Msgs
    <3>1. Append(inbox[a], m) \in Seq(Msgs)
      BY SMTT(30) DEF Types
    <3>2. CASE stage[a] \in {"running", "closing", "closed"}
      BY <1>5, <3>1, <3>2 DEF Push, Types
    <3>3. CASE stage[a] \notin {"running", "closing", "closed"}
      BY <1>5, <3>3, SMTT(30) DEF Push, Types
    <3>4. QED
      BY <3>2, <3>3
  <2>3. QED
    BY <1>5, <2>1, <2>2 DEF Push, Types
<1>6. CASE Cleanup
  BY <1>6, CompletionsHead, RemoveTypes DEF Cleanup, Types
<1>7. CASE Join
  <2> DEFINE a == Head(completions)
             msgs == IF owner[a] = to[cur] THEN Append(left[a], cur) ELSE left[a]
  <2>1. cur \in Msgs
    BY <1>7, ActorFacts, SMTT(30) DEF Join, PlaceInv, Busy, Types, Consts
  <2>2. a \in Actors /\ owner[a] \in Ids /\ left[a] \in Seq(Msgs)
    BY <1>7, CompletionsHead DEF Join
  <2>3. msgs \in Seq(Msgs)
    BY <2>1, <2>2, SMTT(30)
  <2>4. RemoveOrRestart(a, msgs) /\ at' \in Places /\ completions # <<>>
    BY <1>7 DEF Join, Places
  <2> HIDE DEF msgs, a
  <2>5. QED
    BY <2>2, <2>3, <2>4, RemoveTypes
<1>8. ASSUME NEW a \in Actors, HandleMessage(a) PROVE Types'
  <2>1. PICK x : Takes(a, x)
    BY <1>8, HandleTakes
  <2>2. handled' \in Seq(Msgs)
    BY <2>1, SMTT(30) DEF Takes, Types
  <2>3. inbox[a] \in Seq(Msgs) /\ initial[a] \in Seq(Msgs)
    BY DEF Types
  <2>4. CASE /\ initial[a] # <<>>
             /\ initial' = [initial EXCEPT ![a] = Tail(initial[a])] /\ inbox' = inbox
    <3>1. Tail(initial[a]) \in Seq(Msgs)
      BY <2>3, <2>4, ElemsTail
    <3>2. QED
      BY <1>8, <2>2, <2>4, <3>1 DEF HandleMessage, Types
  <2>5. CASE /\ inbox[a] # <<>>
             /\ inbox' = [inbox EXCEPT ![a] = Tail(inbox[a])] /\ initial' = initial
    <3>1. Tail(inbox[a]) \in Seq(Msgs)
      BY <2>3, <2>5, ElemsTail
    <3>2. QED
      BY <1>8, <2>2, <2>5, <3>1 DEF HandleMessage, Types
  <2>6. QED
    BY <2>1, <2>4, <2>5 DEF Takes
<1>9. ASSUME NEW a \in Actors, ConnectionClose(a) PROVE Types'
  BY <1>9 DEF ConnectionClose, Types
<1>10. ASSUME NEW a \in Actors, Leave(a) \/ Close(a) PROVE Types'
  BY <1>10 DEF Leave, Close, Types, Phases
<1>11. ASSUME NEW a \in Actors, Drain(a) PROVE Types'
  BY <1>11, SMTT(30) DEF Drain, Types, Phases
<1>12. ASSUME NEW a \in Actors, Complete(a) PROVE Types'
  BY <1>12, SMTT(30) DEF Complete, Types, Phases
<1>13. CASE UNCHANGED remoteVars
  BY <1>13 DEF remoteVars, Types
<1>14. QED
  BY <1>1, <1>2, <1>3, <1>4, <1>5, <1>6, <1>7, <1>8, <1>9, <1>10, <1>11, <1>12, <1>13 DEF MapNext

-----------------------------------------------------------------------------
(* The map and the tasks agree. *)

Unjoined == {a \in Actors : stage[a] \in Pending}

\* A step that leaves the map and the tasks alone.
LEMMA MapQuiet ==
    ASSUME MapInv, UNCHANGED <<senders, free, started, stage, owner, completions>>
    PROVE  MapInv'
BY SMTT(30) DEF MapInv, Led, InTurn, QueuedOnce, Permitted

\* A task goes on towards its end.
LEMMA MapPhase ==
    ASSUME Types, MapInv, UNCHANGED <<senders, free, started, owner>>,
           NEW a \in Actors, NEW p \in Pending,
           stage[a] \in Pending \ {"queued"}, stage' = [stage EXCEPT ![a] = p],
           \/ completions' = completions
           \/ p = "queued" /\ completions' = Append(completions, a)
    PROVE  MapInv'
<1>1. /\ stage'[a] = p /\ \A b \in Actors : b # a => stage'[b] = stage[b]
      /\ completions \in Seq(Actors)
  BY DEF Types
<1>2. Led' /\ InTurn'
  BY <1>1, PhaseFacts, SMTT(30) DEF MapInv, Led, InTurn, Types
<1>3. Unjoined' = Unjoined
  BY <1>1 DEF Unjoined
<1>4. \A k \in 1..Len(completions) : completions[k] # a /\ completions[k] \in Actors
  BY <1>1, SMTT(30) DEF MapInv, QueuedOnce
<1>5. QueuedOnce'
  <2>1. CASE completions' = completions
    BY <1>1, <1>4, <2>1, SMTT(30) DEF MapInv, QueuedOnce
  <2>2. CASE p = "queued" /\ completions' = Append(completions, a)
    <3> DEFINE q == Append(completions, a)
    <3>1. /\ Len(q) = Len(completions) + 1 /\ q[Len(completions) + 1] = a
          /\ Len(completions) \in Nat
          /\ \A k \in 1..Len(completions) : q[k] = completions[k]
      BY <1>1, SMTT(30)
    <3>2. completions' = q
      BY <2>2
    <3> HIDE DEF q
    <3>3. QED
      BY <1>1, <1>4, <2>2, <3>1, <3>2, SMTT(30) DEF MapInv, QueuedOnce
  <2>3. QED
    BY <2>1, <2>2
<1>6. Permitted'
  BY <1>3 DEF MapInv, Permitted, Unjoined
<1>7. QED
  BY <1>2, <1>5, <1>6 DEF MapInv

\* send_to_actor starts an actor for a remote that has none.
LEMMA MapStart ==
    ASSUME Consts, Types, MapInv, NEW i \in Ids, senders[i] = 0,
           free > 0, free' = free - 1, Start(i, <<>>, stage),
           completions' = completions
    PROVE  MapInv'
<1> DEFINE n == started + 1
<1>1. /\ n \in Actors /\ started' = n /\ started \in Nat
      /\ stage' = [stage EXCEPT ![n] = "running"]
      /\ owner' = [owner EXCEPT ![n] = i]
      /\ senders' = [senders EXCEPT ![i] = n]
  BY SMTT(30) DEF Start, Types
<1> HIDE DEF n
<1>2. stage[n] = "unused" /\ n # 0
  BY <1>1, ActorFacts, SMTT(30) DEF MapInv, InTurn, n
<1>3. /\ stage'[n] = "running" /\ \A b \in Actors : b # n => stage'[b] = stage[b]
      /\ owner'[n] = i /\ \A b \in Actors : b # n => owner'[b] = owner[b]
      /\ senders'[i] = n /\ \A j \in Ids : j # i => senders'[j] = senders[j]
  BY <1>1 DEF Types
<1>4. \A j \in Ids : senders[j] # n
  BY <1>2, PhaseFacts, SMTT(30) DEF MapInv, Led
<1>5. Led'
  <2>1. ASSUME NEW j \in Ids, senders'[j] # 0
        PROVE  stage'[senders'[j]] \in Pending /\ owner'[senders'[j]] = j
    <3>1. CASE j = i
      BY <1>3, <3>1, PhaseFacts
    <3>2. CASE j # i
      <4>1. senders'[j] = senders[j] /\ senders[j] \in Actors /\ senders[j] # n
        BY <1>3, <1>4, <2>1, <3>2, SMTT(30) DEF Types
      <4>2. QED
        BY <1>3, <2>1, <4>1, SMTT(30) DEF MapInv, Led
    <3>3. QED
      BY <3>1, <3>2
  <2>2. ASSUME NEW a \in Actors, stage'[a] \in Pending
        PROVE  owner'[a] \in Ids /\ senders'[owner'[a]] = a
    <3>1. CASE a = n
      BY <1>3, <3>1
    <3>2. CASE a # n
      <4>1. owner'[a] = owner[a] /\ owner[a] \in Ids /\ senders[owner[a]] = a
        BY <1>3, <2>2, <3>2 DEF MapInv, Led
      <4>2. owner[a] # i
        BY <4>1, ActorFacts
      <4>3. QED
        BY <1>3, <4>1, <4>2
    <3>3. QED
      BY <3>1, <3>2
  <2>3. QED
    BY <2>1, <2>2 DEF Led
<1>6. InTurn'
  <2>1. \A a \in Actors : a \in Nat
    BY ActorFacts
  <2>2. QED
    BY <1>1, <1>3, <2>1, SMTT(30) DEF MapInv, InTurn, n
<1>7. QueuedOnce'
  <2>1. \A k \in 1..Len(completions) : completions[k] \in Actors
    BY SMTT(30) DEF Types
  <2>2. \A k \in 1..Len(completions) : completions[k] # n
    BY <1>2 DEF MapInv, QueuedOnce
  <2>3. QED
    BY <1>3, <2>1, <2>2, SMTT(30) DEF MapInv, QueuedOnce
<1>8. Permitted'
  <2>1. Unjoined' = Unjoined \cup {n} /\ n \notin Unjoined
    BY <1>1, <1>2, <1>3, PhaseFacts, SMTT(30) DEF Unjoined
  <2>2. IsFiniteSet(Unjoined)
    BY ActorFacts, FS_Subset DEF Unjoined
  <2>3. Cardinality(Unjoined \cup {n}) = Cardinality(Unjoined) + 1
        /\ Cardinality(Unjoined) \in Nat
    BY <2>1, <2>2, FS_AddElement, FS_CardinalityType
  <2>4. free + Cardinality(Unjoined) = MaxActors /\ free \in Nat
    BY DEF MapInv, Permitted, Unjoined, Types
  <2>5. free' + Cardinality(Unjoined') = MaxActors
    BY <2>1, <2>3, <2>4, SMTT(30)
  <2>6. QED
    BY <2>5 DEF Permitted, Unjoined
<1>9. QED
  BY <1>5, <1>6, <1>7, <1>8 DEF MapInv

\* The completion queue without its head.
LEMMA QueueTail ==
    ASSUME Types, MapInv, completions # <<>>, completions' = Tail(completions)
    PROVE  /\ \A k \in 1..Len(completions') :
                 /\ stage[completions'[k]] = "queued" /\ completions'[k] \in Actors
                 /\ completions'[k] # Head(completions)
           /\ \A j, k \in 1..Len(completions') : completions'[j] = completions'[k] => j = k
<1> DEFINE q == Tail(completions)
<1>1. /\ Len(completions) \in Nat \ {0} /\ Len(q) = Len(completions) - 1
      /\ \A k \in 1..Len(q) : q[k] = completions[k + 1] /\ q[k] \in Actors
      /\ Head(completions) = completions[1]
  BY SMTT(30) DEF Types
<1>2. completions' = q
  OBVIOUS
<1> HIDE DEF q
<1>3. QED
  BY <1>1, <1>2, SMTT(30) DEF MapInv, QueuedOnce

\* remove_or_restart_actor removes the actor, and its sender and permit ...
LEMMA MapRemove ==
    ASSUME Consts, Types, MapInv, completions # <<>>, completions' = Tail(completions),
           NEW a, a = Head(completions),
           senders' = [senders EXCEPT ![owner[a]] = 0],
           free' = free + 1, stage' = [stage EXCEPT ![a] = "gone"],
           UNCHANGED <<started, owner>>
    PROVE  MapInv'
<1>1. a \in Actors /\ stage[a] = "queued" /\ owner[a] \in Ids /\ senders[owner[a]] = a
  BY CompletionsHead
<1>2. /\ stage'[a] = "gone" /\ \A b \in Actors : b # a => stage'[b] = stage[b]
      /\ senders'[owner[a]] = 0 /\ \A j \in Ids : j # owner[a] => senders'[j] = senders[j]
  BY <1>1 DEF Types
<1>3. Led'
  <2>1. ASSUME NEW j \in Ids, senders'[j] # 0
        PROVE  stage'[senders'[j]] \in Pending /\ owner[senders'[j]] = j
    <3>1. j # owner[a] /\ senders'[j] = senders[j] /\ senders[j] \in Actors
      BY <1>2, <2>1 DEF Types
    <3>2. owner[senders[j]] = j /\ stage[senders[j]] \in Pending
      BY <2>1, <3>1 DEF MapInv, Led
    <3>3. QED
      BY <1>2, <3>1, <3>2
  <2>2. ASSUME NEW b \in Actors, stage'[b] \in Pending
        PROVE  owner[b] \in Ids /\ senders'[owner[b]] = b
    <3>1. b # a /\ stage[b] \in Pending
      BY <1>2, <2>2, PhaseFacts
    <3>2. owner[b] \in Ids /\ senders[owner[b]] = b
      BY <3>1 DEF MapInv, Led
    <3>3. QED
      BY <1>1, <1>2, <3>1, <3>2
  <2>3. QED
    BY <2>1, <2>2 DEF Led
<1>4. InTurn'
  BY <1>1, <1>2 DEF MapInv, InTurn
<1>5. QueuedOnce'
  BY <1>2, QueueTail, SMTT(30) DEF QueuedOnce
<1>6. Permitted'
  <2>1. Unjoined' = Unjoined \ {a} /\ a \in Unjoined
    BY <1>1, <1>2, PhaseFacts, SMTT(30) DEF Unjoined
  <2>2. IsFiniteSet(Unjoined)
    BY ActorFacts, FS_Subset DEF Unjoined
  <2>3. Cardinality(Unjoined \ {a}) = Cardinality(Unjoined) - 1
        /\ Cardinality(Unjoined) \in Nat
    BY <2>1, <2>2, FS_RemoveElement, FS_CardinalityType
  <2>4. free + Cardinality(Unjoined) = MaxActors /\ free \in Nat
    BY DEF MapInv, Permitted, Unjoined, Types
  <2>5. free' + Cardinality(Unjoined') = MaxActors
    BY <2>1, <2>3, <2>4, SMTT(30)
  <2>6. QED
    BY <2>5 DEF Permitted, Unjoined
<1>7. QED
  BY <1>3, <1>4, <1>5, <1>6 DEF MapInv

\* ... or starts its successor, which takes over both.
LEMMA MapRestart ==
    ASSUME Consts, Types, MapInv, completions # <<>>, completions' = Tail(completions),
           NEW a, a = Head(completions), NEW msgs,
           Start(owner[a], msgs, [stage EXCEPT ![a] = "gone"]), free' = free
    PROVE  MapInv'
<1> DEFINE n == started + 1
           i == owner[a]
<1>1. a \in Actors /\ stage[a] = "queued" /\ i \in Ids /\ senders[i] = a
  BY CompletionsHead
<1>2. /\ n \in Actors /\ started' = n /\ started \in Nat
      /\ stage' = [[stage EXCEPT ![a] = "gone"] EXCEPT ![n] = "running"]
      /\ owner' = [owner EXCEPT ![n] = i]
      /\ senders' = [senders EXCEPT ![i] = n]
  BY SMTT(30) DEF Start, Types
<1>3. stage[n] = "unused" /\ n # a
  BY <1>1, <1>2, ActorFacts, SMTT(30) DEF MapInv, InTurn
<1>4. /\ stage'[n] = "running" /\ stage'[a] = "gone"
      /\ \A b \in Actors : b # n /\ b # a => stage'[b] = stage[b]
      /\ owner'[n] = i /\ \A b \in Actors : b # n => owner'[b] = owner[b]
      /\ senders'[i] = n /\ \A j \in Ids : j # i => senders'[j] = senders[j]
  BY <1>1, <1>2, <1>3 DEF Types
<1> HIDE DEF n, i
<1>5. Led'
  <2>1. ASSUME NEW j \in Ids, senders'[j] # 0
        PROVE  stage'[senders'[j]] \in Pending /\ owner'[senders'[j]] = j
    <3>1. CASE j = i
      BY <1>4, <3>1, PhaseFacts
    <3>2. CASE j # i
      <4>1. senders'[j] = senders[j] /\ senders[j] \in Actors
        BY <1>4, <2>1, <3>2 DEF Types
      <4>2. owner[senders[j]] = j /\ stage[senders[j]] \in Pending
        BY <2>1, <4>1 DEF MapInv, Led
      <4>3. senders[j] # n /\ senders[j] # a
        BY <1>3, <3>2, <4>2, PhaseFacts DEF i
      <4>4. QED
        BY <1>4, <4>1, <4>2, <4>3
    <3>3. QED
      BY <3>1, <3>2
  <2>2. ASSUME NEW b \in Actors, stage'[b] \in Pending
        PROVE  owner'[b] \in Ids /\ senders'[owner'[b]] = b
    <3>1. CASE b = n
      BY <1>1, <1>4, <3>1
    <3>2. CASE b # n
      <4>1. b # a /\ stage[b] \in Pending
        BY <1>4, <2>2, <3>2, PhaseFacts
      <4>2. owner'[b] = owner[b] /\ owner[b] \in Ids /\ senders[owner[b]] = b
        BY <1>4, <3>2, <4>1 DEF MapInv, Led
      <4>3. owner[b] # i
        BY <1>1, <4>1, <4>2
      <4>4. QED
        BY <1>4, <4>2, <4>3
    <3>3. QED
      BY <3>1, <3>2
  <2>3. QED
    BY <2>1, <2>2 DEF Led
<1>6. InTurn'
  <2>1. \A b \in Actors : b \in Nat
    BY ActorFacts
  <2>2. a <= started
    BY <1>1, <1>2, <2>1, SMTT(30) DEF MapInv, InTurn
  <2>3. ASSUME NEW b \in Actors PROVE stage'[b] = "unused" <=> b > started'
    <3>1. CASE b = n \/ b = a
      BY <1>2, <1>4, <2>1, <2>2, <3>1, SMTT(30) DEF n
    <3>2. CASE b # n /\ b # a
      <4>1. stage[b] = "unused" <=> b > started
        BY DEF MapInv, InTurn
      <4>2. b > started <=> b > n
        BY <1>2, <2>1, <3>2, SMTT(30) DEF n
      <4>3. QED
        BY <1>2, <1>4, <3>2, <4>1, <4>2
    <3>3. QED
      BY <3>1, <3>2
  <2>4. QED
    BY <2>3 DEF InTurn
<1>7. QueuedOnce'
  <2>1. \A k \in 1..Len(completions') : completions'[k] # n /\ stage'[completions'[k]] = "queued"
    BY <1>3, <1>4, QueueTail
  <2>2. QED
    BY <2>1, QueueTail DEF QueuedOnce
<1>8. Permitted'
  <2>1. Unjoined' = (Unjoined \ {a}) \cup {n} /\ a \in Unjoined /\ n \notin Unjoined
    <3>1. a \in Unjoined /\ n \notin Unjoined
      BY <1>1, <1>2, <1>3, <1>4, PhaseFacts DEF Unjoined
    <3>2. \A b \in Actors : b \in Unjoined' <=> b = n \/ (b # a /\ b \in Unjoined)
      BY <1>1, <1>2, <1>3, <1>4, PhaseFacts DEF Unjoined
    <3>3. QED
      BY <1>1, <1>2, <1>3, <3>1, <3>2 DEF Unjoined
  <2>2. IsFiniteSet(Unjoined)
    BY ActorFacts, FS_Subset DEF Unjoined
  <2>3. /\ Cardinality(Unjoined \ {a}) = Cardinality(Unjoined) - 1
        /\ IsFiniteSet(Unjoined \ {a}) /\ Cardinality(Unjoined) \in Nat
    BY <2>1, <2>2, FS_RemoveElement, FS_CardinalityType
  <2>4. Cardinality((Unjoined \ {a}) \cup {n}) = Cardinality(Unjoined \ {a}) + 1
    BY <2>1, <2>3, FS_AddElement
  <2>5. Cardinality(Unjoined') = Cardinality(Unjoined)
    BY <2>1, <2>3, <2>4, SMTT(30)
  <2>6. QED
    BY <2>5 DEF MapInv, Permitted, Unjoined
<1>9. QED
  BY <1>5, <1>6, <1>7, <1>8 DEF MapInv

\* Every step keeps map, tasks and permits in agreement.
LEMMA MapStep ==
    ASSUME Consts, Types, MapInv, [MapNext]_remoteVars
    PROVE  MapInv'
<1> USE DEF mapVars, taskVars, sockVars, msgVars, fateVars
<1>1. ASSUME NEW i \in Ids, SendToActor(i) PROVE MapInv'
  <2>1. CASE UNCHANGED <<mapVars, stage, owner, initial>>
    BY <1>1, <2>1, MapQuiet DEF SendToActor
  <2>2. CASE senders[i] = 0 /\ free > 0 /\ free' = free - 1 /\ Start(i, <<>>, stage)
    BY <1>1, <2>2, MapStart DEF SendToActor
  <2>3. QED
    BY <1>1, <2>1, <2>2 DEF SendToActor
<1>2. ASSUME NEW i \in Ids, TrySendRemote(i) PROVE MapInv'
  BY <1>2, MapQuiet DEF TrySendRemote
<1>3. CASE Reserve \/ SendFails \/ CloseEndpoint \/ Stop
  BY <1>3, MapQuiet DEF Reserve, SendFails, CloseEndpoint, Stop
<1>4. ASSUME NEW a \in Actors, NEW m \in Msgs, Push(m, a) PROVE MapInv'
  BY <1>4, MapQuiet DEF Push
<1>5. ASSUME NEW msgs, completions # <<>>, RemoveOrRestart(Head(completions), msgs)
      PROVE  MapInv'
  BY <1>5, MapRemove, MapRestart DEF RemoveOrRestart
<1>6. CASE Cleanup \/ Join
  BY <1>5, <1>6 DEF Cleanup, Join
<1>7. ASSUME NEW a \in Actors, HandleMessage(a) \/ ConnectionClose(a) PROVE MapInv'
  BY <1>7, MapQuiet DEF HandleMessage, ConnectionClose
<1>8. ASSUME NEW a \in Actors, Leave(a) PROVE MapInv'
  BY <1>8, MapPhase, PhaseFacts DEF Leave
<1>9. ASSUME NEW a \in Actors, Close(a) PROVE MapInv'
  BY <1>9, MapPhase, PhaseFacts DEF Close
<1>10. ASSUME NEW a \in Actors, Drain(a) PROVE MapInv'
  BY <1>10, MapPhase, PhaseFacts DEF Drain
<1>11. ASSUME NEW a \in Actors, Complete(a) PROVE MapInv'
  BY <1>11, MapPhase, PhaseFacts DEF Complete
<1>12. CASE UNCHANGED remoteVars
  BY <1>12, MapQuiet DEF remoteVars
<1>13. QED
  BY <1>1, <1>2, <1>3, <1>4, <1>6, <1>7, <1>8, <1>9, <1>10, <1>11, <1>12 DEF MapNext

-----------------------------------------------------------------------------
(* A message is in one place. *)

\* How a message moves from one of the five sets to another.
LEMMA PartHandled ==
    ASSUME NEW H, NEW F, NEW W, NEW X, NEW C, NEW n, Parted(H, F, W, X, C, n), NEW x \in W
    PROVE  Parted(H \cup {x}, F, W \ {x}, X, C, n)
BY DEF Parted

\* A message that was under way arrives, or fails.
LEMMA PartPushed ==
    ASSUME NEW H, NEW F, NEW W, NEW X, NEW C, NEW n, Parted(H, F, W, X, C, n), NEW x \in F
    PROVE  /\ Parted(H, F \ {x}, W \cup {x}, X, C, n)
           /\ Parted(H, F \ {x}, W, X \cup {x}, C, n)
BY DEF Parted

\* The message at hand is sent off, kept for an actor, or fails.
LEMMA PartCurrent ==
    ASSUME NEW H, NEW F, NEW W, NEW X, NEW n, NEW x, Parted(H, F, W, X, {x}, n)
    PROVE  /\ Parted(H, F \cup {x}, W, X, {}, n)
           /\ Parted(H, F, W \cup {x}, X, {}, n)
           /\ Parted(H, F, W, X \cup {x}, {}, n)
BY DEF Parted

\* Messages that wait are dropped.
LEMMA PartDropped ==
    ASSUME NEW H, NEW F, NEW W, NEW X, NEW C, NEW n, Parted(H, F, W, X, C, n),
           NEW D \in SUBSET W
    PROVE  Parted(H, F, W \ D, X \cup D, C, n)
BY DEF Parted

\* A new message is under way, fails, or is at hand.
LEMMA PartIssued ==
    ASSUME Consts, NEW H, NEW F, NEW W, NEW X, NEW C, NEW n \in Nat,
           Parted(H, F, W, X, C, n)
    PROVE  /\ Parted(H, F \cup {n + 1}, W, X, C, n + 1)
           /\ Parted(H, F, W, X \cup {n + 1}, C, n + 1)
           /\ C = {} => Parted(H, F, W, X, {n + 1}, n + 1)
<1>1. \A m \in Msgs : m \in Nat /\ (m <= n + 1 <=> m <= n \/ m = n + 1) /\ ~ (n + 1 <= n)
  BY ActorFacts, SMTT(30)
<1>2. \A m \in Msgs : m = n + 1 => m \notin H \cup F \cup W \cup X \cup C
  BY <1>1 DEF Parted
<1>3. QED
  BY <1>1, <1>2 DEF Parted

\* A message waits with one actor.
LEMMA HoldsOnce ==
    ASSUME Types, MapInv, Queues, NEW a \in Actors, NEW b \in Actors,
           NEW m \in Holds(a), m \in Holds(b)
    PROVE  a = b
<1>1. ASSUME NEW c \in Actors, m \in Holds(c)
      PROVE  to[m] = owner[c] /\ owner[c] \in Ids /\ senders[owner[c]] = c
  <2>1. QueuesOf(c)
    BY DEF Queues
  <2>2. to[m] = owner[c]
    BY <1>1, <2>1 DEF QueuesOf
  <2>3. stage[c] \in Pending
    <3>1. CASE initial[c] = <<>> /\ inbox[c] = <<>> /\ left[c] = <<>>
      BY <1>1, <3>1, ElemsEmpty DEF Holds
    <3>2. CASE ~ (initial[c] = <<>> /\ inbox[c] = <<>> /\ left[c] = <<>>)
      BY <2>1, <3>2 DEF QueuesOf, Pending
    <3>3. QED
      BY <3>1, <3>2
  <2>4. QED
    BY <2>2, <2>3 DEF MapInv, Led
<1>2. QED
  BY <1>1

\* An actor holds messages.
LEMMA HoldsType ==
    ASSUME Types, NEW a \in Actors
    PROVE  Holds(a) \subseteq Msgs
BY ElemsType DEF Types, Holds

\* What an actor holds was issued, and waits.
LEMMA WaitingIssued ==
    ASSUME Consts, Types, PlaceInv, NEW a \in Actors, NEW m \in Holds(a)
    PROVE  m \in Msgs /\ m <= issued /\ m # issued + 1 /\ m \in Waiting
<1>1. m \in Msgs /\ m \in Waiting
  BY HoldsType DEF Waiting
<1>2. m <= issued
  BY <1>1 DEF PlaceInv, Parted
<1>3. QED
  BY <1>1, <1>2, ActorFacts, SMTT(30) DEF Types

\* The queues of an actor that a step leaves alone.
LEMMA QueuesSame ==
    ASSUME NEW b, QueuesOf(b), initial'[b] = initial[b], inbox'[b] = inbox[b],
           left'[b] = left[b], stage'[b] = stage[b], owner'[b] = owner[b],
           \A m \in Holds(b) : to'[m] = to[m]
    PROVE  QueuesOf(b)' /\ Holds(b)' = Holds(b)
BY DEF QueuesOf, Holds

\* The five sets after a step, from what becomes of each.
Sets(H, F, W, X, C) ==
    Elems(handled') = H /\ Flying' = F /\ Waiting' = W /\ Failed' = X /\ Current' = C

\* The places after a step, given what each of them is then.
LEMMA PartedNext ==
    ASSUME NEW H, NEW F, NEW W, NEW X, NEW C, Sets(H, F, W, X, C),
           Parted(H, F, W, X, C, issued')
    PROVE  Parted(Elems(handled), Flying, Waiting, Failed, Current, issued)'
BY DEF Sets

\* Steps of a task towards its end, and of the socket actor, that move nothing.
LEMMA PlaceStill ==
    ASSUME Types, MapInv, PlaceInv,
           UNCHANGED <<initial, inbox, left, owner, to, tried, inflight, cur, issued, senders>>,
           UNCHANGED <<handled, refused, dropped, lost>>,
           \A a \in Actors : (stage[a] = "unused" <=> stage'[a] = "unused") /\ QueuesOf(a)',
           at' = at \/ (at = "send" /\ at' = "join") \/ (at = "select" /\ at' = "stopped")
    PROVE  PlaceInv'
<1>1. Queues' /\ Distinct(handled')
  BY DEF Queues, PlaceInv
<1>2. Slots'
  BY DEF PlaceInv, Slots
<1>3. Busy'
  BY DEF PlaceInv, Busy
<1>4. Sets(Elems(handled), Flying, Waiting, Failed, Current)
  BY DEF Sets, Flying, Waiting, Holds, Failed, Current
<1>5. QED
  BY <1>1, <1>2, <1>3, <1>4, PartedNext DEF PlaceInv

\* is_idle or the token: the actor leaves its loop, closes its inbox and, once
\* it was drained, sends its completion.
LEMMA PlacePhases ==
    ASSUME Types, MapInv, PlaceInv, NEW a \in Actors, Leave(a) \/ Close(a) \/ Complete(a)
    PROVE  PlaceInv'
<1> USE DEF mapVars, taskVars, sockVars, msgVars, fateVars
<1>1. /\ UNCHANGED <<initial, inbox, left, owner, to, tried, inflight, cur, issued, senders>>
      /\ UNCHANGED <<handled, refused, dropped, lost>> /\ at' = at
  BY DEF Leave, Close, Complete
<1>2. \A b \in Actors : QueuesOf(b)
  BY DEF PlaceInv, Queues
<1>3. \A b \in Actors : b # a => stage'[b] = stage[b]
  BY DEF Leave, Close, Complete, Types
<1>4. /\ stage[a] # "unused" /\ stage'[a] # "unused"
      /\ \/ stage[a] = "running" /\ stage'[a] = "closing" /\ initial[a] = <<>>
         \/ stage[a] = "closing" /\ stage'[a] = "closed"
         \/ stage[a] = "ended" /\ stage'[a] = "queued"
  BY DEF Leave, Close, Complete, Types
<1>5. \A b \in Actors : b # a => QueuesOf(b)'
  BY <1>1, <1>2, <1>3, QueuesSame
<1>6. QueuesOf(a)'
  BY <1>1, <1>2, <1>4 DEF QueuesOf, Holds
<1>7. \A b \in Actors : (stage[b] = "unused" <=> stage'[b] = "unused") /\ QueuesOf(b)'
  BY <1>3, <1>4, <1>5, <1>6
<1>8. QED
  BY <1>1, <1>7, PlaceStill

\* sender.send(message).await takes a slot.
LEMMA PlaceReserve ==
    ASSUME Consts, Types, MapInv, PlaceInv, Reserve
    PROVE  PlaceInv'
<1> USE DEF mapVars, taskVars, sockVars, msgVars, fateVars
<1> DEFINE a == senders[to[cur]]
<1>1. /\ at = "send" /\ at' = "push" /\ inflight' = inflight \cup {<<cur, a>>}
      /\ UNCHANGED <<senders, stage, owner, initial, left, inbox, cur, issued, to, tried>>
      /\ UNCHANGED <<handled, refused, dropped, lost>>
  BY DEF Reserve
<1>2. /\ cur \in 1..issued /\ cur \in Msgs /\ cur \notin tried /\ to[cur] \in Ids
      /\ a \in Actors
  BY <1>1, ActorFacts, SMTT(30) DEF PlaceInv, Busy, Types, Consts
<1>3. stage[a] # "unused" /\ owner[a] = to[cur]
  BY <1>2, ActorFacts, PhaseFacts DEF MapInv, Led
<1>4. cur \notin Flying /\ Current = {cur}
  BY <1>1, <1>2 DEF PlaceInv, Parted, Current
<1> HIDE DEF a
<1>5. Flying' = Flying \cup {cur}
  BY <1>1, <1>2 DEF Flying
<1>6. Slots'
  <2>1. ASSUME NEW m \in Msgs, NEW b \in Actors, <<m, b>> \in inflight'
        PROVE  /\ stage[b] # "unused" /\ to[m] = owner[b]
               /\ \A c \in Actors : <<m, c>> \in inflight' => b = c
               /\ m \in tried \/ m = cur
    <3>1. CASE m = cur
      <4>1. \A c \in Actors : <<m, c>> \in inflight' => c = a
        BY <1>1, <1>2, <1>4, <3>1 DEF Flying
      <4>2. QED
        BY <1>3, <2>1, <3>1, <4>1
    <3>2. CASE m # cur
      <4>1. \A c \in Actors : <<m, c>> \in inflight' => <<m, c>> \in inflight
        BY <1>1, <3>2
      <4>2. QED
        BY <2>1, <4>1 DEF PlaceInv, Slots
    <3>3. QED
      BY <3>1, <3>2
  <2>2. QED
    BY <1>1, <2>1, SMTT(30) DEF Slots
<1>7. Queues' /\ Distinct(handled') /\ Busy'
  BY <1>1, SMTT(30) DEF PlaceInv, Queues, QueuesOf, Holds, Busy
<1>8. Sets(Elems(handled), Flying \cup {cur}, Waiting, Failed, {})
  BY <1>1, <1>5 DEF Sets, Waiting, Holds, Failed, Current
<1>9. Parted(Elems(handled), Flying \cup {cur}, Waiting, Failed, {}, issued)
  BY <1>4, PartCurrent DEF PlaceInv
<1>10. QED
  BY <1>1, <1>6, <1>7, <1>8, <1>9, PartedNext, SMTT(30) DEF PlaceInv

\* A slot is filled, in an inbox that will be read or in one that was drained.
LEMMA PlacePush ==
    ASSUME Consts, Types, MapInv, PlaceInv, NEW a \in Actors, NEW m \in Msgs, Push(m, a)
    PROVE  PlaceInv'
<1> USE DEF mapVars, taskVars, sockVars, msgVars, fateVars
<1>1. /\ <<m, a>> \in inflight /\ inflight' = inflight \ {<<m, a>>}
      /\ at' = IF at = "push" /\ cur = m THEN "select" ELSE at
      /\ UNCHANGED <<senders, stage, owner, initial, left, cur, issued, to, tried>>
      /\ UNCHANGED <<handled, refused, dropped>>
  BY DEF Push
<1>2. /\ to[m] = owner[a] /\ \A b \in Actors : <<m, b>> \in inflight => a = b
  BY <1>1 DEF PlaceInv, Slots
<1>3. m \in Flying /\ m \notin Waiting
  BY <1>1 DEF Flying, PlaceInv, Parted
<1>4. Flying' = Flying \ {m}
  BY <1>1, <1>2 DEF Flying
<1>5. Slots'
  BY <1>1, <1>2, SMTT(30) DEF PlaceInv, Slots
<1>6. Busy' /\ Distinct(handled') /\ Current' = Current
  BY <1>1 DEF PlaceInv, Busy, Current
<1>7. \A b \in Actors : QueuesOf(b)
  BY DEF PlaceInv, Queues
<1>8. CASE stage[a] \in {"running", "closing", "closed"}
  <2>1. inbox' = [inbox EXCEPT ![a] = Append(@, m)] /\ lost' = lost
    BY <1>8 DEF Push
  <2>2. /\ inbox'[a] = Append(inbox[a], m) /\ \A b \in Actors : b # a => inbox'[b] = inbox[b]
        /\ inbox[a] \in Seq(Msgs)
    BY <2>1 DEF Types
  <2>3. m \notin Elems(inbox[a]) /\ m \notin Elems(initial[a])
    BY <1>3 DEF Waiting, Holds
  <2>4. Elems(inbox'[a]) = Elems(inbox[a]) \cup {m} /\ Distinct(inbox'[a])
    BY <1>7, <2>2, <2>3, ElemsAppend, SMTT(30) DEF QueuesOf
  <2>5. Holds(a)' = Holds(a) \cup {m}
    BY <1>1, <2>4 DEF Holds
  <2>6. QueuesOf(a)'
    BY <1>1, <1>2, <1>7, <1>8, <2>3, <2>4, <2>5, SMTT(30) DEF QueuesOf
  <2>7. \A b \in Actors : b # a => QueuesOf(b)' /\ Holds(b)' = Holds(b)
    BY <1>1, <1>7, <2>2, QueuesSame
  <2>8. Queues' /\ Waiting' = Waiting \cup {m}
    BY <2>5, <2>6, <2>7 DEF Queues, Waiting
  <2>9. Sets(Elems(handled), Flying \ {m}, Waiting \cup {m}, Failed, Current)
    BY <1>1, <1>4, <1>6, <2>1, <2>8 DEF Sets, Failed
  <2>10. Parted(Elems(handled), Flying \ {m}, Waiting \cup {m}, Failed, Current, issued)
    BY <1>3, PartPushed DEF PlaceInv
  <2>11. QED
    BY <1>1, <1>5, <1>6, <2>8, <2>9, <2>10, PartedNext DEF PlaceInv
<1>9. CASE stage[a] \notin {"running", "closing", "closed"}
  <2>1. lost' = lost \cup {m} /\ inbox' = inbox
    BY <1>9 DEF Push
  <2>2. \A b \in Actors : QueuesOf(b)' /\ Holds(b)' = Holds(b)
    BY <1>1, <1>7, <2>1, QueuesSame
  <2>3. Queues' /\ Waiting' = Waiting
    BY <2>2 DEF Queues, Waiting
  <2>4. Sets(Elems(handled), Flying \ {m}, Waiting, Failed \cup {m}, Current)
    BY <1>1, <1>4, <1>6, <2>1, <2>3 DEF Sets, Failed
  <2>5. Parted(Elems(handled), Flying \ {m}, Waiting, Failed \cup {m}, Current, issued)
    BY <1>3, PartPushed DEF PlaceInv
  <2>6. QED
    BY <1>1, <1>5, <1>6, <2>3, <2>4, <2>5, PartedNext DEF PlaceInv
<1>10. QED
  BY <1>8, <1>9

\* The inbox's messages are pulled out.
LEMMA PlaceDrain ==
    ASSUME Types, MapInv, PlaceInv, NEW a \in Actors, Drain(a)
    PROVE  PlaceInv'
<1> USE DEF mapVars, taskVars, sockVars, msgVars, fateVars
<1>1. /\ stage[a] = "closed" /\ stage' = [stage EXCEPT ![a] = "ended"]
      /\ left' = [left EXCEPT ![a] = inbox[a]] /\ inbox' = [inbox EXCEPT ![a] = <<>>]
      /\ UNCHANGED <<senders, owner, initial, inflight, at, cur, issued, to, tried>>
      /\ UNCHANGED <<handled, refused, dropped, lost>>
  BY DEF Drain
<1>2. /\ stage'[a] = "ended" /\ left'[a] = inbox[a] /\ inbox'[a] = <<>>
      /\ \A b \in Actors : b # a => /\ stage'[b] = stage[b] /\ left'[b] = left[b]
                                    /\ inbox'[b] = inbox[b]
  BY <1>1 DEF Types
<1>3. \A b \in Actors : QueuesOf(b)
  BY DEF PlaceInv, Queues
<1>4. \A b \in Actors : b # a => QueuesOf(b)' /\ Holds(b)' = Holds(b)
  BY <1>1, <1>2, <1>3, QueuesSame
<1>5. Holds(a)' = Holds(a)
  BY <1>1, <1>2, <1>3, ElemsEmpty DEF QueuesOf, Holds
<1>6. QueuesOf(a)'
  BY <1>1, <1>2, <1>3, <1>5, ElemsEmpty, SMTT(30) DEF QueuesOf
<1>7. Queues' /\ Waiting' = Waiting
  BY <1>4, <1>5, <1>6 DEF Queues, Waiting
<1>8. Slots'
  BY <1>1, <1>2, SMTT(30) DEF PlaceInv, Slots
<1>9. Busy' /\ Distinct(handled')
  BY <1>1 DEF PlaceInv, Busy
<1>10. Sets(Elems(handled), Flying, Waiting, Failed, Current)
  BY <1>1, <1>7 DEF Sets, Flying, Failed, Current
<1>11. QED
  BY <1>1, <1>7, <1>8, <1>9, <1>10, PartedNext DEF PlaceInv

\* A message is handled.
LEMMA PlaceHandle ==
    ASSUME Types, MapInv, PlaceInv, NEW a \in Actors, HandleMessage(a)
    PROVE  PlaceInv'
<1> USE DEF mapVars, taskVars, sockVars, msgVars, fateVars
<1>1. PICK x : Takes(a, x)
  BY HandleTakes
<1>2. /\ stage[a] = "running"
      /\ UNCHANGED <<senders, stage, owner, left, inflight, at, cur, issued, to, tried>>
      /\ UNCHANGED <<refused, dropped, lost>>
  BY DEF HandleMessage
<1>3. /\ initial[a] \in Seq(Msgs) /\ inbox[a] \in Seq(Msgs) /\ handled \in Seq(Msgs)
      /\ \A b \in Actors : QueuesOf(b)
  BY DEF Types, PlaceInv, Queues
<1>4. \A b \in Actors : b # a => initial'[b] = initial[b] /\ inbox'[b] = inbox[b]
  BY <1>1 DEF Takes, Types
<1>5. left[a] = <<>> /\ left'[a] = <<>>
  BY <1>2, <1>3 DEF QueuesOf
<1>6. /\ x \in Holds(a) /\ Holds(a)' = Holds(a) \ {x}
      /\ Distinct(initial'[a]) /\ Distinct(inbox'[a])
      /\ Elems(initial'[a]) \cap Elems(inbox'[a]) = {}
  <2>1. CASE /\ initial[a] # <<>> /\ x = Head(initial[a])
             /\ initial' = [initial EXCEPT ![a] = Tail(initial[a])] /\ inbox' = inbox
    <3>1. initial'[a] = Tail(initial[a]) /\ inbox'[a] = inbox[a]
      BY <2>1 DEF Types
    <3>2. /\ Elems(initial[a]) = {x} \cup Elems(Tail(initial[a]))
          /\ Distinct(Tail(initial[a])) /\ x \notin Elems(Tail(initial[a]))
      BY <1>3, <2>1, ElemsTail DEF QueuesOf
    <3>3. QED
      BY <1>3, <1>5, <3>1, <3>2, ElemsEmpty DEF Holds, QueuesOf
  <2>2. CASE /\ initial[a] = <<>> /\ inbox[a] # <<>> /\ x = Head(inbox[a])
             /\ inbox' = [inbox EXCEPT ![a] = Tail(inbox[a])] /\ initial' = initial
    <3>1. inbox'[a] = Tail(inbox[a]) /\ initial'[a] = <<>>
      BY <2>2 DEF Types
    <3>2. /\ Elems(inbox[a]) = {x} \cup Elems(Tail(inbox[a]))
          /\ Distinct(Tail(inbox[a])) /\ x \notin Elems(Tail(inbox[a]))
      BY <1>3, <2>2, ElemsTail DEF QueuesOf
    <3>3. QED
      BY <1>3, <1>5, <2>2, <3>1, <3>2, ElemsEmpty, SMTT(30) DEF Holds, QueuesOf
  <2>3. QED
    BY <1>1, <2>1, <2>2 DEF Takes
<1>7. QueuesOf(a)'
  BY <1>2, <1>3, <1>5, <1>6, ElemsEmpty DEF QueuesOf
<1>8. \A b \in Actors : b # a => QueuesOf(b)' /\ Holds(b)' = Holds(b)
  BY <1>2, <1>3, <1>4, QueuesSame
<1>9. \A b \in Actors : b # a => x \notin Holds(b)
  BY <1>6, HoldsOnce DEF PlaceInv
<1>10. Queues' /\ Waiting' = Waiting \ {x} /\ x \in Waiting
  <2>1. x \in Msgs
    BY <1>6, HoldsType
  <2>2. QED
    BY <1>6, <1>7, <1>8, <1>9, <2>1 DEF Queues, Waiting
<1>11. Elems(handled') = Elems(handled) \cup {x} /\ Distinct(handled')
  <2>1. x \notin Elems(handled) /\ Distinct(handled)
    BY <1>10 DEF PlaceInv, Parted, Waiting
  <2>2. QED
    BY <1>1, <1>3, <2>1, ElemsAppend, SMTT(30) DEF Takes
<1>12. Slots' /\ Busy'
  BY <1>2, SMTT(30) DEF PlaceInv, Slots, Busy
<1>13. Sets(Elems(handled) \cup {x}, Flying, Waiting \ {x}, Failed, Current)
  BY <1>2, <1>10, <1>11 DEF Sets, Flying, Failed, Current
<1>14. Parted(Elems(handled) \cup {x}, Flying, Waiting \ {x}, Failed, Current, issued)
  BY <1>10, PartHandled DEF PlaceInv
<1>15. QED
  BY <1>2, <1>10, <1>11, <1>12, <1>13, <1>14, PartedNext, SMTT(30) DEF PlaceInv

\* An actor that is started is a new one, with empty queues and no slots taken.
LEMMA StartFresh ==
    ASSUME Consts, Types, MapInv, PlaceInv, NEW n, n = started + 1, n \in Actors
    PROVE  /\ stage[n] = "unused" /\ initial[n] = <<>> /\ inbox[n] = <<>> /\ left[n] = <<>>
           /\ Holds(n) = {} /\ \A m \in Msgs : <<m, n>> \notin inflight
<1>1. stage[n] = "unused"
  BY ActorFacts, SMTT(30) DEF MapInv, InTurn, Types
<1>2. initial[n] = <<>> /\ inbox[n] = <<>> /\ left[n] = <<>>
  BY <1>1 DEF PlaceInv, Queues, QueuesOf
<1>3. Holds(n) = {}
  BY <1>2, ElemsEmpty DEF Holds
<1>4. QED
  BY <1>1, <1>2, <1>3 DEF PlaceInv, Slots

\* send_to_actor numbers the message and finds, starts or does without an actor.
LEMMA PlaceSend ==
    ASSUME Consts, Types, MapInv, PlaceInv, NEW i \in Ids, SendToActor(i)
    PROVE  PlaceInv'
<1> USE DEF mapVars, taskVars, sockVars, msgVars, fateVars
<1> DEFINE m == issued + 1
<1>1. /\ at = "select" /\ issued < MaxMsgs /\ issued' = m /\ to' = [to EXCEPT ![m] = i]
      /\ UNCHANGED <<left, inbox, inflight, tried, handled, dropped, lost>>
  BY DEF SendToActor
<1>2. /\ m \in Msgs /\ issued \in Nat /\ to'[m] = i
      /\ \A x \in Msgs : x # m => to'[x] = to[x]
  BY <1>1, Issue DEF Types
<1>3. /\ \A b \in Actors : QueuesOf(b)
      /\ \A b \in Actors : \A x \in Holds(b) : to'[x] = to[x]
  BY <1>2, WaitingIssued DEF PlaceInv, Queues
<1>4. /\ Current = {} /\ m \notin Flying
      /\ \A x \in Msgs : \A b \in Actors : <<x, b>> \in inflight => x \in tried /\ x # m
  <2>1. ~ (m <= issued)
    BY <1>2, SMTT(30)
  <2>2. Current = {} /\ m \notin Flying
    BY <1>1, <1>2, <2>1 DEF Current, PlaceInv, Parted
  <2>3. QED
    BY <1>1, <2>2 DEF PlaceInv, Slots, Flying
<1>5. /\ tried \subseteq 1..m /\ \A x \in 1..m : to'[x] \in Ids
      /\ m \notin tried /\ m \in 1..m /\ \A x \in 1..m : ~ (x > m)
  <2>1. tried \subseteq 1..issued /\ \A x \in 1..issued : to[x] \in Ids /\ x \in Msgs /\ x # m
    BY <1>2, ActorFacts, SMTT(30) DEF PlaceInv, Busy, Types, Consts
  <2>2. \A x \in 1..m : x = m \/ x \in 1..issued
    BY <1>2, SMTT(30)
  <2>3. m \notin 1..issued /\ 1..issued \subseteq 1..m
    BY <1>2, SMTT(30)
  <2>4. QED
    BY <1>2, <2>1, <2>2, <2>3, SMTT(30)
<1>6. Parted(Elems(handled), Flying, Waiting, Failed, Current, issued)
  BY DEF PlaceInv
<1> HIDE DEF m
<1>7. CASE /\ senders[i] # 0 /\ at' = "send" /\ cur' = m
           /\ UNCHANGED <<senders, stage, owner, initial, refused>>
  <2>1. \A b \in Actors : QueuesOf(b)' /\ Holds(b)' = Holds(b)
    BY <1>1, <1>3, <1>7, QueuesSame
  <2>2. Queues' /\ Waiting' = Waiting
    BY <2>1 DEF Queues, Waiting
  <2>3. Slots'
    BY <1>1, <1>2, <1>4, <1>7 DEF PlaceInv, Slots
  <2>4. Busy' /\ Distinct(handled')
    <3>1. senders'[to'[cur']] # 0 /\ tried' = tried
      BY <1>1, <1>2, <1>7
    <3>2. \A x \in 1..issued' : x > cur' => x \in tried'
      BY <1>1, <1>5, <1>7, <3>1
    <3>3. cur' \in 1..issued' /\ cur' \notin tried'
      BY <1>1, <1>5, <1>7, <3>1
    <3>4. tried' \subseteq 1..issued' /\ \A x \in 1..issued' : to'[x] \in Ids
      BY <1>1, <1>5, <3>1
    <3>5. Busy'
      BY <3>1, <3>2, <3>3, <3>4 DEF Busy
    <3>6. QED
      BY <1>1, <3>5 DEF PlaceInv
  <2>5. Sets(Elems(handled), Flying, Waiting, Failed, {m})
    BY <1>1, <1>7, <2>2 DEF Sets, Flying, Failed, Current
  <2>6. Parted(Elems(handled), Flying, Waiting, Failed, {m}, issued')
    BY <1>1, <1>2, <1>4, <1>6, PartIssued DEF m
  <2>7. QED
    BY <2>2, <2>3, <2>4, <2>5, <2>6, PartedNext DEF PlaceInv
<1>8. CASE senders[i] = 0 /\ Start(i, <<>>, stage) /\ at' = "send" /\ cur' = m /\ refused' = refused
  <2>n. PICK n \in Actors : n = started + 1
    BY <1>8 DEF Start
  <2>1. /\ n \in Actors /\ stage' = [stage EXCEPT ![n] = "running"]
        /\ owner' = [owner EXCEPT ![n] = i] /\ initial' = [initial EXCEPT ![n] = <<>>]
        /\ senders' = [senders EXCEPT ![i] = n]
    BY <1>8, <2>n DEF Start
  <2>2. /\ stage[n] = "unused" /\ initial[n] = <<>> /\ inbox[n] = <<>> /\ left[n] = <<>>
        /\ Holds(n) = {} /\ \A x \in Msgs : <<x, n>> \notin inflight
    BY <2>n, StartFresh
  <2>3. /\ stage'[n] = "running" /\ owner'[n] = i /\ initial'[n] = <<>> /\ senders'[i] = n
        /\ \A b \in Actors : b # n => /\ stage'[b] = stage[b] /\ owner'[b] = owner[b]
                                      /\ initial'[b] = initial[b]
    BY <2>1 DEF Types
  <2>4. \A b \in Actors : b # n => QueuesOf(b)' /\ Holds(b)' = Holds(b)
    BY <1>1, <1>3, <2>3, QueuesSame
  <2>5. Holds(n)' = {}
    BY <1>1, <2>2, <2>3, ElemsEmpty DEF Holds
  <2>6. QueuesOf(n)'
    BY <1>1, <2>2, <2>3, <2>5, ElemsEmpty DEF QueuesOf
  <2>7. Queues' /\ Waiting' = Waiting
    BY <2>2, <2>4, <2>5, <2>6 DEF Queues, Waiting
  <2>8. Slots'
    <3>1. ASSUME NEW x \in Msgs, NEW b \in Actors, <<x, b>> \in inflight
          PROVE  /\ stage'[b] # "unused" /\ to'[x] = owner'[b] /\ x \in tried
                 /\ \A c \in Actors : <<x, c>> \in inflight => b = c
      <4>1. b # n /\ x # m /\ x \in tried
        BY <1>4, <2>2, <3>1
      <4>2. /\ stage[b] # "unused" /\ to[x] = owner[b]
            /\ \A c \in Actors : <<x, c>> \in inflight => b = c
        BY <3>1 DEF PlaceInv, Slots
      <4>3. QED
        BY <1>2, <2>3, <4>1, <4>2
    <3>2. inflight' = inflight /\ tried' = tried
      BY <1>1
    <3>3. QED
      BY <3>1, <3>2 DEF Slots
  <2>9. Busy' /\ Distinct(handled')
    <3>1. senders'[to'[cur']] # 0 /\ tried' = tried
      BY <1>1, <1>2, <1>8, <2>1, <2>3, ActorFacts, SMTT(30)
    <3>2. \A x \in 1..issued' : x > cur' => x \in tried'
      BY <1>1, <1>5, <1>8, <3>1
    <3>3. cur' \in 1..issued' /\ cur' \notin tried'
      BY <1>1, <1>5, <1>8, <3>1
    <3>4. tried' \subseteq 1..issued' /\ \A x \in 1..issued' : to'[x] \in Ids
      BY <1>1, <1>5, <3>1
    <3>5. Busy'
      BY <3>1, <3>2, <3>3, <3>4, SMTT(30) DEF Busy
    <3>6. QED
      BY <1>1, <3>5 DEF PlaceInv
  <2>10. Sets(Elems(handled), Flying, Waiting, Failed, {m})
    BY <1>1, <1>8, <2>7 DEF Sets, Flying, Failed, Current
  <2>11. Parted(Elems(handled), Flying, Waiting, Failed, {m}, issued')
    BY <1>1, <1>2, <1>4, <1>6, PartIssued DEF m
  <2>12. QED
    BY <2>7, <2>8, <2>9, <2>10, <2>11, PartedNext, SMTT(30) DEF PlaceInv
<1>9. CASE refused' = refused \cup {m} /\ UNCHANGED <<senders, stage, owner, initial, at, cur>>
  <2>1. \A b \in Actors : QueuesOf(b)' /\ Holds(b)' = Holds(b)
    BY <1>1, <1>3, <1>9, QueuesSame
  <2>2. Queues' /\ Waiting' = Waiting
    BY <2>1 DEF Queues, Waiting
  <2>3. Slots'
    BY <1>1, <1>2, <1>4, <1>9 DEF PlaceInv, Slots
  <2>4. Busy' /\ Distinct(handled')
    BY <1>1, <1>5, <1>9 DEF Busy, PlaceInv
  <2>5. Sets(Elems(handled), Flying, Waiting, Failed \cup {m}, Current)
    BY <1>1, <1>9, <2>2 DEF Sets, Flying, Failed, Current
  <2>6. Parted(Elems(handled), Flying, Waiting, Failed \cup {m}, Current, issued')
    BY <1>1, <1>2, <1>6, PartIssued DEF m
  <2>7. QED
    BY <2>2, <2>3, <2>4, <2>5, <2>6, PartedNext, SMTT(30) DEF PlaceInv
<1>10. QED
  BY <1>7, <1>8, <1>9 DEF SendToActor, m

\* Another thread tries to send.
LEMMA PlaceTry ==
    ASSUME Consts, Types, MapInv, PlaceInv, NEW i \in Ids, TrySendRemote(i)
    PROVE  PlaceInv'
<1> USE DEF mapVars, taskVars, sockVars, msgVars, fateVars
<1> DEFINE m == issued + 1
           a == senders[i]
<1>1. /\ issued < MaxMsgs /\ issued' = m /\ to' = [to EXCEPT ![m] = i]
      /\ tried' = tried \cup {m}
      /\ UNCHANGED <<senders, stage, owner, initial, left, inbox, at, cur>>
      /\ UNCHANGED <<handled, refused, lost>>
  BY DEF TrySendRemote
<1>2. /\ m \in Msgs /\ issued \in Nat /\ to'[m] = i
      /\ \A x \in Msgs : x # m => to'[x] = to[x]
  BY <1>1, Issue DEF Types
<1>3. /\ \A b \in Actors : QueuesOf(b)
      /\ \A b \in Actors : \A x \in Holds(b) : to'[x] = to[x]
  BY <1>2, WaitingIssued DEF PlaceInv, Queues
<1>4. m \notin Flying /\ \A x \in Msgs : \A b \in Actors : <<x, b>> \in inflight => x # m
  <2>1. ~ (m <= issued)
    BY <1>2, SMTT(30)
  <2>2. m \notin Flying
    BY <1>2, <2>1 DEF PlaceInv, Parted
  <2>3. QED
    BY <2>2 DEF Flying
<1>5. Parted(Elems(handled), Flying, Waiting, Failed, Current, issued)
  BY DEF PlaceInv
<1>6. Busy' /\ Distinct(handled')
  <2>1. /\ tried \subseteq 1..issued
        /\ \A x \in 1..issued : to[x] \in Ids /\ x \in Msgs /\ x # m /\ to'[x] = to[x]
    BY <1>2, ActorFacts, SMTT(30) DEF PlaceInv, Busy, Types, Consts
  <2>2. \A x \in 1..m : x = m \/ x \in 1..issued
    BY <1>2, SMTT(30)
  <2>3. m \notin 1..issued /\ 1..issued \subseteq 1..m /\ m \in 1..m
    BY <1>2, SMTT(30)
  <2>4. tried' \subseteq 1..issued' /\ \A x \in 1..issued' : to'[x] \in Ids
    BY <1>1, <1>2, <2>1, <2>2, <2>3
  <2>5. ASSUME at \in {"send", "push", "join"}
        PROVE  /\ cur \in 1..m /\ cur \notin tried' /\ to'[cur] = to[cur]
               /\ \A x \in 1..m : x > cur => x \in tried'
    BY <1>1, <2>1, <2>2, <2>3, <2>5 DEF PlaceInv, Busy
  <2> HIDE DEF m
  <2>6. QED
    BY <1>1, <2>4, <2>5 DEF PlaceInv, Busy
<1>7. \A b \in Actors : QueuesOf(b)' /\ Holds(b)' = Holds(b)
  BY <1>1, <1>3, QueuesSame
<1>8. Queues' /\ Waiting' = Waiting
  BY <1>7 DEF Queues, Waiting
<1>9. CASE a # 0 /\ Open(a) /\ inflight' = inflight \cup {<<m, a>>} /\ dropped' = dropped
  <2>1. a \in Actors /\ stage[a] # "unused" /\ owner[a] = i
    BY <1>9, PhaseFacts, SMTT(30) DEF Types, MapInv, Led
  <2> HIDE DEF m, a
  <2>2. Flying' = Flying \cup {m}
    BY <1>2, <1>9, <2>1 DEF Flying
  <2>3. Slots'
    <3>1. ASSUME NEW x \in Msgs, NEW b \in Actors, <<x, b>> \in inflight'
          PROVE  /\ stage[b] # "unused" /\ to'[x] = owner[b]
                 /\ \A c \in Actors : <<x, c>> \in inflight' => b = c
                 /\ x \in tried' \/ (at = "push" /\ x = cur)
      <4>1. CASE x = m
        <5>1. \A c \in Actors : <<x, c>> \in inflight' => c = a
          BY <1>4, <1>9, <4>1
        <5>2. QED
          BY <1>1, <1>2, <2>1, <3>1, <4>1, <5>1
      <4>2. CASE x # m
        <5>1. \A c \in Actors : <<x, c>> \in inflight' => <<x, c>> \in inflight
          BY <1>9, <4>2
        <5>2. QED
          BY <1>1, <1>2, <3>1, <4>2, <5>1 DEF PlaceInv, Slots
      <4>3. QED
        BY <4>1, <4>2
    <3>2. QED
      BY <1>1, <3>1, SMTT(30) DEF Slots
  <2>4. Sets(Elems(handled), Flying \cup {m}, Waiting, Failed, Current)
    BY <1>1, <1>8, <1>9, <2>2 DEF Sets, Failed, Current
  <2>5. Parted(Elems(handled), Flying \cup {m}, Waiting, Failed, Current, issued')
    BY <1>1, <1>2, <1>5, PartIssued DEF m
  <2>6. QED
    BY <1>6, <1>8, <2>3, <2>4, <2>5, PartedNext DEF PlaceInv
<1>10. CASE dropped' = dropped \cup {m} /\ inflight' = inflight
  <2> HIDE DEF m, a
  <2>1. Slots'
    BY <1>1, <1>2, <1>4, <1>10, SMTT(30) DEF PlaceInv, Slots
  <2>2. Sets(Elems(handled), Flying, Waiting, Failed \cup {m}, Current)
    BY <1>1, <1>8, <1>10 DEF Sets, Flying, Failed, Current
  <2>3. Parted(Elems(handled), Flying, Waiting, Failed \cup {m}, Current, issued')
    BY <1>1, <1>2, <1>5, PartIssued DEF m
  <2>4. QED
    BY <1>6, <1>8, <2>1, <2>2, <2>3, PartedNext DEF PlaceInv
<1>11. QED
  BY <1>9, <1>10 DEF TrySendRemote, m, a

\* What remove_or_restart_actor is given: the leftovers and, in send_to_actor,
\* the message that waits, behind them.
Given(a, msgs, E) ==
    \/ E = {} /\ msgs = left[a] /\ at' = at /\ at \in {"select", "join"}
    \/ /\ E = {cur} /\ msgs = Append(left[a], cur) /\ to[cur] = owner[a]
       /\ at = "join" /\ at' = "select"

\* What a restarted actor is given: what its predecessor left, and the
\* message at hand if there is one.
LEMMA GivenFacts ==
    ASSUME Consts, Types, PlaceInv, NEW a \in Actors, NEW msgs, NEW E, Given(a, msgs, E),
           cur' = cur
    PROVE  /\ msgs \in Seq(Msgs) /\ Elems(msgs) = Elems(left[a]) \cup E /\ Distinct(msgs)
           /\ \A m \in Elems(msgs) : to[m] = owner[a]
           /\ E \subseteq Msgs
           /\ Parted(Elems(handled), Flying, Waiting \cup E, Failed, Current', issued)
<1>1. left[a] \in Seq(Msgs) /\ QueuesOf(a)
  BY DEF Types, PlaceInv, Queues
<1>2. Elems(left[a]) \subseteq Holds(a)
  BY DEF Holds
<1>3. CASE E = {} /\ msgs = left[a] /\ at' = at
  <2>1. Current' = Current /\ Waiting \cup E = Waiting
    BY <1>3 DEF Current
  <2>2. QED
    BY <1>1, <1>2, <1>3, <2>1 DEF QueuesOf, PlaceInv
<1>4. CASE /\ E = {cur} /\ msgs = Append(left[a], cur) /\ to[cur] = owner[a]
           /\ at = "join" /\ at' = "select"
  <2>1. cur \in Msgs /\ Current = {cur} /\ Current' = {}
    BY <1>4, ActorFacts, SMTT(30) DEF Current, PlaceInv, Busy, Types, Consts
  <2>2. cur \notin Waiting
    BY <2>1 DEF PlaceInv, Parted
  <2>3. cur \notin Elems(left[a])
    BY <1>2, <2>1, <2>2 DEF Waiting
  <2>4. msgs \in Seq(Msgs) /\ Elems(msgs) = Elems(left[a]) \cup E /\ Distinct(msgs)
    <3>1. Distinct(left[a])
      BY <1>1 DEF QueuesOf
    <3>2. /\ Append(left[a], cur) \in Seq(Msgs)
          /\ Elems(Append(left[a], cur)) = Elems(left[a]) \cup {cur}
          /\ Distinct(Append(left[a], cur))
      BY <1>1, <2>1, <2>3, <3>1, ElemsAppend
    <3>3. QED
      BY <1>4, <3>2
  <2>5. Parted(Elems(handled), Flying, Waiting, Failed, {cur}, issued)
    BY <2>1 DEF PlaceInv
  <2>6. QED
    BY <1>1, <1>2, <1>4, <2>1, <2>4, <2>5, PartCurrent DEF QueuesOf
<1>5. QED
  BY <1>3, <1>4 DEF Given

\* remove_or_restart_actor: the leftovers fail together, or go to the successor.
LEMMA PlaceReap ==
    ASSUME Consts, Types, MapInv, PlaceInv, completions # <<>>, NEW a, a = Head(completions),
           NEW msgs, NEW E, Given(a, msgs, E), RemoveOrRestart(a, msgs)
    PROVE  PlaceInv'
<1> USE DEF mapVars, taskVars, sockVars, msgVars, fateVars
<1>1. /\ left' = [left EXCEPT ![a] = <<>>]
      /\ UNCHANGED <<inbox, inflight, cur, issued, to, tried, handled, refused, lost>>
  BY DEF RemoveOrRestart
<1>2. a \in Actors /\ stage[a] = "queued" /\ owner[a] \in Ids
  BY CompletionsHead
<1>3. /\ msgs \in Seq(Msgs) /\ Elems(msgs) = Elems(left[a]) \cup E /\ Distinct(msgs)
      /\ \A m \in Elems(msgs) : to[m] = owner[a]
      /\ E \subseteq Msgs
      /\ Parted(Elems(handled), Flying, Waiting \cup E, Failed, Current', issued)
  BY <1>1, <1>2, GivenFacts
<1>4. /\ \A b \in Actors : QueuesOf(b)
      /\ initial[a] = <<>> /\ inbox[a] = <<>> /\ left'[a] = <<>>
      /\ \A b \in Actors : b # a => left'[b] = left[b]
  BY <1>1, <1>2 DEF PlaceInv, Queues, QueuesOf, Types
<1>5. Holds(a) = Elems(left[a])
  BY <1>4, ElemsEmpty DEF Holds
<1>6. \A b \in Actors : b # a => Holds(b) \cap Holds(a) = {}
  BY <1>2, HoldsOnce DEF PlaceInv
<1>7. Holds(a) \subseteq Waiting
  BY <1>2, HoldsType DEF Waiting
<1>8. /\ at \in {"select", "join"} /\ at' \in {"select", "join"} /\ (at' = at \/ at' = "select")
      /\ \A m \in Msgs : \A b \in Actors : <<m, b>> \in inflight => m \in tried
  BY DEF Given, PlaceInv, Slots
<1>9. Busy' /\ Distinct(handled')
  BY <1>1, <1>8 DEF PlaceInv, Busy
<1>10. CASE /\ stage' = [stage EXCEPT ![a] = "gone"] /\ dropped' = dropped \cup Range(msgs)
            /\ UNCHANGED <<started, owner, initial>>
  <2>1. stage'[a] = "gone" /\ \A b \in Actors : b # a => stage'[b] = stage[b]
    BY <1>2, <1>10 DEF Types
  <2>2. \A b \in Actors : b # a => QueuesOf(b)' /\ Holds(b)' = Holds(b)
    BY <1>1, <1>4, <1>10, <2>1, QueuesSame
  <2>3. Holds(a)' = {}
    <3>1. a' = a
      OBVIOUS
    <3>2. QED
      BY <1>1, <1>4, <1>10, ElemsEmpty DEF Holds
  <2>4. QueuesOf(a)'
    BY <1>1, <1>4, <1>10, <2>1, <2>3, ElemsEmpty, SMTT(30) DEF QueuesOf
  <2>5. Queues'
    BY <2>2, <2>4 DEF Queues
  <2>6. Waiting' = (Waiting \cup E) \ Elems(msgs)
    <3>1. Waiting' = Waiting \ Holds(a)
      BY <1>2, <1>6, <2>2, <2>3, SMTT(30) DEF Waiting
    <3>2. E \cap (Waiting \ Holds(a)) \subseteq {}
      BY <1>1, <1>2, <1>3, <1>5 DEF Given, PlaceInv, Parted, Current
    <3>3. QED
      BY <1>3, <1>5, <3>1, <3>2
  <2>7. Slots'
    BY <1>1, <1>8, <1>10, <2>1 DEF PlaceInv, Slots
  <2>8. Failed' = Failed \cup Elems(msgs)
    BY <1>1, <1>3, <1>10, ElemsType, SMTT(30) DEF Failed
  <2>9. Sets(Elems(handled), Flying, (Waiting \cup E) \ Elems(msgs), Failed \cup Elems(msgs),
             Current')
    BY <1>1, <2>6, <2>8 DEF Sets, Flying
  <2>10. Parted(Elems(handled), Flying, (Waiting \cup E) \ Elems(msgs), Failed \cup Elems(msgs),
                Current', issued)
    <3>1. Elems(msgs) \subseteq Waiting \cup E
      BY <1>3, <1>5, <1>7
    <3>2. QED
      BY <1>3, <3>1, PartDropped
  <2>11. QED
    BY <1>1, <1>9, <2>5, <2>7, <2>9, <2>10, PartedNext, SMTT(30) DEF PlaceInv
<1>11. CASE Start(owner[a], msgs, [stage EXCEPT ![a] = "gone"]) /\ UNCHANGED <<free, dropped>>
  <2>n. PICK n \in Actors : n = started + 1
    BY <1>11 DEF Start
  <2>1. /\ stage' = [[stage EXCEPT ![a] = "gone"] EXCEPT ![n] = "running"]
        /\ owner' = [owner EXCEPT ![n] = owner[a]] /\ initial' = [initial EXCEPT ![n] = msgs]
    BY <1>11, <2>n DEF Start
  <2>2. /\ stage[n] = "unused" /\ initial[n] = <<>> /\ inbox[n] = <<>> /\ left[n] = <<>>
        /\ Holds(n) = {} /\ \A x \in Msgs : <<x, n>> \notin inflight
    BY <2>n, StartFresh
  <2>3. n # a
    BY <1>2, <2>2
  <2>4. /\ stage'[n] = "running" /\ owner'[n] = owner[a] /\ initial'[n] = msgs
        /\ stage'[a] = "gone" /\ \A b \in Actors : b # n /\ b # a => stage'[b] = stage[b]
        /\ \A b \in Actors : b # n => owner'[b] = owner[b] /\ initial'[b] = initial[b]
    BY <1>2, <2>1, <2>3 DEF Types
  <2>5. \A b \in Actors : b # n /\ b # a => QueuesOf(b)' /\ Holds(b)' = Holds(b)
    BY <1>1, <1>4, <2>4, QueuesSame
  <2>6. Holds(a)' = {}
    BY <1>1, <1>2, <1>4, <2>3, <2>4, ElemsEmpty, SMTT(30) DEF Holds
  <2>7. QueuesOf(a)'
    BY <1>1, <1>2, <1>4, <2>3, <2>4, <2>6, ElemsEmpty, SMTT(30) DEF QueuesOf
  <2>8. left'[n] = <<>> /\ inbox'[n] = <<>>
    BY <1>1, <1>4, <2>2, <2>3
  <2>9. Holds(n)' = Elems(msgs)
    BY <2>4, <2>8, ElemsEmpty DEF Holds
  <2>10. QueuesOf(n)'
    BY <1>1, <1>3, <2>4, <2>8, <2>9, ElemsEmpty DEF QueuesOf
  <2>11. Queues'
    BY <2>5, <2>7, <2>10 DEF Queues
  <2>12. Waiting' = Waiting \cup E
    <3>1. \A m \in Waiting : m \in Waiting'
      <4>1. SUFFICES ASSUME NEW m \in Msgs, NEW b \in Actors, m \in Holds(b)
                     PROVE  \E c \in Actors : m \in Holds(c)'
        BY DEF Waiting
      <4>2. CASE b = a
        BY <1>3, <1>5, <2>9, <4>1, <4>2, SMTT(30)
      <4>3. CASE b # a
        BY <2>2, <2>5, <4>1, <4>3
      <4>4. QED
        BY <4>2, <4>3
    <3>2. \A m \in E : m \in Waiting'
      BY <1>3, <2>9 DEF Waiting
    <3>3. \A m \in Waiting' : m \in Waiting \cup E
      <4>1. SUFFICES ASSUME NEW m \in Msgs, NEW b \in Actors, m \in Holds(b)'
                     PROVE  m \in E \/ \E c \in Actors : m \in Holds(c)
        BY DEF Waiting
      <4>2. CASE b = n
        BY <1>2, <1>3, <1>5, <2>9, <4>1, <4>2, SMTT(30)
      <4>3. CASE b # n
        BY <2>5, <2>6, <4>1, <4>3
      <4>4. QED
        BY <4>2, <4>3
    <3>4. QED
      BY <3>1, <3>2, <3>3
  <2>13. Slots'
    <3>1. SUFFICES ASSUME NEW m \in Msgs, NEW b \in Actors, <<m, b>> \in inflight
                   PROVE  /\ stage'[b] # "unused" /\ to[m] = owner'[b]
                          /\ \A c \in Actors : <<m, c>> \in inflight => b = c
                          /\ m \in tried
      BY <1>1 DEF Slots
    <3>2. b # n
      BY <2>2, <3>1
    <3>3. /\ stage[b] # "unused" /\ to[m] = owner[b]
          /\ \A c \in Actors : <<m, c>> \in inflight => b = c
      BY <3>1 DEF PlaceInv, Slots
    <3>4. stage'[b] # "unused" /\ owner'[b] = owner[b]
      BY <2>4, <3>2, <3>3
    <3>5. QED
      BY <1>8, <3>1, <3>3, <3>4
  <2>14. Sets(Elems(handled), Flying, Waiting \cup E, Failed, Current')
    BY <1>1, <1>11, <2>12 DEF Sets, Flying, Failed
  <2>15. QED
    BY <1>1, <1>3, <1>9, <2>11, <2>13, <2>14, PartedNext DEF PlaceInv
<1>12. QED
  BY <1>10, <1>11 DEF RemoveOrRestart

\* cleanup and send_to_actor both reap the actor at the head of the queue.
LEMMA Reaps ==
    ASSUME Cleanup \/ Join
    PROVE  /\ completions # <<>>
           /\ \E msgs, E : /\ Given(Head(completions), msgs, E)
                           /\ RemoveOrRestart(Head(completions), msgs)
<1> DEFINE a == Head(completions)
<1>1. CASE Cleanup
  <2>1. Given(a, left[a], {})
    BY <1>1 DEF Cleanup, Given
  <2>2. QED
    BY <1>1, <2>1 DEF Cleanup
<1>2. CASE Join /\ owner[a] = to[cur]
  <2>1. Given(a, Append(left[a], cur), {cur})
    BY <1>2 DEF Join, Given
  <2>2. QED
    BY <1>2, <2>1 DEF Join
<1>3. CASE Join /\ owner[a] # to[cur]
  <2>1. Given(a, left[a], {})
    BY <1>3 DEF Join, Given
  <2>2. QED
    BY <1>3, <2>1 DEF Join
<1>4. QED
  BY <1>1, <1>2, <1>3

\* Every step keeps each message in one place.
LEMMA PlaceStep ==
    ASSUME Consts, Types, MapInv, PlaceInv, [MapNext]_remoteVars
    PROVE  PlaceInv'
<1> USE DEF mapVars, taskVars, sockVars, msgVars, fateVars
<1>1. ASSUME UNCHANGED <<senders, stage, owner, initial, left, inbox, inflight, issued, to>>,
             UNCHANGED <<tried, handled, refused, dropped, lost, cur>>,
             at' = at \/ (at = "send" /\ at' = "join") \/ (at = "select" /\ at' = "stopped")
      PROVE  PlaceInv'
  <2>1. \A a \in Actors : QueuesOf(a)'
    BY <1>1, QueuesSame DEF PlaceInv, Queues
  <2>2. QED
    BY <1>1, <2>1, PlaceStill
<1>2. CASE SendFails \/ CloseEndpoint \/ Stop
  BY <1>1, <1>2 DEF SendFails, CloseEndpoint, Stop
<1>3. ASSUME NEW a \in Actors, ConnectionClose(a) PROVE PlaceInv'
  BY <1>1, <1>3 DEF ConnectionClose
<1>4. CASE UNCHANGED remoteVars
  BY <1>1, <1>4 DEF remoteVars
<1>5. CASE Cleanup \/ Join
  BY <1>5, Reaps, PlaceReap
<1>6. QED
  BY SMTT(30), <1>2, <1>3, <1>4, <1>5, PlaceSend, PlaceTry, PlaceReserve, PlacePush, PlaceHandle,
     PlacePhases, PlaceDrain DEF MapNext

-----------------------------------------------------------------------------
(* The invariant holds in every state, and what follows from it. *)

\* The invariant holds at the start,
LEMMA RInit ==
    ASSUME Consts, MapInit
    PROVE  RInv
<1>1. Types
  <2>1. <<>> \in Seq(Actors) /\ <<>> \in Seq(Msgs)
    BY SMTT(30)
  <2>2. 0 \in 0..(2 * MaxMsgs) /\ 0 \in 0..MaxMsgs
    BY SMTT(30) DEF Consts
  <2>3. QED
    BY <2>1, <2>2 DEF MapInit, Types, Consts, Phases, Places
<1>2. MapInv
  <2>1. Led /\ QueuedOnce
    BY ActorFacts, PhaseFacts, SMTT(30) DEF MapInit, Led, QueuedOnce
  <2>2. InTurn
    BY ActorFacts, SMTT(30) DEF MapInit, InTurn
  <2>3. Permitted
    <3>1. {a \in Actors : stage[a] \in Pending} = {}
      BY PhaseFacts DEF MapInit
    <3>2. Cardinality({a \in Actors : stage[a] \in Pending}) = 0
      BY <3>1, FS_EmptySet
    <3>3. free = MaxActors /\ MaxActors \in Nat
      BY DEF MapInit, Consts
    <3>4. QED
      BY <3>2, <3>3, SMTT(30) DEF Permitted
  <2>4. QED
    BY <2>1, <2>2, <2>3 DEF MapInv
<1>3. \A a \in Actors : initial[a] = <<>> /\ inbox[a] = <<>> /\ left[a] = <<>> /\ Holds(a) = {}
  BY ElemsEmpty DEF MapInit, Holds
<1>4. PlaceInv
  <2>1. Queues
    BY <1>3, ElemsEmpty DEF Queues, QueuesOf
  <2>2. Slots /\ Busy
    BY SMTT(30) DEF MapInit, Slots, Busy
  <2>3. Distinct(handled) /\ Elems(handled) = {}
    BY ElemsEmpty DEF MapInit
  <2>4. Flying = {} /\ Waiting = {} /\ Failed = {} /\ Current = {}
    BY <1>3 DEF MapInit, Flying, Waiting, Failed, Current
  <2>5. \A m \in Msgs : ~ (m <= issued)
    BY ActorFacts, SMTT(30) DEF MapInit
  <2>6. Parted(Elems(handled), Flying, Waiting, Failed, Current, issued)
    BY <2>3, <2>4, <2>5 DEF Parted
  <2>7. QED
    BY <2>1, <2>2, <2>3, <2>6 DEF PlaceInv
<1>5. QED
  BY <1>1, <1>2, <1>4 DEF RInv

\* and every step keeps it.
LEMMA RStep ==
    ASSUME Consts, RInv, [MapNext]_remoteVars
    PROVE  RInv'
<1>1. Types /\ MapInv /\ PlaceInv
  BY DEF RInv
<1>2. Types'
  BY <1>1, TypesStep
<1>3. MapInv'
  BY <1>1, MapStep
<1>4. PlaceInv'
  BY <1>1, PlaceStep
<1>5. QED
  BY <1>2, <1>3, <1>4 DEF RInv

\* A sequence without repetitions holds a message once or not at all.
LEMMA CountOnce ==
    ASSUME NEW s \in Seq(Msgs), Distinct(s), NEW m
    PROVE  Count(s, m) = IF m \in Elems(s) THEN 1 ELSE 0
<1> DEFINE K == {k \in 1..Len(s) : s[k] = m}
<1>1. CASE m \in Elems(s)
  <2>1. PICK j \in 1..Len(s) : s[j] = m
    BY <1>1 DEF Elems
  <2>2. K = {j}
    BY <2>1 DEF Distinct
  <2>3. QED
    BY <1>1, <2>2, FS_Singleton DEF Count
<1>2. CASE m \notin Elems(s)
  <2>1. K = {}
    BY <1>2 DEF Elems
  <2>2. QED
    BY <1>2, <2>1, FS_EmptySet DEF Count
<1>3. QED
  BY <1>1, <1>2

\* A set that has at most one element.
LEMMA AtMostOne ==
    ASSUME NEW S, \A a, b \in S : a = b
    PROVE  Cardinality(S) = IF S = {} THEN 0 ELSE 1
<1>1. CASE S = {}
  BY <1>1, FS_EmptySet
<1>2. CASE S # {}
  <2>1. PICK a : S = {a}
    BY <1>2, SMTT(30)
  <2>2. QED
    BY <1>2, <2>1, FS_Singleton
<1>3. QED
  BY <1>1, <1>2

\* The invariant says that a message is in one place,
LEMMA ConservedHolds ==
    ASSUME Consts, RInv
    PROVE  Conserved
<1>0. Types /\ MapInv /\ PlaceInv
  BY DEF RInv
<1> SUFFICES ASSUME NEW m \in Msgs PROVE Copies(m) = IF m <= issued THEN 1 ELSE 0
  BY DEF Conserved
<1> DEFINE fly == {a \in Actors : <<m, a>> \in inflight}
           wait == {a \in Actors :
                      Count(inbox[a], m) + Count(initial[a], m) + Count(left[a], m) > 0}
<1>1. Count(handled, m) = IF m \in Elems(handled) THEN 1 ELSE 0
  BY <1>0, CountOnce DEF Types, PlaceInv
<1>2. Cardinality(fly) = IF m \in Flying THEN 1 ELSE 0
  <2>1. \A a, b \in fly : a = b
    BY <1>0 DEF PlaceInv, Slots
  <2>2. fly = {} <=> m \notin Flying
    BY DEF Flying
  <2> HIDE DEF fly
  <2>3. QED
    BY <2>1, <2>2, AtMostOne
<1>3. Cardinality(wait) = IF m \in Waiting THEN 1 ELSE 0
  <2>1. ASSUME NEW a \in Actors PROVE a \in wait <=> m \in Holds(a)
    <3>1. /\ inbox[a] \in Seq(Msgs) /\ initial[a] \in Seq(Msgs) /\ left[a] \in Seq(Msgs)
          /\ Distinct(inbox[a]) /\ Distinct(initial[a]) /\ Distinct(left[a])
      BY <1>0 DEF Types, PlaceInv, Queues, QueuesOf
    <3>2. /\ Count(inbox[a], m) = IF m \in Elems(inbox[a]) THEN 1 ELSE 0
          /\ Count(initial[a], m) = IF m \in Elems(initial[a]) THEN 1 ELSE 0
          /\ Count(left[a], m) = IF m \in Elems(left[a]) THEN 1 ELSE 0
      BY <3>1, CountOnce
    <3>3. Count(inbox[a], m) + Count(initial[a], m) + Count(left[a], m) > 0
              <=> m \in Holds(a)
      BY <3>2, SMTT(30) DEF Holds
    <3>4. QED
      BY <3>3
  <2>2. wait \subseteq Actors
    OBVIOUS
  <2> HIDE DEF wait
  <2>3. \A a, b \in wait : a = b
    BY <1>0, <2>1, <2>2, HoldsOnce DEF PlaceInv
  <2>4. wait = {} <=> m \notin Waiting
    BY <2>1, <2>2 DEF Waiting
  <2>5. QED
    BY <2>3, <2>4, AtMostOne
<1>4. Copies(m) = Count(handled, m) + Cardinality(fly) + Cardinality(wait)
                  + (IF m \in Failed THEN 1 ELSE 0) + (IF m \in Current THEN 1 ELSE 0)
  <2>1. m \in Current <=> m = cur /\ at \in {"send", "join"}
    BY DEF Current
  <2>2. QED
    BY <2>1 DEF Copies, Failed
<1> HIDE DEF fly, wait
<1>5. /\ m <= issued <=> m \in Elems(handled) \cup Flying \cup Waiting \cup Failed \cup Current
      /\ m \in Elems(handled) => m \notin Flying \cup Waiting \cup Failed \cup Current
      /\ m \in Flying => m \notin Waiting \cup Failed \cup Current
      /\ m \in Waiting => m \notin Failed \cup Current
      /\ m \in Failed => m \notin Current
  BY <1>0 DEF PlaceInv, Parted
<1>6. QED
  BY <1>1, <1>2, <1>3, <1>4, <1>5, SMTT(30)

\* that permits and tasks add up,
LEMMA PermitsHold ==
    ASSUME Consts, RInv
    PROVE  ActorPermits
<1>0. Types /\ MapInv
  BY DEF RInv
<1>1. free + Cardinality(Unjoined) = MaxActors /\ free \in Nat
  BY <1>0 DEF MapInv, Permitted, Unjoined, Types
<1>2. IsFiniteSet(Unjoined)
  BY ActorFacts, FS_Subset DEF Unjoined
<1>3. Cardinality(Unjoined) \in Nat
  BY <1>2, FS_CardinalityType
<1>4. Len(completions) \in Nat /\ completions \in [1..Len(completions) -> Actors]
  BY <1>0, SMTT(30) DEF Types
<1>5. \A k \in 1..Len(completions) : completions[k] \in Unjoined
  BY <1>0, <1>4, PhaseFacts DEF MapInv, QueuedOnce, Unjoined
<1>6. completions \in Injection(1..Len(completions), Unjoined)
  <2>1. completions \in [1..Len(completions) -> Unjoined]
    BY <1>4, <1>5
  <2>2. \A j, k \in 1..Len(completions) : completions[j] = completions[k] => j = k
    BY <1>0 DEF MapInv, QueuedOnce
  <2>3. QED
    BY <2>1, <2>2 DEF Injection, IsInjective
<1>7. Cardinality(1..Len(completions)) <= Cardinality(Unjoined)
  BY <1>2, <1>6, FS_Injection
<1>8. Cardinality(1..Len(completions)) = Len(completions)
  BY <1>4, FS_Interval, SMTT(30)
<1>9. Len(completions) <= MaxActors
  BY <1>1, <1>3, <1>4, <1>7, <1>8, SMTT(30) DEF Consts
<1>10. QED
  BY <1>1, <1>9 DEF ActorPermits, Unjoined

\* and that a sender leads to the task of its remote.
LEMMA SendersHold ==
    ASSUME Consts, RInv
    PROVE  SenderCurrent
<1>1. Types /\ Led
  BY DEF RInv, MapInv
<1>2. \A a \in Actors : a # 0
  BY ActorFacts
<1>3. QED
  BY <1>1, <1>2 DEF Led, SenderCurrent

\* The invariant holds always.
LEMMA RAlways ==
    ASSUME Consts
    PROVE  MapSpec => []RInv
<1>1. MapInit => RInv
  BY RInit
<1>2. RInv /\ [MapNext]_remoteVars => RInv'
  BY RStep
<1>3. QED
  BY <1>1, <1>2, PTL DEF MapSpec

\* RemoteMap's senders and the tasks of the RemoteStateActors agree, for any
\* number of remotes, messages and permits: a task that was not joined is the
\* one its remote's sender leads to, so that a remote never has two actors.
THEOREM SendersLead == MapSpec => []SenderCurrent
<1>1. Consts
  BY MapAssumption DEF Consts
<1>2. RInv => SenderCurrent
  BY <1>1, SendersHold
<1>3. QED
  BY <1>1, <1>2, RAlways, PTL

\* Every permit of the admission ledger is free or held by one task that was
\* not joined, through restarts too, and the completion queue never holds more
\* than it has room for.
THEOREM PermitsKept == MapSpec => []ActorPermits
<1>1. Consts
  BY MapAssumption DEF Consts
<1>2. RInv => ActorPermits
  BY <1>1, PermitsHold
<1>3. QED
  BY <1>1, <1>2, RAlways, PTL

\* A message is in one place from send_to_actor on, whichever task ends,
\* leaves it over or is started with it: none is handled twice and none
\* vanishes.
THEOREM OnePlace == MapSpec => []Conserved
<1>1. Consts
  BY MapAssumption DEF Consts
<1>2. RInv => Conserved
  BY <1>1, ConservedHolds
<1>3. QED
  BY <1>1, <1>2, RAlways, PTL

=============================================================================
