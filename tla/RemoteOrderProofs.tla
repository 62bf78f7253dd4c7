-------------------------- MODULE RemoteOrderProofs --------------------------
(***************************************************************************)
(* Proof that the actors an endpoint keeps for its remotes handle what the *)
(* socket actor sends in the order it was sent, through the end of an      *)
(* actor and the start of its successor.                                   *)
(***************************************************************************)
EXTENDS RemoteMapProofs

\* Zenon proves what does not say otherwise.
USE ZenonT(30)

\* m comes before n, unless they are for two remotes or another thread tried
\* to send one of them; T says whom a message is for, and R which were tried.
Before(m, n, T, R) == m \notin R /\ n \notin R /\ T[m] = T[n] => m < n
Sorted(s, T, R) == \A j, k \in 1..Len(s) : j < k => Before(s[j], s[k], T, R)
Ahead(s, t, T, R) == \A x \in Elems(s) : \A y \in Elems(t) : Before(x, y, T, R)

\* The queues of an actor are in order, behind h, which was handled.
Ordered(h, i, b, l, T, R) ==
    /\ Sorted(i, T, R) /\ Sorted(b, T, R) /\ Sorted(l, T, R)
    /\ Ahead(i, b, T, R)
    /\ Ahead(h, i, T, R) /\ Ahead(h, b, T, R) /\ Ahead(h, l, T, R)
OrderOf(a) == Ordered(handled, initial[a], inbox[a], left[a], to, tried)
OrderInv == Sorted(handled, to, tried) /\ \A a \in Actors : OrderOf(a)

-----------------------------------------------------------------------------
(* Messages keep their order. *)

\* Nothing is out of order in an empty queue.
LEMMA SortedEmpty ==
    ASSUME NEW T, NEW R
    PROVE  Sorted(<<>>, T, R) /\ \A s : Ahead(s, <<>>, T, R) /\ Ahead(<<>>, s, T, R)
BY ElemsEmpty, SMTT(30) DEF Sorted, Ahead

\* A queue stays in order when what comes last is added,
LEMMA SortedAppend ==
    ASSUME NEW T, NEW R, NEW s \in Seq(Msgs), NEW x \in Msgs,
           Sorted(s, T, R), \A y \in Elems(s) : Before(y, x, T, R)
    PROVE  Sorted(Append(s, x), T, R)
<1> DEFINE t == Append(s, x)
<1>0. \A i \in 1..Len(s) : s[i] \in Elems(s)
  BY DEF Elems
<1>1. /\ Len(s) \in Nat /\ Len(t) = Len(s) + 1 /\ t[Len(s) + 1] = x
      /\ \A i \in 1..Len(s) : t[i] = s[i]
  BY SMTT(30)
<1> HIDE DEF t
<1>2. ASSUME NEW j \in 1..Len(t), NEW k \in 1..Len(t), j < k PROVE Before(t[j], t[k], T, R)
  <2>1. CASE k = Len(s) + 1
    <3>1. j \in 1..Len(s)
      BY <1>1, <1>2, <2>1, SMTT(30)
    <3>2. QED
      BY <1>0, <1>1, <2>1, <3>1
  <2>2. CASE k # Len(s) + 1
    <3>1. j \in 1..Len(s) /\ k \in 1..Len(s)
      BY <1>1, <1>2, <2>2, SMTT(30)
    <3>2. QED
      BY <1>1, <1>2, <3>1 DEF Sorted
  <2>3. QED
    BY <2>1, <2>2
<1>3. QED
  BY <1>2 DEF Sorted, t

\* and when its first is taken.
LEMMA SortedTail ==
    ASSUME NEW T, NEW R, NEW s \in Seq(Msgs), s # <<>>, Sorted(s, T, R)
    PROVE  Sorted(Tail(s), T, R) /\ \A y \in Elems(Tail(s)) : Before(Head(s), y, T, R)
<1> DEFINE t == Tail(s)
<1>1. /\ Len(s) \in Nat \ {0} /\ Len(t) = Len(s) - 1 /\ Head(s) = s[1]
      /\ \A i \in 1..Len(t) : t[i] = s[i + 1]
  BY SMTT(30)
<1> HIDE DEF t
<1>2. ASSUME NEW j \in 1..Len(t), NEW k \in 1..Len(t), j < k PROVE Before(t[j], t[k], T, R)
  <2>1. j + 1 \in 1..Len(s) /\ k + 1 \in 1..Len(s) /\ j + 1 < k + 1
    BY <1>1, <1>2, SMTT(30)
  <2>2. QED
    BY <1>1, <2>1 DEF Sorted
<1>3. ASSUME NEW k \in 1..Len(t) PROVE Before(Head(s), t[k], T, R)
  <2>1. 1 \in 1..Len(s) /\ k + 1 \in 1..Len(s) /\ 1 < k + 1
    BY <1>1, SMTT(30)
  <2>2. QED
    BY <1>1, <2>1 DEF Sorted
<1>4. Sorted(t, T, R)
  BY <1>2 DEF Sorted
<1>5. \A y \in Elems(t) : Before(Head(s), y, T, R)
  BY <1>3 DEF Elems
<1>6. QED
  BY <1>4, <1>5 DEF t

\* Queues that are emptied, drained, or new.
LEMMA OrderedMoves ==
    ASSUME NEW h, NEW i, NEW b, NEW l, NEW T, NEW R
    PROVE  /\ Ordered(h, i, b, l, T, R) =>
                 Ordered(h, i, b, <<>>, T, R) /\ Ordered(h, i, <<>>, b, T, R)
           /\ Sorted(i, T, R) /\ Ahead(h, i, T, R) => Ordered(h, i, <<>>, <<>>, T, R)
BY SortedEmpty DEF Ordered

\* The order among messages does not depend on the others.
LEMMA OrderLocal ==
    ASSUME NEW T, NEW R, NEW U, NEW Q, NEW M,
           \A x \in M : U[x] = T[x] /\ (x \in Q <=> x \in R)
    PROVE  /\ \A s : Elems(s) \subseteq M /\ Sorted(s, T, R) => Sorted(s, U, Q)
           /\ \A s, t : Elems(s) \subseteq M /\ Elems(t) \subseteq M /\ Ahead(s, t, T, R)
                  => Ahead(s, t, U, Q)
<1>1. ASSUME NEW x \in M, NEW y \in M, Before(x, y, T, R) PROVE Before(x, y, U, Q)
  BY <1>1 DEF Before
<1>2. ASSUME NEW s, Elems(s) \subseteq M, Sorted(s, T, R) PROVE Sorted(s, U, Q)
  <2>1. \A k \in 1..Len(s) : s[k] \in M
    BY <1>2 DEF Elems
  <2>2. QED
    BY <1>1, <1>2, <2>1 DEF Sorted
<1>3. ASSUME NEW s, NEW t, Elems(s) \subseteq M, Elems(t) \subseteq M, Ahead(s, t, T, R)
      PROVE  Ahead(s, t, U, Q)
  BY <1>1, <1>3 DEF Ahead
<1>4. QED
  BY <1>2, <1>3

\* Steps that move no message.
LEMMA OrderStill ==
    ASSUME OrderInv, UNCHANGED <<handled, initial, inbox, left, to, tried>>
    PROVE  OrderInv'
BY DEF OrderInv, OrderOf

\* A message that is issued is not in a queue yet.
LEMMA OrderIssue ==
    ASSUME Consts, Types, PlaceInv, OrderInv,
           UNCHANGED <<handled, inbox, left>>,
           \A a \in Actors : initial'[a] = initial[a],
           \A x \in Msgs : x # issued + 1 => to'[x] = to[x] /\ (x \in tried' <=> x \in tried)
    PROVE  OrderInv'
<1> DEFINE M == {x \in Msgs : x <= issued}
<1>1. \A x \in M : to'[x] = to[x] /\ (x \in tried' <=> x \in tried)
  BY ActorFacts, SMTT(30) DEF Types
<1>2. Elems(handled) \subseteq M
  BY ElemsType DEF Types, PlaceInv, Parted
<1>3. \A a \in Actors : Holds(a) \subseteq M
  BY WaitingIssued
<1>4. \A a \in Actors : /\ Elems(initial[a]) \subseteq M
                        /\ Elems(inbox[a]) \subseteq M
                        /\ Elems(left[a]) \subseteq M
  BY <1>3 DEF Holds
<1> HIDE DEF M
<1>5. /\ \A s : Elems(s) \subseteq M /\ Sorted(s, to, tried) => Sorted(s, to', tried')
      /\ \A s, t : Elems(s) \subseteq M /\ Elems(t) \subseteq M /\ Ahead(s, t, to, tried)
             => Ahead(s, t, to', tried')
  BY <1>1, OrderLocal
<1>6. Sorted(handled, to, tried)'
  BY <1>2, <1>5 DEF OrderInv
<1>7. ASSUME NEW a \in Actors PROVE OrderOf(a)'
  <2>1. OrderOf(a)
    BY DEF OrderInv
  <2>2. Ordered(handled, initial[a], inbox[a], left[a], to', tried')
    BY <1>2, <1>4, <1>5, <2>1 DEF OrderOf, Ordered
  <2>3. QED
    BY <2>2 DEF OrderOf
<1>8. QED
  BY <1>6, <1>7 DEF OrderInv

\* The message that is put into an inbox comes behind all that went before it.
LEMMA OrderPush ==
    ASSUME Consts, Types, MapInv, PlaceInv, OrderInv, NEW a \in Actors, NEW m \in Msgs, Push(m, a)
    PROVE  OrderInv'
<1> USE DEF mapVars, taskVars, sockVars, msgVars, fateVars
<1>1. /\ <<m, a>> \in inflight
      /\ UNCHANGED <<initial, left, to, tried, handled>>
  BY DEF Push
<1>2. CASE inbox' = inbox
  BY <1>1, <1>2, OrderStill
<1>3. CASE inbox' = [inbox EXCEPT ![a] = Append(@, m)]
  <2>1. /\ inbox'[a] = Append(inbox[a], m) /\ \A b \in Actors : b # a => inbox'[b] = inbox[b]
        /\ inbox[a] \in Seq(Msgs)
    BY <1>3 DEF Types
  <2>2. m \in Flying /\ (m \in tried \/ (at = "push" /\ m = cur))
    BY <1>1 DEF Flying, PlaceInv, Slots
  <2>3. ASSUME NEW x \in Msgs, x \in Elems(handled) \cup Waiting PROVE Before(x, m, to, tried)
    <3>1. x <= issued /\ x # m
      BY <1>1, <2>3 DEF PlaceInv, Parted, Flying
    <3>2. x \notin tried /\ m \notin tried => x < m
      <4>1. SUFFICES ASSUME x \notin tried, m \notin tried PROVE x < m
        OBVIOUS
      <4>2. at = "push" /\ m = cur
        BY <2>2, <4>1
      <4>3. \A y \in 1..issued : y > m => y \in tried
        BY <4>2 DEF PlaceInv, Busy
      <4>4. x \in 1..issued /\ m \in Nat
        BY <3>1, ActorFacts, SMTT(30) DEF Types
      <4>5. QED
        BY <3>1, <4>1, <4>3, <4>4, SMTT(30)
    <3>3. QED
      BY <3>2 DEF Before
  <2>4. /\ \A x \in Elems(inbox[a]) : Before(x, m, to, tried)
        /\ \A x \in Elems(initial[a]) : Before(x, m, to, tried)
        /\ \A x \in Elems(handled) : Before(x, m, to, tried)
    <3>1. Holds(a) \subseteq Msgs /\ Holds(a) \subseteq Waiting
      BY HoldsType DEF Waiting
    <3>2. Elems(handled) \subseteq Msgs
      BY ElemsType DEF Types
    <3>3. QED
      BY <2>3, <3>1, <3>2 DEF Holds
  <2>5. OrderOf(a)
    BY DEF OrderInv
  <2>6. Sorted(inbox'[a], to, tried) /\ Elems(inbox'[a]) = Elems(inbox[a]) \cup {m}
    <3>1. Sorted(inbox[a], to, tried)
      BY <2>5 DEF OrderOf, Ordered
    <3>2. Sorted(Append(inbox[a], m), to, tried)
      BY <2>1, <2>4, <3>1, SortedAppend
    <3>3. Elems(Append(inbox[a], m)) = Elems(inbox[a]) \cup {m}
      BY <2>1, ElemsAppend, SMTT(30)
    <3>4. QED
      BY <2>1, <3>2, <3>3
  <2>7. Ahead(initial[a], inbox'[a], to, tried) /\ Ahead(handled, inbox'[a], to, tried)
    BY <2>4, <2>5, <2>6 DEF OrderOf, Ordered, Ahead
  <2>8. OrderOf(a)'
    <3>1. Ordered(handled, initial[a], inbox'[a], left[a], to, tried)
      BY <2>5, <2>6, <2>7 DEF OrderOf, Ordered
    <3>2. QED
      BY <1>1, <3>1 DEF OrderOf
  <2>9. \A b \in Actors : b # a => OrderOf(b)'
    BY <1>1, <2>1 DEF OrderInv, OrderOf
  <2>10. QED
    BY <1>1, <2>8, <2>9 DEF OrderInv
<1>4. QED
  BY <1>2, <1>3 DEF Push

\* The leftovers are the inbox as it was.
LEMMA OrderDrain ==
    ASSUME Types, OrderInv, NEW a \in Actors, Drain(a)
    PROVE  OrderInv'
<1>1. /\ left' = [left EXCEPT ![a] = inbox[a]] /\ inbox' = [inbox EXCEPT ![a] = <<>>]
      /\ UNCHANGED <<initial, to, tried, handled>>
  BY DEF Drain, msgVars, fateVars
<1>2. /\ left'[a] = inbox[a] /\ inbox'[a] = <<>>
      /\ \A b \in Actors : b # a => left'[b] = left[b] /\ inbox'[b] = inbox[b]
  BY <1>1 DEF Types
<1>3. \A b \in Actors : Ordered(handled, initial[b], inbox'[b], left'[b], to, tried)
  BY <1>2, OrderedMoves DEF OrderInv, OrderOf
<1>4. QED
  BY <1>1, <1>3 DEF OrderInv, OrderOf

\* The message that is handled is the first of its actor's, and the actor is
\* the only one of its remote.
LEMMA OrderHandle ==
    ASSUME Consts, Types, MapInv, PlaceInv, OrderInv, NEW a \in Actors, HandleMessage(a)
    PROVE  OrderInv'
<1> USE DEF mapVars, taskVars, sockVars, msgVars, fateVars
<1>1. PICK x : Takes(a, x)
  BY HandleTakes
<1>2. /\ stage[a] = "running" /\ UNCHANGED <<left, to, tried>>
      /\ x \in Msgs /\ handled' = Append(handled, x) /\ handled \in Seq(Msgs)
  BY <1>1 DEF HandleMessage, Takes, Types
<1>3. /\ initial[a] \in Seq(Msgs) /\ inbox[a] \in Seq(Msgs)
      /\ \A b \in Actors : QueuesOf(b) /\ OrderOf(b)
      /\ \A b \in Actors : b # a => initial'[b] = initial[b] /\ inbox'[b] = inbox[b]
  BY <1>1 DEF Types, PlaceInv, Queues, OrderInv, Takes
<1>4. left[a] = <<>>
  BY <1>2, <1>3 DEF QueuesOf
<1>5. /\ x \in Holds(a)
      /\ \A y \in Elems(handled) : Before(y, x, to, tried)
      /\ \A y \in Elems(initial'[a]) \cup Elems(inbox'[a]) : Before(x, y, to, tried)
      /\ Sorted(initial'[a], to, tried) /\ Sorted(inbox'[a], to, tried)
      /\ Elems(initial'[a]) \subseteq Elems(initial[a])
      /\ Elems(inbox'[a]) \subseteq Elems(inbox[a])
  <2>1. CASE /\ initial[a] # <<>> /\ x = Head(initial[a])
             /\ initial' = [initial EXCEPT ![a] = Tail(initial[a])] /\ inbox' = inbox
    <3>1. initial'[a] = Tail(initial[a]) /\ inbox'[a] = inbox[a]
      BY <2>1 DEF Types
    <3>2. Elems(initial[a]) = {x} \cup Elems(Tail(initial[a]))
      BY <1>3, <2>1, ElemsTail
    <3>3. /\ Sorted(Tail(initial[a]), to, tried)
          /\ \A y \in Elems(Tail(initial[a])) : Before(x, y, to, tried)
      BY <1>3, <2>1, SortedTail DEF OrderOf, Ordered
    <3>4. QED
      BY <1>3, <3>1, <3>2, <3>3 DEF OrderOf, Ordered, Ahead, Holds
  <2>2. CASE /\ initial[a] = <<>> /\ inbox[a] # <<>> /\ x = Head(inbox[a])
             /\ inbox' = [inbox EXCEPT ![a] = Tail(inbox[a])] /\ initial' = initial
    <3>1. inbox'[a] = Tail(inbox[a]) /\ initial'[a] = <<>>
      BY <2>2 DEF Types
    <3>2. Elems(inbox[a]) = {x} \cup Elems(Tail(inbox[a]))
      BY <1>3, <2>2, ElemsTail
    <3>3. /\ Sorted(Tail(inbox[a]), to, tried)
          /\ \A y \in Elems(Tail(inbox[a])) : Before(x, y, to, tried)
      BY <1>3, <2>2, SortedTail DEF OrderOf, Ordered
    <3>4. QED
      BY <1>3, <2>2, <3>1, <3>2, <3>3, ElemsEmpty, SortedEmpty, SMTT(30) DEF OrderOf, Ordered, Ahead, Holds
  <2>3. QED
    BY <1>1, <2>1, <2>2 DEF Takes
<1>6. Elems(handled') = Elems(handled) \cup {x} /\ Sorted(handled', to, tried)
  <2>1. Sorted(handled, to, tried)
    BY DEF OrderInv
  <2>2. Sorted(Append(handled, x), to, tried)
    BY <1>2, <1>5, <2>1, SortedAppend
  <2>3. Elems(Append(handled, x)) = Elems(handled) \cup {x}
    BY <1>2, ElemsAppend, SMTT(30)
  <2>4. QED
    BY <1>2, <2>2, <2>3
<1>7. OrderOf(a)'
  <2>1. /\ Ahead(initial[a], inbox[a], to, tried)
        /\ Ahead(handled, initial[a], to, tried) /\ Ahead(handled, inbox[a], to, tried)
    BY <1>3 DEF OrderOf, Ordered
  <2>2. /\ Ahead(initial'[a], inbox'[a], to, tried)
        /\ Ahead(handled', initial'[a], to, tried) /\ Ahead(handled', inbox'[a], to, tried)
    BY <1>5, <1>6, <2>1 DEF Ahead
  <2>3. Sorted(<<>>, to, tried) /\ Ahead(handled', <<>>, to, tried)
    BY SortedEmpty
  <2>4. Ordered(handled', initial'[a], inbox'[a], left[a], to, tried)
    BY <1>4, <1>5, <2>2, <2>3 DEF Ordered
  <2>5. QED
    BY <1>2, <2>4 DEF OrderOf
<1>8. ASSUME NEW b \in Actors, b # a PROVE OrderOf(b)'
  <2>1. ASSUME NEW y \in Holds(b) PROVE Before(x, y, to, tried)
    <3>1. to[x] = owner[a] /\ to[y] = owner[b]
      BY <1>3, <1>5 DEF QueuesOf
    <3>2. ASSUME to[x] = to[y] PROVE FALSE
      <4>1. stage[b] \in Pending
        <5>1. CASE initial[b] = <<>> /\ inbox[b] = <<>> /\ left[b] = <<>>
          BY <2>1, <5>1, ElemsEmpty DEF Holds
        <5>2. CASE ~ (initial[b] = <<>> /\ inbox[b] = <<>> /\ left[b] = <<>>)
          BY <1>3, <5>2 DEF QueuesOf, Pending
        <5>3. QED
          BY <5>1, <5>2
      <4>2. senders[owner[b]] = b /\ senders[owner[a]] = a
        BY <1>2, <4>1, PhaseFacts DEF MapInv, Led
      <4>3. QED
        BY <1>8, <3>1, <3>2, <4>2, SMTT(30)
    <3>3. QED
      BY <3>2 DEF Before
  <2>2. /\ \A y \in Elems(initial[b]) : Before(x, y, to, tried)
        /\ \A y \in Elems(inbox[b]) : Before(x, y, to, tried)
        /\ \A y \in Elems(left[b]) : Before(x, y, to, tried)
    BY <2>1 DEF Holds
  <2>3. /\ Ahead(handled', initial[b], to, tried) /\ Ahead(handled', inbox[b], to, tried)
        /\ Ahead(handled', left[b], to, tried)
    BY <1>3, <1>6, <2>2 DEF OrderOf, Ordered, Ahead
  <2>4. Ordered(handled', initial[b], inbox[b], left[b], to, tried)
    BY <1>3, <2>3 DEF OrderOf, Ordered
  <2>5. QED
    BY <1>2, <1>3, <1>8, <2>4 DEF OrderOf
<1>9. QED
  BY <1>2, <1>6, <1>7, <1>8 DEF OrderInv

\* What a successor begins with is behind what was handled, the message that
\* waits being the last of it.
LEMMA OrderGiven ==
    ASSUME Consts, Types, PlaceInv, OrderInv, NEW a \in Actors, NEW msgs, NEW E,
           Given(a, msgs, E)
    PROVE  Sorted(msgs, to, tried) /\ Ahead(handled, msgs, to, tried)
<1>1. left[a] \in Seq(Msgs)
  BY DEF Types
<1>2. Sorted(left[a], to, tried) /\ Ahead(handled, left[a], to, tried)
  BY DEF OrderInv, OrderOf, Ordered
<1>3. CASE msgs = left[a]
  BY <1>2, <1>3
<1>4. CASE msgs = Append(left[a], cur) /\ at = "join"
  <2>1. cur \in 1..issued /\ \A y \in 1..issued : y > cur => y \in tried
    BY <1>4 DEF PlaceInv, Busy
  <2>2. cur \in Msgs /\ Current = {cur}
    BY <1>4, <2>1, ActorFacts, SMTT(30) DEF Current, Types, Consts
  <2>3. ASSUME NEW x \in Msgs, x \in Elems(handled) \cup Waiting
        PROVE  Before(x, cur, to, tried)
    <3>1. x <= issued /\ x # cur
      BY <2>2, <2>3 DEF PlaceInv, Parted
    <3>2. x \in 1..issued /\ cur \in Nat
      BY <2>1, <3>1, ActorFacts, SMTT(30) DEF Types
    <3>3. x \notin tried => x < cur
      BY <2>1, <3>1, <3>2, SMTT(30)
    <3>4. QED
      BY <3>3 DEF Before
  <2>4. Holds(a) \subseteq Msgs /\ Holds(a) \subseteq Waiting
    BY HoldsType DEF Waiting
  <2>5. Elems(handled) \subseteq Msgs
    BY ElemsType DEF Types
  <2>6. \A x \in Elems(left[a]) \cup Elems(handled) : Before(x, cur, to, tried)
    BY <2>3, <2>4, <2>5 DEF Holds
  <2>7. Sorted(Append(left[a], cur), to, tried)
    BY <1>1, <1>2, <2>2, <2>6, SortedAppend
  <2>8. Elems(Append(left[a], cur)) = Elems(left[a]) \cup {cur}
    BY <1>1, <2>2, ElemsAppend, SMTT(30)
  <2>9. Ahead(handled, Append(left[a], cur), to, tried)
    BY <1>2, <2>6, <2>8 DEF Ahead
  <2>10. QED
    BY <1>4, <2>7, <2>9
<1>5. QED
  BY <1>3, <1>4 DEF Given

\* remove_or_restart_actor empties the leftovers, and may start a successor.
LEMMA OrderReap ==
    ASSUME Consts, Types, MapInv, PlaceInv, OrderInv, NEW a \in Actors, stage[a] # "unused",
           NEW msgs, Sorted(msgs, to, tried), Ahead(handled, msgs, to, tried),
           RemoveOrRestart(a, msgs)
    PROVE  OrderInv'
<1>1. left' = [left EXCEPT ![a] = <<>>] /\ UNCHANGED <<inbox, to, tried, handled>>
  BY DEF RemoveOrRestart, msgVars
<1>2. left'[a] = <<>> /\ \A b \in Actors : b # a => left'[b] = left[b]
  BY <1>1 DEF Types
<1>3. \A b \in Actors : Ordered(handled, initial[b], inbox[b], left'[b], to, tried)
  BY <1>2, OrderedMoves DEF OrderInv, OrderOf
<1>4. Sorted(handled, to, tried)'
  BY <1>1 DEF OrderInv
<1>5. CASE initial' = initial
  BY <1>1, <1>3, <1>4, <1>5 DEF OrderInv, OrderOf
<1>6. CASE Start(owner[a], msgs, [stage EXCEPT ![a] = "gone"])
  <2>1. PICK n \in Actors : n = started + 1
    BY <1>6 DEF Start
  <2>2. stage[n] = "unused" /\ inbox[n] = <<>> /\ left[n] = <<>>
    BY <2>1, StartFresh
  <2>3. left'[n] = <<>>
    BY <1>2, <2>2
  <2>4. initial' = [initial EXCEPT ![n] = msgs]
    BY <1>6, <2>1 DEF Start
  <2>5. initial'[n] = msgs /\ \A b \in Actors : b # n => initial'[b] = initial[b]
    BY <2>4 DEF Types
  <2>6. Ordered(handled, msgs, <<>>, <<>>, to, tried)
    BY OrderedMoves
  <2>7. \A b \in Actors : Ordered(handled, initial'[b], inbox[b], left'[b], to, tried)
    BY <1>3, <2>2, <2>3, <2>5, <2>6, SMTT(30)
  <2>8. QED
    BY <1>1, <1>4, <2>7 DEF OrderInv, OrderOf
<1>7. QED
  BY <1>5, <1>6 DEF RemoveOrRestart

\* Every step keeps all queues in order.
LEMMA OrderStep ==
    ASSUME Consts, Types, MapInv, PlaceInv, OrderInv, [MapNext]_remoteVars
    PROVE  OrderInv'
<1> USE DEF mapVars, taskVars, sockVars, msgVars, fateVars
<1>1. ASSUME NEW i \in Ids, SendToActor(i) PROVE OrderInv'
  <2>1. \A a \in Actors : initial'[a] = initial[a]
    <3>1. CASE initial' = initial
      BY <3>1
    <3>2. CASE Start(i, <<>>, stage)
      <4>1. PICK n \in Actors : n = started + 1
        BY <3>2 DEF Start
      <4>2. initial[n] = <<>> /\ initial' = [initial EXCEPT ![n] = <<>>]
        BY <3>2, <4>1, StartFresh DEF Start
      <4>3. QED
        BY <4>2 DEF Types
    <3>3. QED
      BY <1>1, <3>1, <3>2 DEF SendToActor
  <2>2. \A x \in Msgs : x # issued + 1 => to'[x] = to[x] /\ (x \in tried' <=> x \in tried)
    BY <1>1 DEF SendToActor, Types
  <2>3. UNCHANGED <<handled, inbox, left>>
    BY <1>1 DEF SendToActor
  <2>4. QED
    BY <2>1, <2>2, <2>3, OrderIssue, SMTT(30)
<1>2. ASSUME NEW i \in Ids, TrySendRemote(i) PROVE OrderInv'
  <2>1. \A x \in Msgs : x # issued + 1 => to'[x] = to[x] /\ (x \in tried' <=> x \in tried)
    BY <1>2 DEF TrySendRemote, Types
  <2>2. UNCHANGED <<handled, inbox, left, initial>>
    BY <1>2 DEF TrySendRemote
  <2>3. QED
    BY <2>1, <2>2, OrderIssue
<1>3. CASE Reserve \/ SendFails \/ CloseEndpoint \/ Stop
  BY <1>3, OrderStill DEF Reserve, SendFails, CloseEndpoint, Stop
<1>4. ASSUME NEW a \in Actors, ConnectionClose(a) \/ Leave(a) \/ Close(a) \/ Complete(a)
      PROVE  OrderInv'
  BY <1>4, OrderStill DEF ConnectionClose, Leave, Close, Complete
<1>5. CASE Cleanup \/ Join
  <2>1. completions # <<>>
    BY <1>5, Reaps
  <2>2. PICK a, msgs, E : a = Head(completions) /\ Given(a, msgs, E) /\ RemoveOrRestart(a, msgs)
    BY <1>5, Reaps
  <2>3. a \in Actors /\ stage[a] = "queued"
    BY <2>1, <2>2, CompletionsHead
  <2>4. Sorted(msgs, to, tried) /\ Ahead(handled, msgs, to, tried)
    BY <2>2, <2>3, OrderGiven
  <2>5. QED
    BY <2>2, <2>3, <2>4, OrderReap, SMTT(30)
<1>6. CASE UNCHANGED remoteVars
  BY <1>6, OrderStill DEF remoteVars
<1>7. QED
  BY <1>1, <1>2, <1>3, <1>4, <1>5, <1>6, OrderPush, OrderHandle, OrderDrain, SMTT(30) DEF MapNext

-----------------------------------------------------------------------------
\* They are in order at the start.
LEMMA OrderInit ==
    ASSUME MapInit
    PROVE  OrderInv
BY SortedEmpty DEF OrderInv, OrderOf, Ordered, MapInit

\* What was handled is in order when all queues are.
LEMMA OrderHolds ==
    ASSUME OrderInv
    PROVE  OrderKept
BY DEF OrderInv, Sorted, Before, OrderKept

\* What the socket actor sends to a remote is handled in the order in which it
\* was sent, through any number of actors that end and are restarted with what
\* they left.
THEOREM InOrder == MapSpec => []OrderKept
<1>1. Consts
  BY MapAssumption DEF Consts
<1>2. MapSpec => []RInv
  BY <1>1, RAlways
<1>3. MapInit => OrderInv
  BY OrderInit
<1>4. RInv /\ OrderInv /\ [MapNext]_remoteVars => OrderInv'
  BY <1>1, OrderStep DEF RInv
<1>5. OrderInv => OrderKept
  BY OrderHolds
<1>6. QED
  BY <1>2, <1>3, <1>4, <1>5, PTL DEF MapSpec

=============================================================================
