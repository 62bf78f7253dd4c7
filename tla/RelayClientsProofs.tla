------------------------- MODULE RelayClientsProofs -------------------------
(* Proofs about the relay server's client registry. *)
EXTENDS RelayClients, FiniteSetTheorems, TLAPS

\* Zenon proves what does not say otherwise.
USE ZenonT(30)

\* A push to a bounded queue yields a queue of the same kind.
LEMMA TrySendType ==
    ASSUME NEW S, NEW q \in Seq(S), NEW x \in S
    PROVE  TrySend(q, x) \in Seq(S)
BY SMTT(30) DEF TrySend

\* Taking an element out of a sequence leaves a sequence of the same elements.
LEMMA WithoutType ==
    ASSUME NEW S, NEW s \in Seq(S), NEW i \in 1..Len(s)
    PROVE  Without(s, i) \in Seq(S)
<1>1. Len(s) - 1 \in Nat
  BY SMTT(30)
<1>2. Without(s, i) \in [1..(Len(s) - 1) -> S]
  BY SMTT(30) DEF Without
<1>3. QED
  BY <1>1, <1>2, SMTT(30)

\* The messages of the registry and the phases of an actor are what they are
\* declared to be.
LEMMA MessageTypes ==
    ASSUME NEW e \in Endpoints
    PROVE  Gone(e) \in Messages /\ Same(e) \in Messages /\ Healthy(e) \in Messages
BY DEF Messages, Gone, Same, Healthy

\* The phases of an actor.
LEMMA PhaseTypes ==
    "fresh" \in Phases /\ "running" \in Phases /\ "ending" \in Phases
    /\ "notifying" \in Phases /\ "closed" \in Phases
BY DEF Phases

\* A send record names endpoints.
LEMMA RecordedType ==
    ASSUME NEW P \in SUBSET Endpoints, NEW d \in Endpoints
    PROVE  Recorded(P, d) \in SUBSET Endpoints
<1>1. CASE Cardinality(P) < MaxSessions
  BY <1>1 DEF Recorded
<1>2. CASE ~ (Cardinality(P) < MaxSessions)
  BY <1>2 DEF Recorded
<1>3. QED
  BY <1>1, <1>2

\* A map entry holds connections.
LEMMA SessionsType ==
    ASSUME TypeOK, NEW e \in Endpoints
    PROVE  Sessions(e) \subseteq Conns
BY SMTT(30) DEF TypeOK, Sessions, Elements

\* Every variable keeps its type through every registration, departure,
\* notification, relayed packet and shutdown step.
THEOREM TypeCorrect == Spec => []TypeOK
<1>1. Init => TypeOK
  BY BoundsAssumption, PhaseTypes, SMTT(30) DEF Init, TypeOK
<1>2. TypeOK /\ [Next]_vars => TypeOK'
  <2> SUFFICES ASSUME TypeOK, [Next]_vars PROVE TypeOK'
    OBVIOUS
  <2> USE OwnerAssumption, NoConnAssumption, BoundsAssumption, PhaseTypes
      DEF TypeOK, registryVars, actorVars, queueVars, shutdownVars
  <2>1. ASSUME NEW c \in Conns, RegisterRefused(c) \/ RegisterUnspawned(c) PROVE TypeOK'
    <3>1. Refuse(c)
      BY <2>1 DEF RegisterRefused, RegisterUnspawned
    <3>2. QED
      BY <3>1 DEF Refuse
  <2>2. ASSUME NEW c \in Conns, RegisterFirst(c) PROVE TypeOK'
    BY <2>2, SMTT(30) DEF RegisterFirst
  <2>3. ASSUME NEW c \in Conns, RegisterAgain(c) PROVE TypeOK'
    <3>1. messages' \in [Conns -> Seq(Messages)]
      BY <2>3, MessageTypes, TrySendType DEF RegisterAgain
    <3>2. QED
      BY <2>3, <3>1, SMTT(30) DEF RegisterAgain
  <2>4. ASSUME NEW c \in Conns, RunReturns(c) PROVE TypeOK'
    BY <2>4 DEF RunReturns
  <2>5. ASSUME NEW c \in Conns, UnregisterLast(c) PROVE TypeOK'
    BY <2>5, SMTT(30) DEF UnregisterLast
  <2>6. ASSUME NEW c \in Conns, UnregisterPromote(c) PROVE TypeOK'
    <3> DEFINE e == Owner[c]
               n == Len(inactive[e])
               next == inactive[e][n]
    <3>1. e \in Endpoints /\ n \in Nat \ {0} /\ next \in Conns
      BY <2>6, SMTT(30) DEF UnregisterPromote
    <3>2. messages' \in [Conns -> Seq(Messages)]
      BY <2>6, <3>1, MessageTypes, TrySendType DEF UnregisterPromote
    <3>3. SubSeq(inactive[e], 1, n - 1) \in Seq(Conns)
      BY <3>1, SMTT(30)
    <3>4. QED
      BY <2>6, <3>1, <3>2, <3>3, SMTT(30) DEF UnregisterPromote
  <2>7. ASSUME NEW c \in Conns, UnregisterInactive(c) PROVE TypeOK'
    <3> DEFINE e == Owner[c]
    <3>1. PICK i \in 1..Len(inactive[e]) :
             inactive' = [inactive EXCEPT ![e] = Without(@, i)]
      BY <2>7 DEF UnregisterInactive
    <3>2. Without(inactive[e], i) \in Seq(Conns)
      BY WithoutType
    <3>3. inactive' \in [Endpoints -> Seq(Conns)]
      BY <3>1, <3>2
    <3>4. phase' \in [Conns -> Phases] /\ permits' \in Nat
      BY <2>7, SMTT(30) DEF UnregisterInactive
    <3>5. QED
      BY <2>7, <3>3, <3>4 DEF UnregisterInactive
  <2>8. ASSUME NEW c \in Conns, UnregisterRemoved(c) PROVE TypeOK'
    BY <2>8 DEF UnregisterRemoved
  <2>9. ASSUME NEW c \in Conns, NEW p \in Endpoints, NotifyPeer(c, p) PROVE TypeOK'
    <3>1. messages' \in [Conns -> Seq(Messages)]
      BY <2>9, MessageTypes, TrySendType DEF NotifyPeer
    <3>2. QED
      BY <2>9, <3>1 DEF NotifyPeer
  <2>10. ASSUME NEW c \in Conns, ActorDropped(c) PROVE TypeOK'
    <3>1. messages' \in [Conns -> Seq(Messages)] /\ packets' \in [Conns -> Seq(Endpoints)]
      BY <2>10, SMTT(30) DEF ActorDropped
    <3>2. QED
      BY <2>10, <3>1 DEF ActorDropped
  <2>11. ASSUME NEW c \in Conns, NEW d \in Endpoints, SendPacket(c, d) PROVE TypeOK'
    <3>1. active[d] \in Conns
      BY <2>11 DEF SendPacket
    <3>2. CASE phase[active[d]] = "closed"
      BY <2>11, <3>1, <3>2 DEF SendPacket
    <3>3. CASE phase[active[d]] # "closed"
      <4>1. packets' = [packets EXCEPT ![active[d]] = Append(@, Owner[c])]
        BY <2>11, <3>3 DEF SendPacket
      <4>2. packets' \in [Conns -> Seq(Endpoints)]
        BY <3>1, <4>1, SMTT(30)
      <4>3. Recorded(sentTo[Owner[c]], d) \in SUBSET Endpoints
        BY RecordedType
      <4>4. sentTo' = [sentTo EXCEPT ![Owner[c]] = Recorded(@, d)]
        BY <2>11, <3>3 DEF SendPacket
      <4>5. sentTo' \in [Endpoints -> SUBSET Endpoints]
        BY <4>3, <4>4
      <4>6. QED
        BY <2>11, <3>3, <4>2, <4>5 DEF SendPacket
    <3>4. QED
      BY <3>2, <3>3
  <2>12. ASSUME NEW c \in Conns, WritePacket(c) PROVE TypeOK'
    BY <2>12, SMTT(30) DEF WritePacket
  <2>13. ASSUME NEW c \in Conns, WriteMessage(c) PROVE TypeOK'
    <3>1. messages' \in [Conns -> Seq(Messages)]
      BY <2>13, SMTT(30) DEF WriteMessage
    <3>2. QED
      BY <2>13, <3>1 DEF WriteMessage
  <2>14. ASSUME NEW e \in Endpoints, NEW w \in SUBSET Sessions(e), Disconnect(e, w)
         PROVE TypeOK'
    BY <2>14, SessionsType DEF Disconnect
  <2>15. CASE Shutdown
    BY <2>15, SMTT(30) DEF Shutdown
  <2>16. ASSUME NEW e \in Endpoints, ShutdownRemove(e) PROVE TypeOK'
    BY <2>16, SessionsType, SMTT(30) DEF ShutdownRemove
  <2>17. CASE ShutdownCancel
    BY <2>17 DEF ShutdownCancel
  <2>18. ASSUME NEW c \in Conns, ShutdownJoin(c) PROVE TypeOK'
    BY <2>18, SMTT(30) DEF ShutdownJoin
  <2>19. CASE UNCHANGED vars
    BY <2>19 DEF vars
  <2>20. QED
    BY <2>1, <2>2, <2>3, <2>4, <2>5, <2>6, <2>7, <2>8, <2>9, <2>10, <2>11, <2>12,
       <2>13, <2>14, <2>15, <2>16, <2>17, <2>18, <2>19
       DEF Next, ActorStep, Unregister, ServerStep
<1>3. QED
  BY <1>1, <1>2, PTL DEF Spec

-----------------------------------------------------------------------------
(* The registry and the actors agree. *)

IInv == TypeOK /\ NoZombies /\ NoOrphans /\ DrainedApart

\* Without one of its elements, an injective sequence has all the others.
LEMMA WithoutElements ==
    ASSUME NEW S, NEW s \in Seq(S), NEW i \in 1..Len(s),
           \A j, k \in 1..Len(s) : s[j] = s[k] => j = k
    PROVE  /\ Len(Without(s, i)) = Len(s) - 1
           /\ \A j \in 1..Len(Without(s, i)) : \E k \in 1..Len(s) :
                 k # i /\ Without(s, i)[j] = s[k]
           /\ \A k \in 1..Len(s) : k # i =>
                 \E j \in 1..Len(Without(s, i)) : Without(s, i)[j] = s[k]
           /\ \A j, k \in 1..Len(Without(s, i)) :
                 Without(s, i)[j] = Without(s, i)[k] => j = k
<1> DEFINE w == Without(s, i)
<1>1. Len(s) \in Nat /\ Len(w) = Len(s) - 1 /\ DOMAIN w = 1..(Len(s) - 1)
  BY SMTT(30) DEF Without
<1>2. \A j \in 1..(Len(s) - 1) : w[j] = IF j < i THEN s[j] ELSE s[j + 1]
  BY DEF Without
<1>3. ASSUME NEW j \in 1..Len(w)
      PROVE  \E k \in 1..Len(s) : k # i /\ w[j] = s[k]
  <2>1. CASE j < i
    BY <1>1, <1>2, <2>1, SMTT(30)
  <2>2. CASE ~ (j < i)
    <3>1. j + 1 \in 1..Len(s) /\ j + 1 # i /\ w[j] = s[j + 1]
      BY <1>1, <1>2, <2>2, SMTT(30)
    <3>2. QED
      BY <3>1
  <2>3. QED
    BY <2>1, <2>2
<1>4. ASSUME NEW k \in 1..Len(s), k # i
      PROVE  \E j \in 1..Len(w) : w[j] = s[k]
  <2>1. CASE k < i
    BY <1>1, <1>2, <2>1, SMTT(30)
  <2>2. CASE ~ (k < i)
    <3>1. k - 1 \in 1..Len(w) /\ w[k - 1] = s[k]
      BY <1>1, <1>2, <1>4, <2>2, SMTT(30)
    <3>2. QED
      BY <3>1
  <2>3. QED
    BY <2>1, <2>2
<1>5. ASSUME NEW j \in 1..Len(w), NEW k \in 1..Len(w), w[j] = w[k]
      PROVE  j = k
  BY <1>1, <1>2, <1>5, SMTT(30)
<1>6. QED
  BY <1>1, <1>3, <1>4, <1>5

\* How the elements of a sequence change with an append, without the last
\* one, and without any other.
LEMMA ElementsEmpty == Elements(<<>>) = {}
BY SMTT(30) DEF Elements

\* What a list holds with an element more at the end,
LEMMA ElementsAppend ==
    ASSUME NEW S, NEW s \in Seq(S), NEW x \in S
    PROVE  Elements(Append(s, x)) = Elements(s) \cup {x}
<1> DEFINE t == Append(s, x)
<1>1. /\ Len(s) \in Nat /\ Len(t) = Len(s) + 1 /\ t[Len(s) + 1] = x
      /\ \A i \in 1..Len(s) : t[i] = s[i]
  BY SMTT(30)
<1> HIDE DEF t
<1>2. \A y \in Elements(t) : y \in Elements(s) \cup {x}
  BY <1>1, SMTT(30) DEF Elements
<1>3. \A y \in Elements(s) \cup {x} : y \in Elements(t)
  BY <1>1, SMTT(30) DEF Elements
<1>4. Elements(t) = Elements(s) \cup {x}
  BY <1>2, <1>3
<1>5. QED
  BY <1>4 DEF t

\* without its last element,
LEMMA ElementsFront ==
    ASSUME NEW S, NEW s \in Seq(S), Len(s) > 0
    PROVE  /\ Elements(s) = Elements(SubSeq(s, 1, Len(s) - 1)) \cup {s[Len(s)]}
           /\ SubSeq(s, 1, Len(s) - 1) \in Seq(S)
           /\ Len(SubSeq(s, 1, Len(s) - 1)) = Len(s) - 1
           /\ \A i \in 1..(Len(s) - 1) : SubSeq(s, 1, Len(s) - 1)[i] = s[i]
<1> DEFINE n == Len(s)
           t == SubSeq(s, 1, n - 1)
<1>1. n \in Nat \ {0} /\ 1..(n - 1) \subseteq 1..n
  BY SMTT(30)
<1>a. \A i \in 1..(n - 1) : s[i] \in S
  BY <1>1, SMTT(30)
<1>2. t \in Seq(S) /\ Len(t) = n - 1
  <2>1. t \in Seq(S) /\ Len(t) = IF 1 <= n - 1 THEN (n - 1) - 1 + 1 ELSE 0
    BY <1>1, <1>a, SMTT(30)
  <2> HIDE DEF n, t
  <2>2. QED
    BY <1>1, <2>1, SMTT(30)
<1>3. \A i \in 1..(n - 1) : t[i] = s[i]
  BY <1>1, SMTT(30)
<1> HIDE DEF t
<1>4. \A y \in Elements(t) \cup {s[n]} : y \in Elements(s)
  BY <1>1, <1>2, <1>3, SMTT(30) DEF Elements
<1>5. \A y \in Elements(s) : y \in Elements(t) \cup {s[n]}
  BY <1>1, <1>2, <1>3, SMTT(30) DEF Elements
<1>6. QED
  BY <1>2, <1>3, <1>4, <1>5 DEF t

\* and without any other.
LEMMA ElementsWithout ==
    ASSUME NEW S, NEW s \in Seq(S), NEW i \in 1..Len(s),
           \A j, k \in 1..Len(s) : s[j] = s[k] => j = k
    PROVE  Elements(Without(s, i)) = Elements(s) \ {s[i]}
<1> DEFINE w == Without(s, i)
<1>1. /\ \A j \in 1..Len(w) : \E k \in 1..Len(s) : k # i /\ w[j] = s[k]
      /\ \A k \in 1..Len(s) : k # i => \E j \in 1..Len(w) : w[j] = s[k]
  BY WithoutElements
<1> HIDE DEF w
<1>2. ASSUME NEW j \in 1..Len(w) PROVE w[j] \in Elements(s) \ {s[i]}
  <2>1. PICK k \in 1..Len(s) : k # i /\ w[j] = s[k]
    BY <1>1
  <2>2. QED
    BY <2>1 DEF Elements
<1>2a. \A y \in Elements(w) : y \in Elements(s) \ {s[i]}
  BY <1>2 DEF Elements
<1>3. \A y \in Elements(s) \ {s[i]} : y \in Elements(w)
  BY <1>1, SMTT(30) DEF Elements
<1>4. QED
  BY <1>2a, <1>3 DEF w

\* What registering a connection does to the sets of sessions: it joins those
\* of its endpoint and no others.
LEMMA RegisterSessions ==
    ASSUME IInv, NEW c \in Conns, RegisterFirst(c) \/ RegisterAgain(c)
    PROVE  \A e \in Endpoints :
              Sessions(e)' = IF e = Owner[c] THEN Sessions(e) \cup {c} ELSE Sessions(e)
<1> DEFINE o == Owner[c]
<1>0. /\ o \in Endpoints /\ active \in [Endpoints -> Conns \cup {NoConn}]
      /\ inactive \in [Endpoints -> Seq(Conns)] /\ c # NoConn
  BY OwnerAssumption, NoConnAssumption DEF IInv, TypeOK
<1>1. CASE RegisterFirst(c)
  <2>1. /\ inactive[o] = <<>> /\ inactive' = inactive
        /\ active[o] = NoConn /\ active' = [active EXCEPT ![o] = c]
    BY <1>0, <1>1 DEF RegisterFirst, NoZombies, IInv
  <2>2. QED
    BY <1>0, <2>1, ElementsEmpty DEF Sessions
<1>2. CASE RegisterAgain(c)
  <2>1. /\ active[o] \in Conns
        /\ active' = [active EXCEPT ![o] = c]
        /\ inactive' = [inactive EXCEPT ![o] = Append(@, active[o])]
    BY <1>0, <1>2 DEF RegisterAgain
  <2>2. Elements(Append(inactive[o], active[o])) = Elements(inactive[o]) \cup {active[o]}
    BY <1>0, <2>1, ElementsAppend, SMTT(30)
  <2>3. QED
    BY <1>0, <2>1, <2>2, NoConnAssumption DEF Sessions
<1>3. QED
  BY <1>1, <1>2

\* What unregistering a connection that is in the registry does: it leaves the
\* sessions of its endpoint, and only it does.
LEMMA UnregisterSessions ==
    ASSUME IInv, NEW c \in Conns,
           UnregisterLast(c) \/ UnregisterPromote(c) \/ UnregisterInactive(c)
    PROVE  /\ c \in Sessions(Owner[c])
           /\ \A e \in Endpoints :
                 Sessions(e)' = IF e = Owner[c] THEN Sessions(e) \ {c} ELSE Sessions(e)
<1> DEFINE o == Owner[c]
           s == inactive[o]
<1>0. /\ o \in Endpoints /\ active \in [Endpoints -> Conns \cup {NoConn}]
      /\ inactive \in [Endpoints -> Seq(Conns)] /\ c # NoConn /\ s \in Seq(Conns)
  BY OwnerAssumption, NoConnAssumption DEF IInv, TypeOK
<1>n. /\ \A i, j \in 1..Len(s) : s[i] = s[j] => i = j
      /\ active[o] \notin Elements(s)
  <2>1. \A i \in 1..Len(s) : s[i] # active[o]
                           /\ \A j \in 1..Len(s) : s[i] = s[j] => i = j
    BY <1>0 DEF NoZombies, IInv
  <2>2. QED
    BY <2>1 DEF Elements
<1>1. CASE UnregisterLast(c)
  <2>1. /\ s = <<>> /\ inactive' = inactive
        /\ active[o] = c /\ active' = [active EXCEPT ![o] = NoConn]
    BY <1>1 DEF UnregisterLast
  <2>2. QED
    BY <1>0, <2>1, ElementsEmpty DEF Sessions
<1>2. CASE UnregisterPromote(c)
  <2>1. /\ active[o] = c /\ Len(s) > 0
        /\ active' = [active EXCEPT ![o] = s[Len(s)]]
        /\ inactive' = [inactive EXCEPT ![o] = SubSeq(@, 1, Len(s) - 1)]
    BY <1>2 DEF UnregisterPromote
  <2>2. /\ Elements(s) = Elements(SubSeq(s, 1, Len(s) - 1)) \cup {s[Len(s)]}
        /\ s[Len(s)] \in Conns
    BY <1>0, <2>1, ElementsFront, SMTT(30)
  <2>3. s[Len(s)] # NoConn
    BY <2>2, NoConnAssumption
  <2>4. active'[o] = s[Len(s)] /\ inactive'[o] = SubSeq(s, 1, Len(s) - 1)
    BY <1>0, <2>1
  <2>5. Sessions(o)' = Elements(s) /\ Sessions(o) = {c} \cup Elements(s)
    BY <1>0, <2>1, <2>2, <2>3, <2>4 DEF Sessions
  <2>6. \A e \in Endpoints \ {o} : Sessions(e)' = Sessions(e)
    BY <1>0, <2>1 DEF Sessions
  <2>7. QED
    BY <1>0, <1>n, <2>1, <2>5, <2>6, SMTT(30)
<1>3. CASE UnregisterInactive(c)
  <2>1. PICK i \in 1..Len(s) : s[i] = c /\ inactive' = [inactive EXCEPT ![o] = Without(@, i)]
    BY <1>3 DEF UnregisterInactive
  <2>2. active' = active /\ active[o] # c /\ active[o] # NoConn
    BY <1>3 DEF UnregisterInactive
  <2>3. Elements(Without(s, i)) = Elements(s) \ {c} /\ c \in Elements(s)
    BY <1>0, <1>n, <2>1, ElementsWithout DEF Elements
  <2>4. QED
    BY <1>0, <2>1, <2>2, <2>3 DEF Sessions
<1>4. QED
  BY <1>1, <1>2, <1>3

Agreement == NoZombies /\ NoOrphans /\ DrainedApart

\* A connection can only be registered under its owner.
LEMMA RegisteredUnderOwner ==
    ASSUME NoZombies
    PROVE  \A c \in Conns : c \in Registered <=> c \in Sessions(Owner[c])
BY OwnerAssumption, SMTT(30) DEF NoZombies, Registered

\* Steps that leave the registry, the drained clients and the phases alone.
LEMMA QuietStep ==
    ASSUME IInv, UNCHANGED <<active, inactive, draining, phase>>
    PROVE  Agreement'
BY SMTT(30) DEF IInv, Agreement, NoZombies, NoOrphans, DrainedApart, Registered, Sessions

\* Steps of an actor that leave the registry alone.
LEMMA PhaseStep ==
    ASSUME IInv, UNCHANGED <<active, inactive, draining>>,
           NEW c \in Conns, NEW p \in Phases \ {"fresh"},
           phase' = [phase EXCEPT ![c] = p],
           p \in {"running", "ending"} => phase[c] \in {"running", "ending"},
           p \in {"running", "ending"} \/ c \notin Sessions(Owner[c])
    PROVE  Agreement'
<1>1. phase \in [Conns -> Phases] /\ draining \subseteq Conns
  BY DEF IInv, TypeOK
<1>2. /\ phase'[c] = p
      /\ \A d \in Conns : d # c => phase'[d] = phase[d]
  BY <1>1
<1>3. \A e \in Endpoints : Sessions(e)' = Sessions(e)
  BY DEF Sessions
<1>4. \A e \in Endpoints : Sessions(e) \subseteq Conns
  BY SessionsType DEF IInv
<1>5. NoZombies'
  <2>1. ASSUME NEW e \in Endpoints, NEW d \in Sessions(e)
        PROVE  Owner[d] = e /\ phase'[d] \in {"running", "ending"}
    BY <1>2, <1>4, <2>1, SMTT(30) DEF IInv, NoZombies
  <2>2. QED
    BY <1>3, <2>1, SMTT(30) DEF IInv, NoZombies
<1>6. NoOrphans'
  BY <1>2, <1>3, SMTT(30) DEF IInv, NoOrphans, Registered
<1>7. DrainedApart'
  BY <1>1, <1>2, <1>3, OwnerAssumption DEF IInv, DrainedApart
<1>8. QED
  BY <1>5, <1>6, <1>7 DEF Agreement

\* Registration: the new connection runs and is in the registry.
LEMMA RegisterStep ==
    ASSUME IInv, NEW c \in Conns, RegisterFirst(c) \/ RegisterAgain(c)
    PROVE  Agreement'
<1> DEFINE o == Owner[c]
<1>1. /\ phase \in [Conns -> Phases] /\ draining \subseteq Conns /\ o \in Endpoints
      /\ active \in [Endpoints -> Conns \cup {NoConn}]
      /\ inactive \in [Endpoints -> Seq(Conns)]
  BY OwnerAssumption DEF IInv, TypeOK
<1>2. /\ phase[c] = "fresh" /\ phase' = [phase EXCEPT ![c] = "running"]
      /\ draining' = draining
      /\ active' = [active EXCEPT ![o] = c]
  BY DEF RegisterFirst, RegisterAgain, shutdownVars
<1>3. /\ phase'[c] = "running"
      /\ \A d \in Conns : d # c => phase'[d] = phase[d]
  BY <1>1, <1>2
<1>4. \A e \in Endpoints :
         Sessions(e)' = IF e = o THEN Sessions(e) \cup {c} ELSE Sessions(e)
  BY RegisterSessions
<1>5. \A e \in Endpoints : Sessions(e) \subseteq Conns
  BY SessionsType DEF IInv
<1>6. c \notin Sessions(o)
  BY <1>1, <1>2 DEF IInv, NoZombies
<1>7. NoZombies'
  <2>1. ASSUME NEW e \in Endpoints, NEW d \in Sessions(e)'
        PROVE  Owner[d] = e /\ phase'[d] \in {"running", "ending"}
    BY <1>3, <1>4, <1>5, <2>1, SMTT(30) DEF IInv, NoZombies
  <2>2. ASSUME NEW e \in Endpoints
        PROVE  /\ \A i \in 1..Len(inactive'[e]) :
                     /\ inactive'[e][i] # active'[e]
                     /\ \A j \in 1..Len(inactive'[e]) :
                           inactive'[e][i] = inactive'[e][j] => i = j
               /\ active'[e] = NoConn => inactive'[e] = <<>>
    <3> DEFINE s == inactive[e]
    <3>1. /\ \A i \in 1..Len(s) :
               /\ s[i] # active[e]
               /\ \A j \in 1..Len(s) : s[i] = s[j] => i = j
          /\ active[e] = NoConn => s = <<>>
          /\ s \in Seq(Conns)
      BY <1>1 DEF IInv, NoZombies
    <3>2. CASE e # o
      <4>1. active'[e] = active[e] /\ inactive'[e] = inactive[e]
        BY <1>1, <1>2, <3>2 DEF RegisterFirst, RegisterAgain
      <4>2. QED
        BY <3>1, <4>1
    <3>3. CASE e = o /\ RegisterFirst(c)
      <4>1. active'[e] = c /\ inactive'[e] = <<>>
        BY <1>1, <1>2, <3>1, <3>3 DEF RegisterFirst
      <4>2. QED
        BY <4>1, NoConnAssumption, SMTT(30)
    <3>4. CASE e = o /\ RegisterAgain(c)
      <4>1. active'[e] = c /\ inactive'[e] = Append(s, active[e]) /\ active[e] \in Conns
        BY <1>1, <1>2, <3>4, SMTT(30) DEF RegisterAgain
      <4>2. \A i \in 1..Len(s) : s[i] # c
        BY <1>6, <3>4, <4>1, NoConnAssumption DEF Sessions, Elements
      <4>3. active[e] # c
        BY <1>6, <3>4, <4>1, NoConnAssumption DEF Sessions
      <4> DEFINE t == Append(s, active[e])
      <4>4. /\ Len(s) \in Nat /\ Len(t) = Len(s) + 1 /\ t[Len(s) + 1] = active[e]
            /\ \A i \in 1..Len(s) : t[i] = s[i]
        BY <3>1, <4>1, SMTT(30)
      <4> HIDE DEF t
      <4>5. \A i \in 1..Len(t) : t[i] # c
        BY <4>2, <4>3, <4>4, SMTT(30)
      <4>6. \A i, j \in 1..Len(t) : t[i] = t[j] => i = j
        BY <3>1, <4>4, SMTT(30)
      <4>7. inactive'[e] = t /\ active'[e] = c /\ c # NoConn
        BY <4>1, NoConnAssumption DEF t
      <4>8. QED
        BY <4>5, <4>6, <4>7
    <3>5. QED
      BY <3>2, <3>3, <3>4
  <2>3. QED
    BY <2>1, <2>2 DEF NoZombies
<1>8. NoOrphans'
  <2>1. ASSUME NEW d \in Conns, phase'[d] \in {"running", "ending"}
        PROVE  d \in Registered' \cup draining'
    <3>1. CASE d = c
      <4>1. c \in Sessions(o)'
        BY <1>1, <1>4
      <4>2. QED
        BY <1>1, <3>1, <4>1 DEF Registered
    <3>2. CASE d # c
      <4>1. d \in Registered \cup draining
        BY <1>3, <2>1, <3>2 DEF IInv, NoOrphans
      <4>2. \A e \in Endpoints : Sessions(e) \subseteq Sessions(e)'
        BY <1>4
      <4>3. QED
        BY <1>2, <4>1, <4>2 DEF Registered
    <3>3. QED
      BY <3>1, <3>2
  <2>2. QED
    BY <2>1 DEF NoOrphans
<1>9. DrainedApart'
  BY <1>1, <1>2, <1>3, <1>4, OwnerAssumption DEF IInv, DrainedApart
<1>10. QED
  BY <1>7, <1>8, <1>9 DEF Agreement

\* Departure: the connection leaves the registry in the step in which its
\* actor goes past the unregister.
LEMMA UnregisterStep ==
    ASSUME IInv, NEW c \in Conns,
           UnregisterLast(c) \/ UnregisterPromote(c) \/ UnregisterInactive(c)
    PROVE  Agreement'
<1> DEFINE o == Owner[c]
           s == inactive[o]
<1>1. /\ phase \in [Conns -> Phases] /\ draining \subseteq Conns /\ o \in Endpoints
      /\ active \in [Endpoints -> Conns \cup {NoConn}]
      /\ inactive \in [Endpoints -> Seq(Conns)]
  BY OwnerAssumption DEF IInv, TypeOK
<1>2. phase' = [phase EXCEPT ![c] = "notifying"] /\ draining' = draining
  BY DEF UnregisterLast, UnregisterPromote, UnregisterInactive, shutdownVars
<1>3. /\ phase'[c] = "notifying"
      /\ \A d \in Conns : d # c => phase'[d] = phase[d]
  BY <1>1, <1>2
<1>4. \A e \in Endpoints :
         Sessions(e)' = IF e = o THEN Sessions(e) \ {c} ELSE Sessions(e)
  BY UnregisterSessions
<1>5. \A e \in Endpoints : Sessions(e) \subseteq Conns
  BY SessionsType DEF IInv
<1>6. /\ \A i \in 1..Len(s) :
           /\ s[i] # active[o]
           /\ \A j \in 1..Len(s) : s[i] = s[j] => i = j
      /\ s \in Seq(Conns) /\ Len(s) \in Nat
  BY <1>1, SMTT(30) DEF IInv, NoZombies
<1>7. NoZombies'
  <2>1. ASSUME NEW e \in Endpoints, NEW d \in Sessions(e)'
        PROVE  Owner[d] = e /\ phase'[d] \in {"running", "ending"}
    BY <1>1, <1>3, <1>4, <1>5, <2>1, SMTT(30) DEF IInv, NoZombies
  <2>2. ASSUME NEW e \in Endpoints
        PROVE  /\ \A i \in 1..Len(inactive'[e]) :
                     /\ inactive'[e][i] # active'[e]
                     /\ \A j \in 1..Len(inactive'[e]) :
                           inactive'[e][i] = inactive'[e][j] => i = j
               /\ active'[e] = NoConn => inactive'[e] = <<>>
    <3>1. CASE e # o
      <4>1. active'[e] = active[e] /\ inactive'[e] = inactive[e]
        <5>1. CASE UnregisterLast(c)
          BY <1>1, <3>1, <5>1 DEF UnregisterLast
        <5>2. CASE UnregisterPromote(c)
          BY <1>1, <3>1, <5>2 DEF UnregisterPromote
        <5>3. CASE UnregisterInactive(c)
          BY <1>1, <3>1, <5>3 DEF UnregisterInactive
        <5>4. QED
          BY <5>1, <5>2, <5>3
      <4>2. QED
        BY <4>1, SMTT(30) DEF IInv, NoZombies
    <3>2. CASE e = o /\ UnregisterLast(c)
      <4>1. inactive'[e] = <<>>
        BY <1>1, <3>2 DEF UnregisterLast
      <4>2. QED
        BY <4>1, SMTT(30)
    <3>3. CASE e = o /\ UnregisterPromote(c)
      <4> DEFINE t == SubSeq(s, 1, Len(s) - 1)
      <4>1. Len(s) > 0 /\ inactive'[e] = t /\ active'[e] = s[Len(s)]
        BY <1>1, <3>3 DEF UnregisterPromote
      <4>2. /\ Len(t) = Len(s) - 1
            /\ \A i \in 1..(Len(s) - 1) : t[i] = s[i]
        BY <1>6, <4>1, ElementsFront
      <4> HIDE DEF t
      <4>3. s[Len(s)] # NoConn
        BY <1>6, <4>1, NoConnAssumption, SMTT(30)
      <4>4. QED
        BY <1>6, <4>1, <4>2, <4>3, SMTT(30)
    <3>4. CASE e = o /\ UnregisterInactive(c)
      <4>1. PICK i \in 1..Len(s) : s[i] = c /\ inactive' = [inactive EXCEPT ![o] = Without(@, i)]
        BY <3>4 DEF UnregisterInactive
      <4> DEFINE w == Without(s, i)
      <4>2. inactive'[e] = w /\ active'[e] = active[o] /\ active[o] # NoConn
        BY <1>1, <3>4, <4>1 DEF UnregisterInactive
      <4>3. /\ \A j \in 1..Len(w) : \E k \in 1..Len(s) : k # i /\ w[j] = s[k]
            /\ \A j, k \in 1..Len(w) : w[j] = w[k] => j = k
        BY <1>6, WithoutElements
      <4> HIDE DEF w
      <4>4. QED
        BY <1>6, <4>2, <4>3, SMTT(30)
    <3>5. QED
      BY <3>1, <3>2, <3>3, <3>4
  <2>3. QED
    BY <2>1, <2>2 DEF NoZombies
<1>8. NoOrphans'
  <2>1. ASSUME NEW d \in Conns, phase'[d] \in {"running", "ending"}
        PROVE  d \in Registered' \cup draining'
    <3>1. d # c /\ phase[d] \in {"running", "ending"}
      BY <1>3, <2>1
    <3>2. d \in Registered \cup draining
      BY <3>1 DEF IInv, NoOrphans
    <3>3. QED
      BY <1>2, <1>4, <3>1, <3>2, SMTT(30) DEF Registered
  <2>2. QED
    BY <2>1 DEF NoOrphans
<1>9. DrainedApart'
  BY <1>1, <1>2, <1>3, <1>4, OwnerAssumption DEF IInv, DrainedApart
<1>10. QED
  BY <1>7, <1>8, <1>9 DEF Agreement

\* shutdown takes an entry out: its connections go from one side of NoOrphans
\* to the other.
LEMMA RemoveStep ==
    ASSUME IInv, NEW e \in Endpoints, ShutdownRemove(e)
    PROVE  /\ Agreement'
           /\ \A f \in Endpoints : Sessions(f)' = IF f = e THEN {} ELSE Sessions(f)
<1>1. /\ phase \in [Conns -> Phases] /\ draining \subseteq Conns
      /\ active \in [Endpoints -> Conns \cup {NoConn}]
      /\ inactive \in [Endpoints -> Seq(Conns)]
  BY DEF IInv, TypeOK
<1>2. /\ phase' = phase /\ draining' = draining \cup Sessions(e)
      /\ active' = [active EXCEPT ![e] = NoConn]
      /\ inactive' = [inactive EXCEPT ![e] = <<>>]
  BY DEF ShutdownRemove, actorVars
<1>3. \A f \in Endpoints : Sessions(f)' = IF f = e THEN {} ELSE Sessions(f)
  BY <1>1, <1>2 DEF Sessions
<1>4. \A f \in Endpoints : Sessions(f) \subseteq Conns
  BY SessionsType DEF IInv
<1>5. NoZombies'
  <2>1. ASSUME NEW f \in Endpoints
        PROVE  \/ f # e /\ active'[f] = active[f] /\ inactive'[f] = inactive[f]
               \/ f = e /\ active'[f] = NoConn /\ inactive'[f] = <<>>
    BY <1>1, <1>2
  <2>2. QED
    BY <1>2, <1>3, <2>1, SMTT(30) DEF IInv, NoZombies
<1>6. NoOrphans'
  <2>1. ASSUME NEW d \in Registered \cup draining PROVE d \in Registered' \cup draining'
    BY <1>2, <1>3 DEF Registered
  <2>2. QED
    BY <1>2, <2>1 DEF IInv, NoOrphans
<1>7. DrainedApart'
  <2>1. ASSUME NEW d \in draining PROVE phase[d] # "fresh" /\ d \notin Sessions(Owner[d])'
    BY <1>1, <1>3, <2>1, OwnerAssumption DEF IInv, DrainedApart
  <2>2. ASSUME NEW d \in Sessions(e) PROVE phase[d] # "fresh" /\ d \notin Sessions(Owner[d])'
    BY <1>3, <2>2 DEF IInv, NoZombies
  <2>3. QED
    BY <1>2, <2>1, <2>2 DEF DrainedApart
<1>8. QED
  BY <1>3, <1>5, <1>6, <1>7 DEF Agreement

\* join takes a client whose actor has ended out of the drained ones.
LEMMA JoinStep ==
    ASSUME IInv, NEW c \in Conns, ShutdownJoin(c)
    PROVE  Agreement'
<1>1. /\ UNCHANGED <<active, inactive, phase>> /\ draining' = draining \ {c}
      /\ phase[c] = "closed"
  BY DEF ShutdownJoin, actorVars
<1>2. \A e \in Endpoints : Sessions(e)' = Sessions(e)
  BY <1>1 DEF Sessions
<1>3. NoZombies' /\ NoOrphans'
  BY <1>1, <1>2, SMTT(30) DEF IInv, NoZombies, NoOrphans, Registered
<1>4. DrainedApart'
  BY <1>1, <1>2, OwnerAssumption DEF IInv, TypeOK, DrainedApart
<1>5. QED
  BY <1>3, <1>4 DEF Agreement

\* The registry and the actors always agree: nothing in the registry is past
\* its unregister, nothing that runs is outside the registry and the drained
\* clients, and what shutdown drained does not come back.
THEOREM RegistryAgrees == Spec => []Agreement
<1>1. Init => Agreement
  BY NoConnAssumption, SMTT(30)
     DEF Init, Agreement, NoZombies, NoOrphans, DrainedApart, Sessions, Registered
<1>2. TypeOK /\ Agreement /\ [Next]_vars => Agreement'
  <2> SUFFICES ASSUME IInv, [Next]_vars PROVE Agreement'
    BY DEF IInv, Agreement
  <2> USE DEF registryVars, actorVars, queueVars, shutdownVars
  <2>1. ASSUME NEW c \in Conns, RegisterRefused(c) \/ RegisterUnspawned(c) PROVE Agreement'
    <3>1. phase[c] = "fresh" /\ Owner[c] \in Endpoints
      BY <2>1, OwnerAssumption DEF RegisterRefused, RegisterUnspawned
    <3>2. c \notin Sessions(Owner[c])
      BY <3>1 DEF IInv, NoZombies
    <3>3. UNCHANGED <<active, inactive, draining>> /\ phase' = [phase EXCEPT ![c] = "closed"]
      BY <2>1 DEF RegisterRefused, RegisterUnspawned, Refuse
    <3>4. QED
      BY <3>2, <3>3, PhaseStep, PhaseTypes
  <2>2. ASSUME NEW c \in Conns, RegisterFirst(c) \/ RegisterAgain(c) PROVE Agreement'
    BY <2>2, RegisterStep
  <2>3. ASSUME NEW c \in Conns, RunReturns(c) PROVE Agreement'
    BY <2>3, PhaseStep, PhaseTypes DEF RunReturns
  <2>4. ASSUME NEW c \in Conns,
               UnregisterLast(c) \/ UnregisterPromote(c) \/ UnregisterInactive(c)
        PROVE  Agreement'
    BY <2>4, UnregisterStep
  <2>5. ASSUME NEW c \in Conns, UnregisterRemoved(c) PROVE Agreement'
    BY <2>5, PhaseStep, PhaseTypes DEF UnregisterRemoved
  <2>6. ASSUME NEW c \in Conns, ActorDropped(c) PROVE Agreement'
    <3>1. phase[c] = "notifying" /\ Owner[c] \in Endpoints
      BY <2>6, OwnerAssumption DEF ActorDropped
    <3>2. c \notin Sessions(Owner[c])
      BY <3>1 DEF IInv, NoZombies
    <3>3. UNCHANGED <<active, inactive, draining>> /\ phase' = [phase EXCEPT ![c] = "closed"]
      BY <2>6 DEF ActorDropped
    <3>4. QED
      BY <3>2, <3>3, PhaseStep, PhaseTypes
  <2>7. ASSUME NEW e \in Endpoints, ShutdownRemove(e) PROVE Agreement'
    BY <2>7, RemoveStep
  <2>8. ASSUME NEW c \in Conns, ShutdownJoin(c) PROVE Agreement'
    BY <2>8, JoinStep
  <2>9. CASE \E c \in Conns : \E p \in Endpoints : NotifyPeer(c, p)
    BY <2>9, QuietStep DEF NotifyPeer
  <2>10. CASE \E c \in Conns : \E d \in Endpoints : SendPacket(c, d)
    BY <2>10, QuietStep DEF SendPacket
  <2>11. CASE \E c \in Conns : WritePacket(c) \/ WriteMessage(c)
    BY <2>11, QuietStep DEF WritePacket, WriteMessage
  <2>12. CASE \E e \in Endpoints : \E w \in SUBSET Sessions(e) : Disconnect(e, w)
    BY <2>12, QuietStep DEF Disconnect
  <2>13. CASE Shutdown \/ ShutdownCancel
    BY <2>13, QuietStep DEF Shutdown, ShutdownCancel
  <2>14. CASE UNCHANGED vars
    BY <2>14, QuietStep DEF vars
  <2>15. QED
    BY <2>1, <2>2, <2>3, <2>4, <2>5, <2>6, <2>7, <2>8, <2>9, <2>10, <2>11, <2>12,
       <2>13, <2>14 DEF Next, ActorStep, Unregister, ServerStep
<1>3. QED
  BY <1>1, <1>2, TypeCorrect, PTL DEF Spec

\* register and unregister: the registry never keeps a connection whose actor
\* is past its unregister, nor files one twice or under another endpoint.
THEOREM NoneZombie == Spec => []NoZombies
<1>1. Agreement => NoZombies
  BY DEF Agreement
<1>2. QED
  BY <1>1, RegistryAgrees, PTL

\* unregister and shutdown: a connection whose actor still runs is in the
\* registry, or shutdown took it out and waits for it.
THEOREM NoneOrphaned == Spec => []NoOrphans
<1>1. Agreement => NoOrphans
  BY DEF Agreement
<1>2. QED
  BY <1>1, RegistryAgrees, PTL

\* Clients::shutdown: a connection that was taken out of the registry does not
\* come back to it, though its endpoint may register again meanwhile.
THEOREM DrainedStayOut == Spec => []DrainedApart
<1>1. Agreement => DrainedApart
  BY DEF Agreement
<1>2. QED
  BY <1>1, RegistryAgrees, PTL

-----------------------------------------------------------------------------
(* Session permits. *)

Held == Registered \cup draining
PermitsInv == IsFiniteSet(Held) /\ PermitsAccounted

\* A permit is taken with a connection that held none, ...
LEMMA PermitTaken ==
    ASSUME TypeOK, PermitsInv, NEW c, c \notin Held, Held' = Held \cup {c},
           permits > 0, permits' = permits - 1
    PROVE  PermitsInv'
<1>1. IsFiniteSet(Held) /\ permits + Cardinality(Held) = MaxSessions
  BY DEF PermitsInv, PermitsAccounted, Held
<1>2. Cardinality(Held) \in Nat /\ permits \in Nat
  BY <1>1, FS_CardinalityType DEF TypeOK
<1>3. IsFiniteSet(Held') /\ Cardinality(Held') = Cardinality(Held) + 1
  BY <1>1, FS_AddElement
<1>4. permits' + Cardinality(Held') = MaxSessions
  BY <1>1, <1>2, <1>3, SMTT(30)
<1>5. QED
  BY <1>3, <1>4 DEF PermitsInv, PermitsAccounted, Held

\* ... and returned with one that held one.
LEMMA PermitReturned ==
    ASSUME TypeOK, PermitsInv, NEW c \in Held, Held' = Held \ {c}, permits' = permits + 1
    PROVE  PermitsInv'
<1>1. IsFiniteSet(Held) /\ permits + Cardinality(Held) = MaxSessions
  BY DEF PermitsInv, PermitsAccounted, Held
<1>2. Cardinality(Held) \in Nat /\ permits \in Nat
  BY <1>1, FS_CardinalityType DEF TypeOK
<1>3. IsFiniteSet(Held') /\ Cardinality(Held') = Cardinality(Held) - 1
  BY <1>1, FS_RemoveElement
<1>4. permits' + Cardinality(Held') = MaxSessions
  BY <1>1, <1>2, <1>3, SMTT(30)
<1>5. QED
  BY <1>3, <1>4 DEF PermitsInv, PermitsAccounted, Held

\* A step that neither takes nor returns a permit.
LEMMA PermitKept ==
    ASSUME PermitsInv, Held' = Held, permits' = permits
    PROVE  PermitsInv'
BY DEF PermitsInv, PermitsAccounted, Held

\* The holders of permits are always finitely many, and accounted for.
LEMMA PermitsHeld == Spec => []PermitsInv
<1>1. Init => PermitsInv
  <2> SUFFICES ASSUME Init PROVE PermitsInv
    OBVIOUS
  <2>1. Held = {}
    BY DEF Init, Held, Registered, Sessions
  <2>2. permits + 0 = MaxSessions
    BY BoundsAssumption, SMTT(30) DEF Init
  <2>3. QED
    BY <2>1, <2>2, FS_EmptySet DEF PermitsInv, PermitsAccounted, Held
<1>2. IInv /\ PermitsInv /\ [Next]_vars => PermitsInv'
  <2> SUFFICES ASSUME IInv, PermitsInv, [Next]_vars PROVE PermitsInv'
    OBVIOUS
  <2>t. TypeOK /\ NoZombies /\ DrainedApart /\ draining \subseteq Conns
    BY DEF IInv, TypeOK
  <2>o. \A c \in Conns : Owner[c] \in Endpoints
    BY OwnerAssumption
  <2>r. \A c \in Conns : c \in Registered <=> c \in Sessions(Owner[c])
    BY <2>t, RegisteredUnderOwner
  <2> USE DEF registryVars, actorVars, queueVars, shutdownVars
  <2>q. ASSUME UNCHANGED <<active, inactive, draining, permits>> PROVE PermitsInv'
    BY <2>q, PermitKept DEF Held, Registered, Sessions
  <2>1. ASSUME NEW c \in Conns, RegisterFirst(c) \/ RegisterAgain(c) PROVE PermitsInv'
    <3>1. /\ phase[c] = "fresh" /\ permits > 0 /\ permits' = permits - 1
          /\ draining' = draining
      BY <2>1 DEF RegisterFirst, RegisterAgain
    <3>2. c \notin Held
      BY <2>t, <2>o, <2>r, <3>1 DEF Held, NoZombies, DrainedApart
    <3>3. Registered' = Registered \cup {c}
      BY <2>1, <2>o, RegisterSessions, SMTT(30) DEF Registered
    <3>4. Held' = Held \cup {c}
      BY <3>1, <3>3 DEF Held
    <3>5. QED
      BY <2>t, <3>1, <3>2, <3>4, PermitTaken
  <2>2. ASSUME NEW c \in Conns,
               UnregisterLast(c) \/ UnregisterPromote(c) \/ UnregisterInactive(c)
        PROVE  PermitsInv'
    <3>1. permits' = permits + 1 /\ draining' = draining
      BY <2>2 DEF UnregisterLast, UnregisterPromote, UnregisterInactive
    <3>2. /\ c \in Sessions(Owner[c])
          /\ \A e \in Endpoints :
                Sessions(e)' = IF e = Owner[c] THEN Sessions(e) \ {c} ELSE Sessions(e)
      BY <2>2, UnregisterSessions
    <3>3. \A e \in Endpoints : e # Owner[c] => c \notin Sessions(e)
      BY <2>t DEF NoZombies
    <3>4. Registered' = Registered \ {c}
      BY <2>o, <3>2, <3>3, SMTT(30) DEF Registered
    <3>5. c \in Registered /\ c \notin draining
      BY <2>t, <2>r, <3>2 DEF DrainedApart
    <3>6. c \in Held /\ Held' = Held \ {c}
      BY <3>1, <3>4, <3>5 DEF Held
    <3>7. QED
      BY <2>t, <3>1, <3>6, PermitReturned
  <2>3. ASSUME NEW e \in Endpoints, ShutdownRemove(e) PROVE PermitsInv'
    <3>1. permits' = permits /\ draining' = draining \cup Sessions(e)
      BY <2>3 DEF ShutdownRemove
    <3>2. Held' = Held
      BY <2>3, <3>1, RemoveStep, SMTT(30) DEF Held, Registered
    <3>3. QED
      BY <3>1, <3>2, PermitKept
  <2>4. ASSUME NEW c \in Conns, ShutdownJoin(c) PROVE PermitsInv'
    <3>1. /\ permits' = permits + 1 /\ draining' = draining \ {c} /\ c \in draining
          /\ phase[c] = "closed" /\ UNCHANGED <<active, inactive>>
      BY <2>4 DEF ShutdownJoin
    <3>2. c \notin Registered /\ Registered' = Registered
      BY <2>t, <2>o, <2>r, <3>1, SMTT(30) DEF NoZombies, Registered, Sessions
    <3>3. c \in Held /\ Held' = Held \ {c}
      BY <3>1, <3>2 DEF Held
    <3>4. QED
      BY <2>t, <3>1, <3>3, PermitReturned
  <2>5. CASE \E c \in Conns : \/ RegisterRefused(c) \/ RegisterUnspawned(c) \/ RunReturns(c)
                             \/ UnregisterRemoved(c) \/ ActorDropped(c)
    BY <2>5, <2>q DEF RegisterRefused, RegisterUnspawned, Refuse, RunReturns, UnregisterRemoved, ActorDropped
  <2>6. CASE \E c \in Conns : \E p \in Endpoints : NotifyPeer(c, p) \/ SendPacket(c, p)
    BY <2>6, <2>q DEF NotifyPeer, SendPacket
  <2>7. CASE \E c \in Conns : WritePacket(c) \/ WriteMessage(c)
    BY <2>7, <2>q DEF WritePacket, WriteMessage
  <2>8. CASE \E e \in Endpoints : \E w \in SUBSET Sessions(e) : Disconnect(e, w)
    BY <2>8, <2>q DEF Disconnect
  <2>9. CASE Shutdown \/ ShutdownCancel
    BY <2>9, <2>q DEF Shutdown, ShutdownCancel
  <2>10. CASE UNCHANGED vars
    BY <2>10, <2>q DEF vars
  <2>11. QED
    BY <2>1, <2>2, <2>3, <2>4, <2>5, <2>6, <2>7, <2>8, <2>9, <2>10, SMTT(30)
       DEF Next, ActorStep, Unregister, ServerStep
<1>3. TypeOK /\ Agreement => IInv
  BY DEF IInv, Agreement
<1>4. QED
  BY <1>1, <1>2, <1>3, TypeCorrect, RegistryAgrees, PTL DEF Spec

\* No path of a connection through the registry, refusal and shutdown included,
\* leaks a session permit or returns one twice.
THEOREM PermitsExact == Spec => []PermitsAccounted
<1>1. PermitsInv => PermitsAccounted
  BY DEF PermitsInv
<1>2. QED
  BY <1>1, PermitsHeld, PTL

-----------------------------------------------------------------------------
(* Hand-over of the active role. *)

\* An endpoint loses its active connection only with its last session or to a
\* shutdown: unregister promotes a waiting connection in the same step.
THEOREM HandOver == Spec => StaysReachable
<1> DEFINE Kept == \A e \in Endpoints :
                      active[e] # NoConn /\ active'[e] = NoConn
                          => Cardinality(Sessions(e)) = 1 \/ e \in closing
<1>1. TypeOK /\ [Next]_vars => [Kept]_vars
  <2> SUFFICES ASSUME TypeOK, Next PROVE Kept
    BY DEF vars
  <2>t. /\ active \in [Endpoints -> Conns \cup {NoConn}]
        /\ inactive \in [Endpoints -> Seq(Conns)]
        /\ \A c \in Conns : Owner[c] \in Endpoints /\ c # NoConn
    BY OwnerAssumption, NoConnAssumption DEF TypeOK
  <2> USE DEF registryVars, actorVars, queueVars, shutdownVars
  <2>1. ASSUME active' = active PROVE Kept
    BY <2>1
  <2>2. ASSUME NEW c \in Conns, RegisterFirst(c) \/ RegisterAgain(c) PROVE Kept
    <3>1. active' = [active EXCEPT ![Owner[c]] = c]
      BY <2>2 DEF RegisterFirst, RegisterAgain
    <3>2. QED
      BY <2>t, <3>1
  <2>3. ASSUME NEW c \in Conns, UnregisterLast(c) PROVE Kept
    <3>1. /\ active' = [active EXCEPT ![Owner[c]] = NoConn]
          /\ active[Owner[c]] = c /\ inactive[Owner[c]] = <<>>
      BY <2>3 DEF UnregisterLast
    <3>2. Sessions(Owner[c]) = {c}
      BY <2>t, <3>1, ElementsEmpty DEF Sessions
    <3>3. Cardinality(Sessions(Owner[c])) = 1
      BY <3>2, FS_Singleton
    <3>4. QED
      BY <2>t, <3>1, <3>3
  <2>4. ASSUME NEW c \in Conns, UnregisterPromote(c) PROVE Kept
    <3> DEFINE n == Len(inactive[Owner[c]])
    <3>1. n > 0 /\ active' = [active EXCEPT ![Owner[c]] = inactive[Owner[c]][n]]
      BY <2>4 DEF UnregisterPromote
    <3>2. inactive[Owner[c]][n] \in Conns
      BY <2>t, <3>1, SMTT(30)
    <3>3. QED
      BY <2>t, <3>1, <3>2
  <2>5. ASSUME NEW e \in Endpoints, ShutdownRemove(e) PROVE Kept
    BY <2>5, <2>t DEF ShutdownRemove
  <2>6. CASE \E c \in Conns : \/ RegisterRefused(c) \/ RegisterUnspawned(c)
                             \/ RunReturns(c) \/ UnregisterInactive(c) \/ UnregisterRemoved(c)
                             \/ ActorDropped(c) \/ WritePacket(c) \/ WriteMessage(c)
    BY <2>1, <2>6 DEF RegisterRefused, RegisterUnspawned, Refuse, RunReturns, UnregisterInactive,
                      UnregisterRemoved, ActorDropped, WritePacket, WriteMessage
  <2>7. CASE \E c \in Conns : \E p \in Endpoints : NotifyPeer(c, p) \/ SendPacket(c, p)
    BY <2>1, <2>7 DEF NotifyPeer, SendPacket
  <2>8. CASE \E e \in Endpoints : \E w \in SUBSET Sessions(e) : Disconnect(e, w)
    BY <2>1, <2>8 DEF Disconnect
  <2>9. CASE Shutdown \/ ShutdownCancel \/ \E c \in Conns : ShutdownJoin(c)
    BY <2>1, <2>9 DEF Shutdown, ShutdownCancel, ShutdownJoin
  <2>10. QED
    BY <2>2, <2>3, <2>4, <2>5, <2>6, <2>7, <2>8, <2>9
       DEF Next, ActorStep, Unregister, ServerStep
<1>2. QED
  BY <1>1, TypeCorrect, PTL DEF Spec, StaysReachable

=============================================================================
