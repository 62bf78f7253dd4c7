------------------------- MODULE RelaySessionsProofs -------------------------
(***************************************************************************)
(* What the registry is to the endpoints it serves.  It implements         *)
(* RelaySessions: under the mapping that puts the active connection on top *)
(* of the inactive ones, every step of the server is a step of the stacks  *)
(* or leaves them alone.  And it keeps the routes that its clients learn   *)
(* on its books (RelayRoutes).                                             *)
(***************************************************************************)
EXTENDS RelayRoutes, RelayClientsProofs

\* Zenon proves what does not say otherwise.
USE ZenonT(30)

\* The stacks stay, and so do the connections that were seen: a stutter.
LEMMA Stutter ==
    ASSUME UNCHANGED <<active, inactive>>, Seen' = Seen
    PROVE  UNCHANGED Service!vars
BY DEF Stack, Service!vars

\* A connection that moves on from a phase that is not fresh was seen before.
LEMMA SeenKept ==
    ASSUME TypeOK, NEW c \in Conns, phase[c] # "fresh",
           NEW p, p # "fresh", phase' = [phase EXCEPT ![c] = p]
    PROVE  Seen' = Seen
BY DEF TypeOK, Seen

\* A connection that leaves the fresh phase is seen from then on.
LEMMA SeenGrows ==
    ASSUME TypeOK, NEW c \in Conns, phase[c] = "fresh",
           NEW p, p # "fresh", phase' = [phase EXCEPT ![c] = p]
    PROVE  c \notin Seen /\ Seen' = Seen \cup {c}
BY DEF TypeOK, Seen

\* RelaySessions counts as this module does.
LEMMA SameCount == \A S : Service!Cardinality(S) = Cardinality(S)
BY DEF Service!Cardinality, Cardinality, Service!IsFiniteSet, IsFiniteSet

\* The connections on the stacks are the registered ones.
LEMMA OnlineRegistered ==
    ASSUME IInv
    PROVE  Service!Online = Registered
<1>1. ASSUME NEW e \in Endpoints
      PROVE  {Stack[e][i] : i \in 1..Len(Stack[e])} = Sessions(e)
  <2>1. CASE active[e] = NoConn
    BY <2>1, SMTT(30) DEF Stack, Sessions
  <2>2. CASE active[e] # NoConn
    <3>1. inactive[e] \in Seq(Conns) /\ active[e] \in Conns
      BY <2>2 DEF IInv, TypeOK
    <3>2. Elements(Append(inactive[e], active[e])) = Elements(inactive[e]) \cup {active[e]}
      BY <3>1, ElementsAppend, SMTT(30)
    <3>3. QED
      BY <2>2, <3>2, SMTT(30) DEF Stack, Sessions, Elements
  <2>3. QED
    BY <2>1, <2>2
<1>2. QED
  BY <1>1, SMTT(30) DEF Service!Online, Registered

\* A permit that is free leaves room on the stacks.
LEMMA RoomLeft ==
    ASSUME IInv, PermitsInv, permits > 0
    PROVE  Cardinality(Service!Online) < MaxSessions
<1>1. IsFiniteSet(Held) /\ permits + Cardinality(Held) = MaxSessions /\ permits \in Nat
  BY DEF PermitsInv, PermitsAccounted, Held, IInv, TypeOK
<1>2. Registered \subseteq Held
  BY DEF Held
<1>3. /\ Cardinality(Registered) \in Nat /\ Cardinality(Held) \in Nat
      /\ Cardinality(Registered) <= Cardinality(Held)
  BY <1>1, <1>2, FS_Subset, FS_CardinalityType
<1>4. Cardinality(Registered) < MaxSessions
  BY <1>1, <1>3, SMTT(30)
<1>5. QED
  BY <1>4, OnlineRegistered

\* A step that changes the entry of one endpoint changes one stack.
LEMMA StackStep ==
    ASSUME NEW o \in Endpoints, NEW X,
           \A e \in Endpoints \ {o} : active'[e] = active[e] /\ inactive'[e] = inactive[e],
           X = IF active'[o] = NoConn THEN <<>> ELSE Append(inactive'[o], active'[o])
    PROVE  Stack' = [Stack EXCEPT ![o] = X]
<1>1. \A e \in Endpoints : Stack'[e] = IF e = o THEN X ELSE Stack[e]
  BY DEF Stack
<1>2. DOMAIN Stack = Endpoints /\ Stack' = [e \in Endpoints |-> Stack'[e]]
  BY DEF Stack
<1>3. QED
  BY <1>1, <1>2

\* register puts the connection on top.
LEMMA RegisterAccepts ==
    ASSUME IInv, PermitsInv, NEW c \in Conns, RegisterFirst(c) \/ RegisterAgain(c)
    PROVE  Service!Accept(c)
<1> DEFINE o == Owner[c]
<1>0. /\ o \in Endpoints /\ active \in [Endpoints -> Conns \cup {NoConn}]
      /\ inactive \in [Endpoints -> Seq(Conns)] /\ c # NoConn /\ TypeOK
  BY OwnerAssumption, NoConnAssumption DEF IInv, TypeOK
<1>1. phase[c] = "fresh" /\ permits > 0 /\ phase' = [phase EXCEPT ![c] = "running"]
  BY DEF RegisterFirst, RegisterAgain
<1>2. c \notin Seen /\ Seen' = Seen \cup {c}
  BY <1>0, <1>1, SeenGrows
<1>3. Cardinality(Service!Online) < MaxSessions
  BY <1>1, RoomLeft
<1>4. /\ Len(Stack[o]) < MaxPerEndpoint
      /\ Stack' = [Stack EXCEPT ![o] = Append(@, c)]
  <2>1. CASE RegisterFirst(c)
    <3>1. /\ inactive[o] = <<>> /\ inactive' = inactive
          /\ active[o] = NoConn /\ active' = [active EXCEPT ![o] = c]
      BY <1>0, <2>1 DEF RegisterFirst, NoZombies, IInv
    <3>2. Stack[o] = <<>>
      BY <1>0, <3>1 DEF Stack
    <3>3. Len(Stack[o]) < MaxPerEndpoint
      BY <3>2, BoundsAssumption, SMTT(30)
    <3>4. /\ active'[o] = c /\ inactive'[o] = Stack[o]
          /\ \A e \in Endpoints \ {o} : active'[e] = active[e] /\ inactive'[e] = inactive[e]
      BY <1>0, <3>1, <3>2
    <3>5. QED
      BY <1>0, <3>3, <3>4, StackStep
  <2>2. CASE RegisterAgain(c)
    <3>1. /\ active[o] \in Conns /\ active[o] # NoConn
          /\ 1 + Len(inactive[o]) < MaxPerEndpoint
          /\ active' = [active EXCEPT ![o] = c]
          /\ inactive' = [inactive EXCEPT ![o] = Append(@, active[o])]
      BY <1>0, <2>2 DEF RegisterAgain
    <3>2. Len(Append(inactive[o], active[o])) = Len(inactive[o]) + 1 /\ Len(inactive[o]) \in Nat
      BY <1>0, <3>1, SMTT(30)
    <3>3. Stack[o] = Append(inactive[o], active[o])
      BY <1>0, <3>1 DEF Stack
    <3>4. Len(Stack[o]) < MaxPerEndpoint
      BY <3>1, <3>2, <3>3, BoundsAssumption, SMTT(30)
    <3>5. /\ active'[o] = c /\ inactive'[o] = Stack[o]
          /\ \A e \in Endpoints \ {o} : active'[e] = active[e] /\ inactive'[e] = inactive[e]
      BY <1>0, <3>1, <3>3
    <3>6. QED
      BY <1>0, <3>4, <3>5, StackStep
  <2>3. QED
    BY <2>1, <2>2
<1>5. QED
  BY <1>2, <1>3, <1>4, SameCount DEF Service!Accept

\* What is left of a sequence without its last element, or, with one appended,
\* without one of the others.
LEMMA WithoutLast ==
    ASSUME NEW S, NEW s \in Seq(S), NEW x \in S
    PROVE  /\ Len(Append(s, x)) = Len(s) + 1 /\ Append(s, x)[Len(s) + 1] = x
           /\ Service!Without(Append(s, x), Len(s) + 1) = s
<1>1. /\ Len(s) \in Nat /\ Len(Append(s, x)) = Len(s) + 1
      /\ Append(s, x)[Len(s) + 1] = x
      /\ \A j \in 1..Len(s) : Append(s, x)[j] = s[j]
      /\ s = [j \in 1..Len(s) |-> s[j]]
  BY SMTT(30)
<1>2. Service!Without(Append(s, x), Len(s) + 1) = [j \in 1..Len(s) |-> s[j]]
  BY <1>1, SMTT(30) DEF Service!Without
<1>3. QED
  BY <1>1, <1>2

\* Taking an inactive connection out of the list is taking it out of the
\* stack below the top.
LEMMA WithoutInner ==
    ASSUME NEW S, NEW s \in Seq(S), NEW x \in S, NEW i \in 1..Len(s)
    PROVE  /\ i \in 1..Len(Append(s, x)) /\ Append(s, x)[i] = s[i]
           /\ Service!Without(Append(s, x), i) = Append(Without(s, i), x)
<1> DEFINE t == Append(s, x)
           w == Without(s, i)
           u == Append(w, x)
           v == Service!Without(t, i)
           n == Len(s)
<1>1. /\ n \in Nat /\ Len(t) = n + 1 /\ t[n + 1] = x
      /\ \A j \in 1..n : t[j] = s[j]
  BY SMTT(30)
<1>2. w \in Seq(S) /\ Len(w) = n - 1
      /\ \A j \in 1..(n - 1) : w[j] = IF j < i THEN s[j] ELSE s[j + 1]
  BY WithoutType, SMTT(30) DEF Without
<1>3. /\ DOMAIN u = 1..n /\ u[n] = x /\ u = [j \in 1..n |-> u[j]]
      /\ \A j \in 1..(n - 1) : u[j] = w[j]
  <2> HIDE DEF w, n
  <2>1. /\ DOMAIN u = 1..(Len(w) + 1) /\ u[Len(w) + 1] = x /\ u = [j \in DOMAIN u |-> u[j]]
        /\ \A j \in 1..Len(w) : u[j] = w[j]
    <3>1. w \in Seq(S)
      BY <1>2
    <3>2. Len(w) \in Nat /\ Len(u) = Len(w) + 1 /\ u[Len(w) + 1] = x /\ u \in Seq(S)
      BY <3>1, SMTT(30)
    <3>3. \A j \in 1..Len(w) : u[j] = w[j]
      BY <3>1, SMTT(30)
    <3> HIDE DEF u
    <3>4. DOMAIN u = 1..Len(u) /\ u = [j \in DOMAIN u |-> u[j]]
      BY <3>2, SMTT(30)
    <3>5. QED
      BY <3>2, <3>3, <3>4
  <2>2. Len(w) + 1 = n
    BY <1>1, <1>2, SMTT(30)
  <2> HIDE DEF u
  <2>3. QED
    BY <1>2, <2>1, <2>2
<1>4. /\ v = [j \in 1..n |-> IF j < i THEN t[j] ELSE t[j + 1]]
  BY <1>1, SMTT(30) DEF Service!Without
<1> HIDE DEF t, w, u, v, n
<1>i. i \in 1..n
  BY DEF n
<1>5. ASSUME NEW j \in 1..n PROVE (IF j < i THEN t[j] ELSE t[j + 1]) = u[j]
  <2>1. CASE j = n
    BY <1>1, <1>3, <1>i, <2>1, SMTT(30)
  <2>2. CASE j < n
    <3>1. j \in 1..(n - 1) /\ j + 1 \in 1..n
      BY <1>1, <2>2, SMTT(30)
    <3>2. u[j] = w[j] /\ t[j] = s[j] /\ t[j + 1] = s[j + 1]
      BY <1>1, <1>3, <3>1
    <3>3. QED
      BY <1>2, <3>1, <3>2
  <2>3. QED
    BY <1>1, <2>1, <2>2, SMTT(30)
<1>6. v = u
  BY <1>3, <1>4, <1>5
<1>7. QED
  BY <1>1, <1>6, <1>i, SMTT(30) DEF t, w, u, v, n

\* unregister takes the connection out of its stack, from the top or from
\* below it, and leaves the others in their order.
LEMMA UnregisterLeaves ==
    ASSUME IInv, NEW c \in Conns,
           UnregisterLast(c) \/ UnregisterPromote(c) \/ UnregisterInactive(c)
    PROVE  Service!Leave(c)
<1> DEFINE o == Owner[c]
           s == inactive[o]
<1>0. /\ o \in Endpoints /\ active \in [Endpoints -> Conns \cup {NoConn}]
      /\ inactive \in [Endpoints -> Seq(Conns)] /\ c # NoConn /\ s \in Seq(Conns) /\ TypeOK
      /\ Len(s) \in Nat
  BY OwnerAssumption, NoConnAssumption, SMTT(30) DEF IInv, TypeOK
<1>1. Seen' = Seen
  <2>1. phase[c] # "fresh" /\ phase' = [phase EXCEPT ![c] = "notifying"]
    BY DEF UnregisterLast, UnregisterPromote, UnregisterInactive
  <2>2. QED
    BY <1>0, <2>1, SeenKept
<1>2. ASSUME NEW i \in 1..Len(Stack[o]), Stack[o][i] = c,
             Stack' = [Stack EXCEPT ![o] = Service!Without(Stack[o], i)]
      PROVE  Service!Leave(c)
  BY <1>1, <1>2 DEF Service!Leave
<1>3. CASE UnregisterLast(c)
  <2>1. /\ s = <<>> /\ inactive' = inactive
        /\ active[o] = c /\ active' = [active EXCEPT ![o] = NoConn]
    BY <1>3 DEF UnregisterLast
  <2>2. Stack[o] = Append(s, c)
    BY <1>0, <2>1 DEF Stack
  <2>3. /\ Len(Stack[o]) = 1 /\ Stack[o][1] = c
        /\ Service!Without(Stack[o], 1) = <<>>
    <3>1. Len(s) + 1 = 1
      BY <2>1, SMTT(30)
    <3>2. /\ Len(Append(s, c)) = Len(s) + 1 /\ Append(s, c)[Len(s) + 1] = c
          /\ Service!Without(Append(s, c), Len(s) + 1) = s
      BY <1>0, WithoutLast
    <3> HIDE DEF s
    <3>3. QED
      BY <2>1, <2>2, <3>1, <3>2
  <2>4. /\ active'[o] = NoConn
        /\ \A e \in Endpoints \ {o} : active'[e] = active[e] /\ inactive'[e] = inactive[e]
    BY <1>0, <2>1
  <2>5. Stack' = [Stack EXCEPT ![o] = Service!Without(Stack[o], 1)]
    BY <1>0, <2>3, <2>4, StackStep
  <2>6. QED
    BY <1>2, <2>3, <2>5, SMTT(30)
<1>4. CASE UnregisterPromote(c)
  <2> DEFINE n == Len(s)
  <2>1. /\ active[o] = c /\ n > 0
        /\ active' = [active EXCEPT ![o] = s[n]]
        /\ inactive' = [inactive EXCEPT ![o] = SubSeq(s, 1, n - 1)]
    BY <1>4 DEF UnregisterPromote
  <2>2. s[n] \in Conns /\ s[n] # NoConn
    BY <1>0, <2>1, NoConnAssumption, SMTT(30)
  <2>3. Stack[o] = Append(s, c)
    BY <1>0, <2>1 DEF Stack
  <2>4. /\ Len(Stack[o]) = n + 1 /\ Stack[o][n + 1] = c
        /\ Service!Without(Stack[o], n + 1) = s
    BY <1>0, <2>3, WithoutLast, SMTT(30)
  <2>5. s = Append(SubSeq(s, 1, n - 1), s[n])
    <3>1. /\ SubSeq(s, 1, n - 1) \in Seq(Conns) /\ Len(SubSeq(s, 1, n - 1)) = n - 1
          /\ \A i \in 1..(n - 1) : SubSeq(s, 1, n - 1)[i] = s[i]
      BY <1>0, <2>1, ElementsFront
    <3> DEFINE f == SubSeq(s, 1, n - 1)
               g == Append(f, s[n])
    <3> HIDE DEF f
    <3>2. /\ g \in Seq(Conns) /\ Len(g) = Len(f) + 1 /\ g[Len(f) + 1] = s[n]
          /\ \A i \in 1..Len(f) : g[i] = f[i]
      BY <2>2, <3>1, SMTT(30) DEF f
    <3> HIDE DEF g
    <3>3. Len(f) = n - 1 /\ \A i \in 1..(n - 1) : f[i] = s[i]
      BY <3>1 DEF f
    <3> HIDE DEF n
    <3>n. n \in Nat /\ n > 0 /\ n = Len(s)
      BY <1>0, <2>1 DEF n
    <3>4. Len(g) = n /\ g[n] = s[n] /\ \A i \in 1..(n - 1) : g[i] = s[i]
      BY <3>2, <3>3, <3>n, SMTT(30)
    <3>5. \A i \in 1..n : g[i] = s[i]
      BY <3>4, <3>n, SMTT(30)
    <3> HIDE DEF s
    <3>6. g = s
      BY <1>0, <3>2, <3>4, <3>5, <3>n, SMTT(30)
    <3>7. QED
      BY <3>6 DEF f, g
  <2>6. /\ active'[o] = s[n] /\ inactive'[o] = SubSeq(s, 1, n - 1)
        /\ \A e \in Endpoints \ {o} : active'[e] = active[e] /\ inactive'[e] = inactive[e]
    BY <1>0, <2>1
  <2> HIDE DEF n, s
  <2>7. Stack' = [Stack EXCEPT ![o] = Service!Without(Stack[o], n + 1)]
    <3>1. Service!Without(Stack[o], n + 1)
          = IF active'[o] = NoConn THEN <<>> ELSE Append(inactive'[o], active'[o])
      BY <2>2, <2>4, <2>5, <2>6
    <3>2. QED
      BY <1>0, <2>6, <3>1, StackStep
  <2>8. n + 1 \in 1..Len(Stack[o])
    BY <1>0, <2>4, SMTT(30) DEF n
  <2>9. QED
    BY <1>2, <2>4, <2>7, <2>8
<1>5. CASE UnregisterInactive(c)
  <2>1. PICK i \in 1..Len(s) : s[i] = c /\ inactive' = [inactive EXCEPT ![o] = Without(s, i)]
    BY <1>5 DEF UnregisterInactive
  <2>2. active' = active /\ active[o] \in Conns /\ active[o] # NoConn
    BY <1>0, <1>5 DEF UnregisterInactive
  <2>3. Stack[o] = Append(s, active[o])
    BY <1>0, <2>2 DEF Stack
  <2>4. /\ i \in 1..Len(Stack[o]) /\ Stack[o][i] = c
        /\ Service!Without(Stack[o], i) = Append(Without(s, i), active[o])
    BY <1>0, <2>1, <2>2, <2>3, WithoutInner, SMTT(30)
  <2>5. /\ active'[o] = active[o] /\ inactive'[o] = Without(s, i)
        /\ \A e \in Endpoints \ {o} : active'[e] = active[e] /\ inactive'[e] = inactive[e]
    BY <1>0, <2>1, <2>2
  <2> HIDE DEF s
  <2>6. Stack' = [Stack EXCEPT ![o] = Service!Without(Stack[o], i)]
    <3>1. Service!Without(Stack[o], i)
          = IF active'[o] = NoConn THEN <<>> ELSE Append(inactive'[o], active'[o])
      BY <2>2, <2>4, <2>5
    <3>2. QED
      BY <1>0, <2>5, <3>1, StackStep
  <2>7. QED
    BY <1>2, <2>4, <2>6
<1>6. QED
  BY <1>3, <1>4, <1>5

\* The registry implements RelaySessions: whatever the order in which the
\* connections of an endpoint come and go, are disconnected or drained, packets
\* for it go to the newest that is left, within the limits.
THEOREM Implements == Spec => ServesNewest
<1>1. Init => Service!Init
  BY DEF Init, Service!Init, Stack, Seen
<1>2. IInv /\ PermitsInv /\ [Next]_vars => [Service!Next]_(Service!vars)
  <2> SUFFICES ASSUME IInv, PermitsInv, [Next]_vars
               PROVE  Service!Next \/ UNCHANGED Service!vars
    OBVIOUS
  <2>t. TypeOK
    BY DEF IInv
  <2> USE DEF registryVars, actorVars, queueVars, shutdownVars
  <2>q. ASSUME UNCHANGED <<active, inactive, phase>> PROVE UNCHANGED Service!vars
    BY <2>q, Stutter DEF Seen
  <2>1. ASSUME NEW c \in Conns, RegisterFirst(c) \/ RegisterAgain(c) PROVE Service!Next
    BY <2>1, RegisterAccepts DEF Service!Next
  <2>2. ASSUME NEW c \in Conns, RegisterRefused(c) \/ RegisterUnspawned(c) PROVE Service!Next
    <3>1. /\ phase[c] = "fresh" /\ phase' = [phase EXCEPT ![c] = "closed"]
          /\ UNCHANGED <<active, inactive>>
      BY <2>2 DEF RegisterRefused, RegisterUnspawned, Refuse
    <3>2. c \notin Seen /\ Seen' = Seen \cup {c} /\ Stack' = Stack
      BY <2>t, <3>1, SeenGrows DEF Stack
    <3>3. QED
      BY <3>2 DEF Service!Next, Service!Refuse
  <2>3. ASSUME NEW c \in Conns,
               UnregisterLast(c) \/ UnregisterPromote(c) \/ UnregisterInactive(c)
        PROVE  Service!Next
    BY <2>3, UnregisterLeaves DEF Service!Next
  <2>4. ASSUME NEW c \in Conns, RunReturns(c) \/ UnregisterRemoved(c) \/ ActorDropped(c)
        PROVE  UNCHANGED Service!vars
    <3>1. /\ phase[c] # "fresh" /\ UNCHANGED <<active, inactive>>
          /\ \E p \in {"ending", "notifying", "closed"} : phase' = [phase EXCEPT ![c] = p]
      BY <2>4 DEF RunReturns, UnregisterRemoved, ActorDropped
    <3>2. Seen' = Seen
      BY <2>t, <3>1, SeenKept
    <3>3. QED
      BY <3>1, <3>2, Stutter
  <2>5. ASSUME NEW e \in Endpoints, ShutdownRemove(e) PROVE Service!Next
    <3>1. /\ phase' = phase /\ active' = [active EXCEPT ![e] = NoConn]
          /\ inactive' = [inactive EXCEPT ![e] = <<>>]
      BY <2>5 DEF ShutdownRemove
    <3>2. /\ active'[e] = NoConn
          /\ \A f \in Endpoints \ {e} : active'[f] = active[f] /\ inactive'[f] = inactive[f]
      BY <2>t, <3>1 DEF TypeOK
    <3>3. Stack' = [Stack EXCEPT ![e] = <<>>]
      BY <3>2, StackStep
    <3>4. Seen' = Seen
      BY <3>1 DEF Seen
    <3>5. QED
      BY <3>3, <3>4 DEF Service!Next, Service!Close
  <2>6. CASE \E c \in Conns : \E p \in Endpoints : NotifyPeer(c, p) \/ SendPacket(c, p)
    BY <2>6, <2>q DEF NotifyPeer, SendPacket
  <2>7. CASE \E c \in Conns : WritePacket(c) \/ WriteMessage(c)
    BY <2>7, <2>q DEF WritePacket, WriteMessage
  <2>8. CASE \E e \in Endpoints : \E w \in SUBSET Sessions(e) : Disconnect(e, w)
    BY <2>8, <2>q DEF Disconnect
  <2>9. CASE Shutdown \/ ShutdownCancel \/ \E c \in Conns : ShutdownJoin(c)
    BY <2>9, <2>q DEF Shutdown, ShutdownCancel, ShutdownJoin
  <2>10. CASE UNCHANGED vars
    BY <2>10, <2>q DEF vars
  <2>11. QED
    BY <2>1, <2>2, <2>3, <2>4, <2>5, <2>6, <2>7, <2>8, <2>9, <2>10, SMTT(30)
       DEF Next, ActorStep, Unregister, ServerStep
<1>3. TypeOK /\ Agreement => IInv
  BY DEF IInv, Agreement
<1>4. QED
  BY <1>1, <1>2, <1>3, TypeCorrect, RegistryAgrees, PermitsHeld, PTL
     DEF Spec, ServesNewest, Service!Spec

-----------------------------------------------------------------------------
(* The routes of the clients: what a client believes, and what is still on   *)
(* its way to it, is on the server's books.                                  *)

\* The registry does all that it does without its clients' routes being
\* looked at: what holds of it alone holds of the composition.
LEMMA RegistryRefined == RSpec => Spec
<1>1. RInit => Init
  BY DEF RInit
<1>2. [RNext]_<<vars, routeVars>> => [Next]_vars
  <2>1. RNext => Next
    BY DEF RNext, HandleDatagrams, HandleEndpointGone, HandleStatus, Notify, Relay, Lost,
           Silent, Next, ActorStep
  <2>2. QED
    BY <2>1
<1>3. QED
  BY <1>1, <1>2, PTL DEF RSpec, Spec

-----------------------------------------------------------------------------
(* The inductive invariant. *)

\* What the client on c believes present, and what it will believe present
\* when it has read its packets.
Believed(c) == present[c] \cup Elements(packets[c])

\* The server has not forgotten that the client on c has a route to e.
OnBooks(c, e) ==
    \/ Owner[c] \in sentTo[e]
    \/ e \in missed[c]
    \/ Gone(e) \in Elements(messages[c])
    \/ \E d \in Conns : Owner[d] = e /\ Owner[c] \in notifying[d]

RouteTypes ==
    /\ present \in [Conns -> SUBSET Endpoints]
    /\ missed \in [Conns -> SUBSET Endpoints]

\* Nothing is queued for a connection that is not registered yet.
FreshEmpty == \A c \in Conns : phase[c] = "fresh" => Believed(c) = {}
OnlyNotifying == \A c \in Conns : phase[c] # "notifying" => notifying[c] = {}
Booked == \A c \in Conns : phase[c] = "running" => \A e \in Believed(c) : OnBooks(c, e)

RouteInv == RouteTypes /\ draining = {} /\ FreshEmpty /\ OnlyNotifying /\ Booked

\* The first element of a queue and the rest.
LEMMA ElementsTail ==
    ASSUME NEW S, NEW s \in Seq(S), s # <<>>
    PROVE  /\ Elements(s) = {Head(s)} \cup Elements(Tail(s))
           /\ Tail(s) \in Seq(S) /\ Head(s) \in S
<1> DEFINE t == Tail(s)
<1>1. /\ Len(s) \in Nat \ {0} /\ t \in Seq(S) /\ Len(t) = Len(s) - 1 /\ Head(s) = s[1]
      /\ \A i \in 1..Len(t) : t[i] = s[i + 1]
      /\ s[1] \in S
  BY SMTT(30)
<1> HIDE DEF t
<1>2. \A y \in Elements(t) \cup {s[1]} : y \in Elements(s)
  BY <1>1, SMTT(30) DEF Elements
<1>3. ASSUME NEW i \in 1..Len(s) PROVE s[i] \in Elements(t) \cup {s[1]}
  <2>1. CASE i = 1
    BY <2>1
  <2>2. CASE i # 1
    <3>1. i - 1 \in 1..Len(t) /\ t[i - 1] = s[i]
      BY <1>1, <2>2, SMTT(30)
    <3>2. QED
      BY <3>1 DEF Elements
  <2>3. QED
    BY <2>1, <2>2
<1>4. \A y \in Elements(s) : y \in Elements(t) \cup {s[1]}
  BY <1>3 DEF Elements
<1>5. QED
  BY <1>1, <1>2, <1>4 DEF t

\* A push to a bounded queue keeps what is in it.
LEMMA TrySendElements ==
    ASSUME NEW S, NEW q \in Seq(S), NEW x \in S
    PROVE  /\ Elements(q) \subseteq Elements(TrySend(q, x))
           /\ Len(q) < QueueCap => x \in Elements(TrySend(q, x))
BY ElementsAppend, SMTT(30) DEF TrySend

\* A connection that runs is one of its endpoint's.
LEMMA RunningRegistered ==
    ASSUME IInv, draining = {}, NEW c \in Conns, phase[c] \in {"running", "ending"}
    PROVE  c \in Sessions(Owner[c])
BY RegisteredUnderOwner DEF IInv, NoOrphans

\* What a step must do to keep the invariant: a connection believes nothing
\* new, and what it believes stays on the books.
StepKeeps ==
    /\ \A c \in Conns : phase'[c] = "running" => phase[c] \in {"fresh", "running"}
    /\ \A c \in Conns : phase'[c] = "running" => Believed(c)' \subseteq Believed(c)
    /\ \A c \in Conns : phase'[c] = "running" =>
          \A e \in Believed(c)' : OnBooks(c, e) => OnBooks(c, e)'

\* What is on the books stays there in a step that drops nothing from them.
LEMMA BookedKept ==
    ASSUME RouteInv, StepKeeps
    PROVE  Booked'
<1> SUFFICES ASSUME NEW c \in Conns, phase'[c] = "running", NEW e \in Believed(c)'
             PROVE  OnBooks(c, e)'
  BY DEF Booked
<1>1. e \in Believed(c) /\ phase[c] \in {"fresh", "running"}
  BY DEF StepKeeps
<1>2. phase[c] = "running"
  BY <1>1 DEF RouteInv, FreshEmpty
<1>3. OnBooks(c, e)
  BY <1>1, <1>2 DEF RouteInv, Booked
<1>4. QED
  BY <1>1, <1>3 DEF StepKeeps

\* The parts of the types that the steps below need.
LEMMA RouteFacts ==
    ASSUME IInv, RouteInv
    PROVE  /\ phase \in [Conns -> Phases]
           /\ packets \in [Conns -> Seq(Endpoints)] /\ messages \in [Conns -> Seq(Messages)]
           /\ sentTo \in [Endpoints -> SUBSET Endpoints]
           /\ notifying \in [Conns -> SUBSET Endpoints]
           /\ present \in [Conns -> SUBSET Endpoints]
           /\ missed \in [Conns -> SUBSET Endpoints]
           /\ active \in [Endpoints -> Conns \cup {NoConn}]
           /\ inactive \in [Endpoints -> Seq(Conns)]
           /\ Owner \in [Conns -> Endpoints]
BY OwnerAssumption DEF IInv, TypeOK, RouteInv, RouteTypes

\* handle_relay_msg, Datagrams: the packet's source was believed already.
LEMMA DatagramsKeep ==
    ASSUME IInv, RouteInv, NEW c \in Conns, HandleDatagrams(c)
    PROVE  RouteInv'
<1> DEFINE src == Head(packets[c])
<1>1. /\ phase[c] = "running" /\ packets[c] # <<>>
      /\ packets' = [packets EXCEPT ![c] = Tail(@)]
      /\ UNCHANGED <<phase, sentTo, notifying, messages, draining, missed>>
      /\ present' = IF lastSrc[c] = {src} THEN present
                    ELSE [present EXCEPT ![c] = @ \cup {src}]
  BY DEF HandleDatagrams, WritePacket, registryVars, actorVars, shutdownVars
<1>2. /\ Elements(packets[c]) = {src} \cup Elements(Tail(packets[c]))
      /\ src \in Endpoints
  BY <1>1, RouteFacts, ElementsTail
<1>3. /\ \A d \in Conns \ {c} : present'[d] = present[d] /\ packets'[d] = packets[d]
      /\ present'[c] \subseteq present[c] \cup {src} /\ packets'[c] = Tail(packets[c])
      /\ present' \in [Conns -> SUBSET Endpoints]
  BY <1>1, <1>2, RouteFacts
<1>4. \A d \in Conns : Believed(d)' \subseteq Believed(d)
  BY <1>2, <1>3 DEF Believed
<1>5. \A d \in Conns, e \in Endpoints : OnBooks(d, e)' = OnBooks(d, e)
  BY <1>1 DEF OnBooks
<1>6. \A d \in Conns : \A e \in Believed(d) : e \in Endpoints
  BY RouteFacts, SMTT(30) DEF Believed, Elements
<1>7. StepKeeps
  BY <1>1, <1>4, <1>5, <1>6 DEF StepKeeps
<1>8. Booked'
  BY <1>7, BookedKept
<1>9. FreshEmpty' /\ OnlyNotifying' /\ RouteTypes' /\ draining' = {}
  BY <1>1, <1>3, <1>4, SMTT(30) DEF RouteInv, FreshEmpty, OnlyNotifying, RouteTypes
<1>10. QED
  BY <1>8, <1>9 DEF RouteInv

\* handle_relay_msg, EndpointGone: no packet of that endpoint is left, for the
\* packets are written before the messages.
LEMMA GoneKeeps ==
    ASSUME IInv, RouteInv, NEW c \in Conns, HandleEndpointGone(c) \/ HandleStatus(c)
    PROVE  RouteInv'
<1> DEFINE m == Head(messages[c])
<1>1. /\ phase[c] = "running" /\ packets[c] = <<>> /\ messages[c] # <<>>
      /\ messages' = [messages EXCEPT ![c] = Tail(@)]
      /\ UNCHANGED <<phase, sentTo, notifying, packets, draining, missed>>
  BY DEF HandleEndpointGone, HandleStatus, WriteMessage, registryVars, actorVars, shutdownVars,
         routeVars
<1>2. \/ m.kind = "gone" /\ present' = [present EXCEPT ![c] = @ \ {m.about}]
      \/ m.kind # "gone" /\ present' = present
  BY DEF HandleEndpointGone, HandleStatus, routeVars
<1>3. Elements(messages[c]) = {m} \cup Elements(Tail(messages[c])) /\ m \in Messages
  BY <1>1, RouteFacts, ElementsTail
<1>4. /\ \A d \in Conns \ {c} : present'[d] = present[d] /\ messages'[d] = messages[d]
      /\ present'[c] \subseteq present[c] /\ messages'[c] = Tail(messages[c])
      /\ m.kind = "gone" => m.about \notin present'[c]
      /\ present' \in [Conns -> SUBSET Endpoints]
  BY <1>1, <1>2, RouteFacts
<1>5. \A d \in Conns : Believed(d)' \subseteq Believed(d)
  BY <1>1, <1>4 DEF Believed
<1>6. ASSUME NEW e \in Believed(c)' PROVE Gone(e) # m
  <2>1. e \in present'[c]
    BY <1>1, ElementsEmpty DEF Believed
  <2>2. QED
    BY <1>4, <2>1, SMTT(30) DEF Gone
<1>7. ASSUME NEW d \in Conns, NEW e \in Believed(d)', OnBooks(d, e) PROVE OnBooks(d, e)'
  <2>1. CASE d = c
    BY <1>1, <1>3, <1>4, <1>6, <1>7, <2>1 DEF OnBooks
  <2>2. CASE d # c
    BY <1>1, <1>4, <1>7, <2>2 DEF OnBooks
  <2>3. QED
    BY <2>1, <2>2
<1>8. Booked'
  <2>1. StepKeeps
    BY <1>1, <1>5, <1>7 DEF StepKeeps
  <2>2. QED
    BY <2>1, BookedKept
<1>9. FreshEmpty' /\ OnlyNotifying' /\ RouteTypes' /\ draining' = {}
  BY <1>1, <1>4, <1>5 DEF RouteInv, FreshEmpty, OnlyNotifying, RouteTypes
<1>10. QED
  BY <1>8, <1>9 DEF RouteInv

\* unregister informs a peer: each of the peer's connections gets the message
\* or is put down as one that will not.
LEMMA NotifyKeeps ==
    ASSUME IInv, RouteInv, NEW c \in Conns, NEW p \in Endpoints, Notify(c, p)
    PROVE  RouteInv'
<1> DEFINE to == active[p]
           o == Owner[c]
<1>1. /\ phase[c] = "notifying" /\ p \in notifying[c]
      /\ notifying' = [notifying EXCEPT ![c] = @ \ {p}]
      /\ messages' = IF to = NoConn \/ phase[to] = "closed" THEN messages
                     ELSE [messages EXCEPT ![to] = TrySend(@, Gone(o))]
      /\ UNCHANGED <<phase, sentTo, packets, draining, present>>
  BY DEF Notify, NotifyPeer, registryVars, shutdownVars
<1>2. /\ missed' = [d \in Conns |->
                     IF d \in Sessions(p) /\ (d # to \/ Len(messages[d]) >= QueueCap)
                     THEN missed[d] \cup {o} ELSE missed[d]]
  BY DEF Notify
<1>3. o \in Endpoints /\ Gone(o) \in Messages
  BY RouteFacts, MessageTypes
<1>4. /\ missed' \in [Conns -> SUBSET Endpoints]
      /\ \A d \in Conns : missed[d] \subseteq missed'[d]
  BY <1>2, <1>3, RouteFacts
<1>5. /\ \A d \in Conns \ {c} : notifying'[d] = notifying[d]
      /\ notifying'[c] = notifying[c] \ {p}
  BY <1>1, RouteFacts
<1>6. \A d \in Conns : Elements(messages[d]) \subseteq Elements(messages'[d])
  BY <1>1, <1>3, RouteFacts, TrySendElements
<1>7. ASSUME NEW d \in Conns, Owner[d] = p, phase[d] = "running"
      PROVE  o \in missed'[d] \/ Gone(o) \in Elements(messages'[d])
  <2>1. d \in Sessions(p)
    BY <1>7, RunningRegistered DEF RouteInv
  <2>2. CASE d # to \/ Len(messages[d]) >= QueueCap
    BY <1>2, <2>1, <2>2
  <2>3. CASE d = to /\ ~ (Len(messages[d]) >= QueueCap)
    <3>1. messages'[d] = TrySend(messages[d], Gone(o))
      BY <1>1, <1>7, <2>3, NoConnAssumption, RouteFacts
    <3>2. Len(messages[d]) < QueueCap
      BY <2>3, RouteFacts, BoundsAssumption, SMTT(30)
    <3>3. QED
      BY <1>3, <3>1, <3>2, RouteFacts, TrySendElements, SMTT(30)
  <2>4. QED
    BY <2>2, <2>3
<1>8. ASSUME NEW d \in Conns, NEW e \in Endpoints, phase[d] = "running", OnBooks(d, e)
      PROVE  OnBooks(d, e)'
  <2>1. CASE \E x \in Conns : Owner[x] = e /\ Owner[d] \in notifying[x]
    <3>1. PICK x \in Conns : Owner[x] = e /\ Owner[d] \in notifying[x]
      BY <2>1
    <3>2. CASE x = c /\ Owner[d] = p
      BY <1>7, <1>8, <3>1, <3>2 DEF OnBooks
    <3>3. CASE ~ (x = c /\ Owner[d] = p)
      BY <1>5, <3>1, <3>3 DEF OnBooks
    <3>4. QED
      BY <3>2, <3>3
  <2>2. CASE ~ \E x \in Conns : Owner[x] = e /\ Owner[d] \in notifying[x]
    BY <1>1, <1>4, <1>6, <1>8, <2>2 DEF OnBooks
  <2>3. QED
    BY <2>1, <2>2
<1>9. \A d \in Conns : Believed(d)' = Believed(d)
  BY <1>1 DEF Believed
<1>10. \A d \in Conns : \A e \in Believed(d) : e \in Endpoints
  BY RouteFacts, SMTT(30) DEF Believed, Elements
<1>11. Booked'
  <2>1. StepKeeps
    BY <1>1, <1>8, <1>9, <1>10 DEF StepKeeps
  <2>2. QED
    BY <2>1, BookedKept
<1>12. FreshEmpty' /\ OnlyNotifying' /\ RouteTypes' /\ draining' = {}
  BY <1>1, <1>4, <1>5, <1>9 DEF RouteInv, FreshEmpty, OnlyNotifying, RouteTypes
<1>13. QED
  BY <1>11, <1>12 DEF RouteInv

\* send_packet: the route that the packet will make is put on the books, or
\* the send record was full.
LEMMA RelayKeeps ==
    ASSUME IInv, RouteInv, NEW c \in Conns, NEW d \in Endpoints, Relay(c, d)
    PROVE  RouteInv'
<1> DEFINE to == active[d]
           o == Owner[c]
<1>1. /\ to \in Conns /\ Owner[to] = d /\ phase[to] \in {"running", "ending"}
      /\ o \in Endpoints
  BY RouteFacts, SMTT(30) DEF Relay, SendPacket, IInv, NoZombies, Sessions
<1>2. /\ packets' = [packets EXCEPT ![to] = Append(@, o)]
      /\ sentTo' = [sentTo EXCEPT ![o] = Recorded(@, d)]
      /\ UNCHANGED <<active, phase, notifying, messages, draining, present>>
  BY <1>1 DEF Relay, SendPacket, shutdownVars
<1>3. missed' = [x \in Conns |->
                    IF x = to /\ d \notin sentTo'[o] THEN missed[x] \cup {o} ELSE missed[x]]
  BY DEF Relay
<1>4. /\ missed' \in [Conns -> SUBSET Endpoints]
      /\ \A x \in Conns : missed[x] \subseteq missed'[x]
      /\ d \in sentTo'[o] \/ o \in missed'[to]
  BY <1>1, <1>3, RouteFacts, SMTT(30)
<1>5. \A e \in Endpoints : sentTo[e] \subseteq sentTo'[e]
  <2>1. sentTo[o] \subseteq Recorded(sentTo[o], d)
    BY DEF Recorded
  <2>2. QED
    BY <1>1, <1>2, <2>1, RouteFacts
<1>6. /\ \A x \in Conns \ {to} : packets'[x] = packets[x]
      /\ Elements(packets'[to]) = Elements(packets[to]) \cup {o}
  BY <1>1, <1>2, RouteFacts, ElementsAppend, SMTT(30)
<1>7. /\ \A x \in Conns \ {to} : Believed(x)' = Believed(x)
      /\ Believed(to)' = Believed(to) \cup {o}
  BY <1>2, <1>6 DEF Believed
<1>8. \A x \in Conns : \A e \in Believed(x) : e \in Endpoints
  BY RouteFacts, SMTT(30) DEF Believed, Elements
<1>9. \A x \in Conns : \A e \in Endpoints : OnBooks(x, e) => OnBooks(x, e)'
  BY <1>2, <1>4, <1>5 DEF OnBooks
<1>10. OnBooks(to, o)'
  BY <1>1, <1>2, <1>4 DEF OnBooks
<1>11. Booked'
  BY <1>2, <1>7, <1>8, <1>9, <1>10 DEF Booked, RouteInv
<1>12. FreshEmpty' /\ OnlyNotifying' /\ RouteTypes' /\ draining' = {}
  BY <1>1, <1>2, <1>4, <1>7, SMTT(30) DEF RouteInv, FreshEmpty, OnlyNotifying, RouteTypes
<1>13. QED
  BY <1>11, <1>12 DEF RouteInv

\* The end of a connection takes with it what its client believed.
LEMMA LostKeeps ==
    ASSUME IInv, RouteInv, NEW c \in Conns, Lost(c)
    PROVE  RouteInv'
<1>1. /\ notifying[c] = {}
      /\ phase' = [phase EXCEPT ![c] = "closed"]
      /\ packets' = [packets EXCEPT ![c] = <<>>]
      /\ messages' = [messages EXCEPT ![c] = <<>>]
      /\ present' = [present EXCEPT ![c] = {}]
      /\ missed' = [missed EXCEPT ![c] = {}]
      /\ UNCHANGED <<sentTo, notifying, draining>>
  BY DEF Lost, ActorDropped, registryVars, shutdownVars
<1>2. /\ phase'[c] = "closed"
      /\ \A x \in Conns \ {c} : /\ phase'[x] = phase[x] /\ packets'[x] = packets[x]
                                /\ messages'[x] = messages[x] /\ present'[x] = present[x]
                                /\ missed'[x] = missed[x]
  BY <1>1, RouteFacts
<1>3. RouteTypes'
  BY <1>1, RouteFacts DEF RouteTypes
<1>4. \A x \in Conns \ {c} : Believed(x)' = Believed(x)
  BY <1>2 DEF Believed
<1>5. \A x \in Conns \ {c} : \A e : OnBooks(x, e) => OnBooks(x, e)'
  BY <1>1, <1>2 DEF OnBooks
<1>6. StepKeeps
  BY <1>2, <1>4, <1>5 DEF StepKeeps
<1>7. Booked'
  BY <1>6, BookedKept
<1>8. FreshEmpty' /\ OnlyNotifying' /\ draining' = {}
  BY <1>1, <1>2, <1>4, SMTT(30) DEF RouteInv, FreshEmpty, OnlyNotifying
<1>9. QED
  BY <1>3, <1>7, <1>8 DEF RouteInv

\* A step that moves one connection on to another phase, and at most adds to
\* the queues of messages.
LEMMA PhaseKeeps ==
    ASSUME IInv, RouteInv, NEW c \in Conns, NEW p \in Phases,
           phase' = [phase EXCEPT ![c] = p],
           phase[c] \in {"fresh", "running", "ending"}, p # "fresh",
           p = "running" => phase[c] = "fresh",
           UNCHANGED <<packets, draining, routeVars>>,
           \A x \in Conns : Elements(messages[x]) \subseteq Elements(messages'[x]),
           \A x \in Conns : \A e \in Endpoints :
              Owner[x] \in sentTo[e] =>
                  \/ Owner[x] \in sentTo'[e]
                  \/ \E d \in Conns : Owner[d] = e /\ Owner[x] \in notifying'[d],
           \A d \in Conns : notifying[d] \subseteq notifying'[d],
           \A d \in Conns : notifying'[d] # notifying[d] => d = c /\ p = "notifying"
    PROVE  RouteInv'
<1>1. phase'[c] = p /\ \A x \in Conns \ {c} : phase'[x] = phase[x]
  BY RouteFacts
<1>2. present' = present /\ missed' = missed
  BY DEF routeVars
<1>3. \A x \in Conns : Believed(x)' = Believed(x)
  BY <1>2 DEF Believed
<1>4. \A x \in Conns : \A e \in Believed(x) : e \in Endpoints
  BY RouteFacts, SMTT(30) DEF Believed, Elements
<1>5. ASSUME NEW x \in Conns, NEW e \in Endpoints, OnBooks(x, e) PROVE OnBooks(x, e)'
  <2>1. CASE \E d \in Conns : Owner[d] = e /\ Owner[x] \in notifying[d]
    BY <2>1 DEF OnBooks
  <2>2. CASE ~ \E d \in Conns : Owner[d] = e /\ Owner[x] \in notifying[d]
    BY <1>2, <1>5, <2>2, SMTT(30) DEF OnBooks
  <2>3. QED
    BY <2>1, <2>2
<1>6. StepKeeps
  BY <1>1, <1>3, <1>4, <1>5, SMTT(30) DEF StepKeeps
<1>7. Booked'
  BY <1>6, BookedKept
<1>8. OnlyNotifying'
  BY <1>1 DEF RouteInv, OnlyNotifying
<1>9. FreshEmpty' /\ RouteTypes' /\ draining' = {}
  BY <1>1, <1>2, <1>3 DEF RouteInv, FreshEmpty, RouteTypes
<1>10. QED
  BY <1>7, <1>8, <1>9 DEF RouteInv

\* What the server does without writing a frame keeps the invariant.
LEMMA SilentKeeps ==
    ASSUME IInv, RouteInv, NEW c \in Conns, Silent(c)
    PROVE  RouteInv'
<1> DEFINE o == Owner[c]
<1>0. o \in Endpoints /\ UNCHANGED routeVars
  BY RouteFacts DEF Silent
<1>1. CASE RegisterFirst(c)
  BY <1>0, <1>1, PhaseTypes, PhaseKeeps DEF RegisterFirst, queueVars, shutdownVars
<1>2. CASE RegisterAgain(c)
  <2>1. active[o] \in Conns /\ Same(o) \in Messages
    BY <1>0, <1>2, RouteFacts, MessageTypes DEF RegisterAgain
  <2>2. \A x \in Conns : Elements(messages[x]) \subseteq Elements(messages'[x])
    BY <1>2, <2>1, RouteFacts, TrySendElements, SMTT(30) DEF RegisterAgain
  <2>3. QED
    BY <1>0, <1>2, <2>2, PhaseTypes, PhaseKeeps DEF RegisterAgain, shutdownVars
<1>3. CASE RunReturns(c)
  BY <1>0, <1>3, PhaseTypes, PhaseKeeps DEF RunReturns, registryVars, queueVars, shutdownVars
<1>4. CASE UnregisterLast(c)
  <2>1. /\ phase[c] = "ending" /\ phase' = [phase EXCEPT ![c] = "notifying"]
        /\ sentTo' = [sentTo EXCEPT ![o] = {}]
        /\ notifying' = [notifying EXCEPT ![c] = sentTo[o]]
        /\ UNCHANGED <<packets, messages, draining>>
    BY <1>4 DEF UnregisterLast, queueVars, shutdownVars
  <2>2. notifying[c] = {}
    BY <2>1 DEF RouteInv, OnlyNotifying
  <2>3. /\ \A x \in Conns : x # c => notifying'[x] = notifying[x]
        /\ notifying'[c] = sentTo[o]
        /\ \A e \in Endpoints : e # o => sentTo'[e] = sentTo[e]
    BY <1>0, <2>1, RouteFacts
  <2>4. \A x \in Conns : \A e \in Endpoints :
           Owner[x] \in sentTo[e] =>
               \/ Owner[x] \in sentTo'[e]
               \/ \E d \in Conns : Owner[d] = e /\ Owner[x] \in notifying'[d]
    BY <2>3
  <2>5. \A d \in Conns : notifying[d] \subseteq notifying'[d]
    BY <2>2, <2>3
  <2>6. \A d \in Conns : notifying'[d] # notifying[d] => d = c
    BY <2>3
  <2>7. \A x \in Conns : Elements(messages[x]) \subseteq Elements(messages'[x])
    BY <2>1
  <2>8. UNCHANGED <<packets, draining, routeVars>> /\ phase[c] \in {"fresh", "running", "ending"}
    BY <1>0, <2>1
  <2>9. phase' = [phase EXCEPT ![c] = "notifying"] /\ "notifying" \in Phases
    BY <2>1, PhaseTypes
  <2>10. QED
    BY <2>4, <2>5, <2>6, <2>7, <2>8, <2>9, PhaseKeeps
<1>5. CASE UnregisterPromote(c)
  <2> DEFINE n == Len(inactive[o])
             next == inactive[o][n]
  <2>1. n \in 1..n /\ next \in Conns /\ Healthy(o) \in Messages
    BY <1>0, <1>5, RouteFacts, MessageTypes, SMTT(30) DEF UnregisterPromote
  <2>2. \A x \in Conns : Elements(messages[x]) \subseteq Elements(messages'[x])
    BY <1>5, <2>1, RouteFacts, TrySendElements, SMTT(30) DEF UnregisterPromote
  <2>3. QED
    BY <1>0, <1>5, <2>2, PhaseTypes, PhaseKeeps DEF UnregisterPromote, shutdownVars
<1>6. CASE UnregisterInactive(c)
  BY <1>0, <1>6, PhaseTypes, PhaseKeeps DEF UnregisterInactive, queueVars, shutdownVars
<1>7. CASE UnregisterRemoved(c)
  BY <1>0, <1>7, PhaseTypes, PhaseKeeps
     DEF UnregisterRemoved, registryVars, queueVars, shutdownVars
<1>8. QED
  BY <1>1, <1>2, <1>3, <1>4, <1>5, <1>6, <1>7, SMTT(30) DEF Silent, Unregister

\* sent_to, unregister and handle_relay_msg together: a route that a connected
\* client believes in is never forgotten by the server, for any number of
\* endpoints, connections and reconnections, and any order in which packets,
\* notifications and departures meet.
THEOREM RoutesKept == RSpec => []RoutesRevocable
<1>1. RInit => RouteInv
  <2>1. RInit => RouteTypes /\ draining = {} /\ OnlyNotifying
    BY DEF RInit, Init, RouteTypes, OnlyNotifying
  <2>2. RInit => FreshEmpty /\ Booked
    BY ElementsEmpty DEF RInit, Init, FreshEmpty, Booked, Believed
  <2>3. QED
    BY <2>1, <2>2 DEF RouteInv
<1>2. IInv /\ RouteInv /\ [RNext]_<<vars, routeVars>> => RouteInv'
  <2> SUFFICES ASSUME IInv, RouteInv, [RNext]_<<vars, routeVars>> PROVE RouteInv'
    OBVIOUS
  <2>1. CASE RNext
    BY <2>1, DatagramsKeep, GoneKeeps, NotifyKeeps, RelayKeeps, LostKeeps, SilentKeeps, SMTT(30)
       DEF RNext
  <2>2. CASE UNCHANGED <<vars, routeVars>>
    <3>1. UNCHANGED <<phase, sentTo, notifying, messages, packets, draining, present, missed>>
      BY <2>2 DEF vars, routeVars, registryVars, actorVars, queueVars, shutdownVars
    <3>2. QED
      BY <3>1, SMTT(30) DEF RouteInv, RouteTypes, FreshEmpty, OnlyNotifying, Booked, Believed, OnBooks
  <2>3. QED
    BY <2>1, <2>2
<1>3. RouteInv => RoutesRevocable
  BY SMTT(30) DEF RouteInv, Booked, Believed, OnBooks, RoutesRevocable
<1>4. TypeOK /\ Agreement => IInv
  BY DEF IInv, Agreement
<1>5. QED
  BY <1>1, <1>2, <1>3, <1>4, RegistryRefined, TypeCorrect, RegistryAgrees, PTL DEF RSpec

=============================================================================
