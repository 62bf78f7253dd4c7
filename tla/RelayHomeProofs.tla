--------------------------- MODULE RelayHomeProofs ---------------------------
(***************************************************************************)
(* Type correctness and task accounting of the relay actors, for every set *)
(* of relays and every limit.  The accounting is not inductive alone: the  *)
(* RelayActor starts an actor for a relay without a handle, and only       *)
(* because every running actor has a handle is that a new actor; and what  *)
(* the RelayActor decides on is a report it has, for a relay.              *)
(***************************************************************************)
EXTENDS RelayHome, FiniteSetTheorems, TLAPS

\* Zenon proves what does not say otherwise.
USE ZenonT(30)

\* The actors that run, with the given phases.
Up(p) == {u \in Urls : p[u] \in Live}

\* No actor runs without a handle of the RelayActor.
Handled == \A u \in Urls : Running(u) => u \in handles

\* The RelayActor decides on a report it still has, and for a relay.
Decided ==
    /\ at = "set" => reports # <<>>
    /\ at \in {"tell", "refuse"} => homing \in Urls

IInv == TypeOK /\ TasksAccounted /\ Handled /\ Decided

Statuses == {Idle, "connecting", "connected", "disconnected"}

\* The set of running actors is finite, so that counting it is meaningful.
LEMMA UpFinite == \A p : IsFiniteSet(Up(p)) /\ Cardinality(Up(p)) \in Nat
<1>1. \A p : Up(p) \subseteq Urls
  BY DEF Up
<1> QED
  BY <1>1, UrlsAssumption, FS_Subset, FS_CardinalityType

\* An actor that starts adds one to the running actors, one that ends takes
\* one away, any other move leaves their number alone.
LEMMA UpCounts ==
    ASSUME NEW p, NEW q, NEW u \in Urls,
           \A v \in Urls \ {u} : p[v] \in Live <=> q[v] \in Live
    PROVE  /\ (p[u] \notin Live /\ q[u] \in Live) => Cardinality(Up(q)) = Cardinality(Up(p)) + 1
           /\ (p[u] \in Live /\ q[u] \notin Live) => Cardinality(Up(p)) = Cardinality(Up(q)) + 1
           /\ (p[u] \in Live <=> q[u] \in Live) => Up(p) = Up(q)
<1>1. CASE p[u] \notin Live /\ q[u] \in Live
  <2>1. Up(q) = Up(p) \cup {u} /\ u \notin Up(p)
    BY <1>1 DEF Up
  <2> QED
    BY <1>1, <2>1, UpFinite, FS_AddElement
<1>2. CASE p[u] \in Live /\ q[u] \notin Live
  <2>1. Up(p) = Up(q) \cup {u} /\ u \notin Up(q)
    BY <1>2 DEF Up
  <2> QED
    BY <1>2, <2>1, UpFinite, FS_AddElement
<1>3. CASE p[u] \in Live <=> q[u] \in Live
  BY <1>3 DEF Up
<1> QED
  BY <1>1, <1>2, <1>3

\* Starting an actor keeps the types, and is counted when none was running.
LEMMA StartStep ==
    ASSUME TypeOK, NEW u \in Urls, NEW hs \in SUBSET Urls, Start(u, hs)
    PROVE  /\ handles' \in SUBSET Urls /\ homes' \in SUBSET Urls
           /\ phase' \in [Urls -> Live \cup {"gone"}]
           /\ inbox' \in [Urls -> Seq({"home", "away"})]
           /\ writing' \in [Urls -> Statuses]
           /\ ~Running(u) => Cardinality(Up(phase')) = Cardinality(Up(phase)) + 1
           /\ \A v \in Urls : v # u => Running(v)' = Running(v)
           /\ handles' = hs \cup {u}
<1>1. phase' = [phase EXCEPT ![u] = "start"] /\ "start" \in Live
  BY DEF Start, Live
<1>2. \A v \in Urls : v # u => phase'[v] = phase[v]
  BY <1>1 DEF TypeOK
<1>3. phase'[u] = "start"
  BY <1>1 DEF TypeOK
<1>4. ~Running(u) => Cardinality(Up(phase')) = Cardinality(Up(phase)) + 1
  <2>1. \A v \in Urls \ {u} : phase[v] \in Live <=> phase'[v] \in Live
    BY <1>2
  <2>2. phase'[u] \in Live
    BY <1>1, <1>3
  <2> QED
    BY <2>1, <2>2, UpCounts DEF Running
<1>5. <<>> \in Seq({"home", "away"}) /\ <<"home">> \in Seq({"home", "away"})
  BY SMTT(30)
<1>6. inbox' \in [Urls -> Seq({"home", "away"})]
  BY <1>5 DEF Start, TypeOK
<1> QED
  BY <1>1, <1>2, <1>4, <1>6, SMTT(30) DEF Start, TypeOK, Running, Statuses

\* The invariant holds at the start.
LEMMA InitInv == Init => IInv
<1> SUFFICES ASSUME Init PROVE IInv
  OBVIOUS
<1>1. Up(phase) = {}
  BY DEF Init, Up, Live
<1>2. Cardinality(Up(phase)) = 0
  BY <1>1, FS_EmptySet
<1>3. TypeOK
  BY BoundsAssumption, SMTT(30) DEF Init, TypeOK, Live, Places, Idle
<1>4. TasksAccounted
  BY <1>2, BoundsAssumption, SMTT(30) DEF Init, TasksAccounted, Up, Running
<1> QED
  BY <1>3, <1>4 DEF IInv, Handled, Decided, Init, Running, Live

\* Every step of the actors keeps the invariant.
LEMMA StepInv == IInv /\ [Next]_vars => IInv'
<1> SUFFICES ASSUME IInv, [Next]_vars PROVE IInv'
  OBVIOUS
<1> USE DEF IInv
<1>0. TasksAccounted <=> /\ tasks = Cardinality(Up(phase)) + leaving + completions
                        /\ permits + tasks = MaxActors
  BY DEF TasksAccounted, Up, Running
<1>00. TasksAccounted' <=> /\ tasks' = Cardinality(Up(phase')) + leaving' + completions'
                          /\ permits' + tasks' = MaxActors
  BY DEF TasksAccounted, Up, Running
<1>n. /\ Cardinality(Up(phase)) \in Nat /\ Cardinality(Up(phase')) \in Nat
      /\ MaxActors \in Nat
  BY UpFinite, BoundsAssumption
<1>t. permits \in Nat /\ tasks \in Nat /\ leaving \in Nat /\ completions \in Nat
  BY DEF TypeOK
<1>q. ASSUME UNCHANGED <<phase, permits, leaving, completions, tasks>> PROVE TasksAccounted'
  BY <1>q, <1>0, <1>00
<1>d. ASSUME UNCHANGED <<at, reports, homing>> PROVE Decided'
  BY <1>d DEF Decided
<1>1. ASSUME NEW p \in Urls \cup {NoUrl}, Report(p) PROVE IInv'
  <2>1. TypeOK'
    BY <1>1, SMTT(30) DEF Report, TypeOK, watchVars, actorVars, taskVars
  <2>2. reports # <<>> => reports' # <<>>
    <3> DEFINE S == Urls \cup {NoUrl}
               r == IF p = NoUrl THEN url ELSE p
    <3>1. reports \in Seq(S) /\ r \in S
      BY DEF TypeOK
    <3>2. reports' \in {reports, Append(reports, r)}
      BY <1>1 DEF Report
    <3> HIDE DEF S, r
    <3>3. Len(Append(reports, r)) # 0 /\ Len(<<>>) = 0
      BY <3>1, SMTT(30)
    <3> QED
      BY <3>2, <3>3
  <2> QED
    BY <1>1, <1>q, <2>1, <2>2
    DEF Report, watchVars, actorVars, taskVars, Handled, Decided, Running
<1>2. CASE NetworkChange
  <2>1. Tail(reports) \in Seq(Urls \cup {NoUrl})
    BY <1>2, SMTT(30) DEF NetworkChange, TypeOK
  <2>3. at' \in Places /\ reports' \in Seq(Urls \cup {NoUrl})
    BY <1>2, <2>1 DEF NetworkChange, TypeOK, Places
  <2>4. TypeOK'
    BY <1>2, <2>3 DEF NetworkChange, TypeOK, watchVars, actorVars, taskVars, boundVars
  <2>2. Decided'
    BY <1>2 DEF NetworkChange, Decided
  <2> QED
    BY <1>2, <1>q, <2>2, <2>4 DEF NetworkChange, actorVars, taskVars, Handled, Running
<1>2a. CASE SetHome
  <2>1. Head(reports) \in Urls \cup {NoUrl} /\ Tail(reports) \in Seq(Urls \cup {NoUrl})
    BY <1>2a, SMTT(30) DEF SetHome, Decided, TypeOK
  <2>2. TypeOK'
    BY <1>2a, <2>1 DEF SetHome, TypeOK, Places, Idle, actorVars, taskVars, boundVars
  <2>3. Decided'
    BY <1>2a, <2>1 DEF SetHome, Decided
  <2> QED
    BY <1>2a, <1>q, <2>2, <2>3 DEF SetHome, actorVars, taskVars, Handled, Running
<1>3. ASSUME NEW u \in Urls, Tell(u) PROVE IInv'
  <2>1. inbox' \in [Urls -> Seq({"home", "away"})]
    BY <1>3, SMTT(30) DEF Tell, TypeOK
  <2>2. TypeOK'
    BY <1>3, <2>1 DEF Tell, TypeOK, watchVars, taskVars, boundVars
  <2> QED
    BY <1>3, <1>q, <1>d, <2>2 DEF Tell, taskVars, Handled, Running
<1>4. CASE EnsureHome
  <2>0. homing \in Urls
    BY <1>4 DEF EnsureHome, Decided
  <2>1. Decided'
    BY <1>4, <2>0 DEF EnsureHome, Decided
  <2>2. CASE /\ homing \notin handles /\ permits > 0 /\ Start(homing, handles)
             /\ permits' = permits - 1 /\ tasks' = tasks + 1
             /\ UNCHANGED <<leaving, completions>>
    <3>1. handles \in SUBSET Urls
      BY DEF TypeOK
    <3>2. TypeOK'
      BY <1>4, <2>0, <2>2, <3>1, StartStep, SMTT(30)
      DEF EnsureHome, TypeOK, Places, watchVars, boundVars, Statuses
    <3>3. ~Running(homing)
      BY <2>0, <2>2 DEF Handled
    <3>4. Cardinality(Up(phase')) = Cardinality(Up(phase)) + 1
      BY <2>0, <2>2, <3>1, <3>3, StartStep
    <3>5. TasksAccounted'
      BY <1>0, <1>00, <1>n, <1>t, <2>2, <3>4, SMTT(30)
    <3> QED
      BY <2>0, <2>1, <2>2, <3>1, <3>2, <3>5, StartStep, SMTT(30) DEF Handled
  <2>3. CASE UNCHANGED <<actorVars, taskVars, handles>>
    <3>1. TypeOK'
      BY <1>4, <2>3 DEF EnsureHome, TypeOK, Places, watchVars, actorVars, taskVars, boundVars
    <3> QED
      BY <2>1, <2>3, <3>1, <1>q DEF actorVars, taskVars, Handled, Running
  <2> QED
    BY <1>4, <2>2, <2>3 DEF EnsureHome
<1>4a. CASE RefuseHome
  <2>1. TypeOK'
    BY <1>4a DEF RefuseHome, TypeOK, Places, actorVars, taskVars, boundVars
  <2> QED
    BY <1>4a, <1>q, <2>1 DEF RefuseHome, Decided, actorVars, taskVars, Handled, Running
<1>5. ASSUME NEW u \in Urls, SendDatagram(u) PROVE IInv'
  <2>1. handles \in SUBSET Urls /\ Start(u, handles)
    BY <1>5 DEF TypeOK, SendDatagram
  <2>2. TypeOK'
    BY <1>5, <2>1, StartStep, SMTT(30) DEF SendDatagram, TypeOK, watchVars, Statuses
  <2>3. Cardinality(Up(phase')) = Cardinality(Up(phase)) + 1
    BY <1>5, <2>1, StartStep DEF Handled, SendDatagram
  <2>4. TasksAccounted'
    BY <1>0, <1>00, <1>n, <1>t, <1>5, <2>3, SMTT(30) DEF SendDatagram
  <2> QED
    BY <1>5, <1>d, <2>1, <2>2, <2>4, StartStep, SMTT(30) DEF Handled, SendDatagram
<1>6. CASE Reap
  <2> DEFINE alive == {u \in handles : Running(u)}
  <2>0. completions \in Nat /\ completions > 0 /\ completions' = completions - 1
        /\ permits \in Nat /\ tasks \in Nat /\ leaving \in Nat /\ leaving' = leaving
    BY <1>6 DEF Reap, TypeOK
  <2>1. CASE /\ handles' = alive /\ permits' = permits + 1 /\ tasks' = tasks - 1
             /\ UNCHANGED actorVars
    <3>1. tasks > 0
      BY <1>0, <1>n, <2>0, SMTT(30)
    <3>2. TypeOK'
      BY <1>6, <2>0, <2>1, <3>1, SMTT(30) DEF Reap, TypeOK, watchVars, actorVars, boundVars
    <3>3. TasksAccounted'
      BY <1>0, <1>00, <1>n, <2>0, <2>1, SMTT(30) DEF actorVars
    <3> QED
      BY <1>6, <1>d, <2>1, <3>2, <3>3 DEF Reap, actorVars, Handled, Running
  <2>2. CASE /\ url \notin alive \cup {NoUrl} /\ Start(url, alive)
             /\ UNCHANGED <<permits, tasks>>
    <3>1. alive \in SUBSET Urls /\ url \in Urls
      BY <2>2 DEF TypeOK
    <3>2. ~Running(url)
      BY <2>2, <3>1 DEF Handled
    <3>3. Cardinality(Up(phase')) = Cardinality(Up(phase)) + 1
      BY <2>2, <3>1, <3>2, StartStep
    <3>4. TypeOK'
      BY <1>6, <2>0, <2>2, <3>1, StartStep, SMTT(30)
      DEF Reap, TypeOK, watchVars, boundVars, Statuses
    <3>5. TasksAccounted'
      BY <1>0, <1>00, <1>n, <2>0, <2>2, <3>3, SMTT(30)
    <3> QED
      BY <1>6, <1>d, <2>2, <3>1, <3>4, <3>5, StartStep, SMTT(30) DEF Reap, Handled
  <2> QED
    BY <1>6, <2>1, <2>2 DEF Reap
<1>7. ASSUME NEW u \in Urls, WriteStatus(u) PROVE IInv'
  <2>1. TypeOK'
    BY <1>7 DEF WriteStatus, TypeOK, taskVars, decideVars, boundVars, Idle
  <2> QED
    BY <1>7, <1>q, <1>d, <2>1 DEF WriteStatus, taskVars, decideVars, Handled, Running
<1>8. ASSUME NEW u \in Urls, Ready(u),
             \E f \in Live : phase' = [phase EXCEPT ![u] = f],
             \E s \in Statuses : SetStatus(u, s),
             UNCHANGED <<watchVars, inbox, homes, taskVars, decideVars, boundVars>>
      PROVE  IInv'
  <2>1. PICK f \in Live : phase' = [phase EXCEPT ![u] = f]
    BY <1>8
  <2>2. /\ phase'[u] \in Live /\ phase[u] \in Live
        /\ \A v \in Urls \ {u} : phase'[v] = phase[v]
    BY <1>8, <2>1 DEF TypeOK, Ready, Running
  <2>3. Up(phase) = Up(phase')
    BY <2>2, UpCounts
  <2>4. TypeOK'
    BY <1>8, <2>1
    DEF TypeOK, SetStatus, Statuses, watchVars, taskVars, decideVars, boundVars
  <2>5. TasksAccounted'
    BY <1>0, <1>00, <1>8, <2>3 DEF taskVars
  <2> QED
    BY <1>8, <1>d, <2>2, <2>4, <2>5 DEF Handled, Running, decideVars
<1>9. ASSUME NEW u \in Urls, SetHomeRelay(u) PROVE IInv'
  <2>1. inbox' \in [Urls -> Seq({"home", "away"})]
    BY <1>9, SMTT(30) DEF SetHomeRelay, TypeOK
  <2>2. writing' \in [Urls -> Statuses]
    BY <1>9 DEF SetHomeRelay, TypeOK, SetStatus, Statuses
  <2>3. TypeOK'
    BY <1>9, <2>1, <2>2
    DEF SetHomeRelay, TypeOK, Statuses, watchVars, taskVars, decideVars, boundVars
  <2> QED
    BY <1>9, <1>q, <1>d, <2>3 DEF SetHomeRelay, taskVars, decideVars, Handled, Running
<1>10. ASSUME NEW u \in Urls, Inactive(u) PROVE IInv'
  <2>1. /\ phase[u] \in Live /\ phase'[u] \notin Live
        /\ \A v \in Urls \ {u} : phase'[v] = phase[v]
    BY <1>10 DEF Inactive, TypeOK, Ready, Running, Live
  <2>2. Cardinality(Up(phase)) = Cardinality(Up(phase')) + 1
    BY <2>1, UpCounts, SMTT(30)
  <2>3. <<>> \in Seq({"home", "away"})
    BY SMTT(30)
  <2>4. TypeOK'
    BY <1>10, <2>3, SMTT(30) DEF Inactive, TypeOK, watchVars, decideVars, boundVars
  <2>5. TasksAccounted'
    BY <1>0, <1>00, <1>n, <1>10, <2>2, SMTT(30) DEF Inactive, TypeOK
  <2> QED
    BY <1>10, <1>d, <2>1, <2>4, <2>5 DEF Inactive, Handled, Running, decideVars
<1>11. CASE Complete
  <2>1. TypeOK'
    BY <1>11, SMTT(30) DEF Complete, TypeOK, watchVars, actorVars, decideVars, boundVars
  <2>2. TasksAccounted'
    BY <1>0, <1>00, <1>n, <1>11, SMTT(30) DEF Complete, TypeOK, actorVars
  <2> QED
    BY <1>11, <1>d, <2>1, <2>2 DEF Complete, actorVars, decideVars, Handled, Running
<1>12. CASE UNCHANGED vars
  <2>1. TypeOK'
    BY <1>12 DEF vars, TypeOK, watchVars, actorVars, taskVars, decideVars, boundVars
  <2> QED
    BY <1>12, <1>q, <1>d, <2>1 DEF vars, actorVars, taskVars, decideVars, Handled, Running
<1>13. ASSUME NEW u \in Urls, RunOnce(u) \/ Dialed(u) \/ Failed(u) PROVE IInv'
  BY <1>13, <1>8 DEF RunOnce, Dialed, Failed, Live, Statuses
<1> QED
  BY <1>1, <1>2, <1>2a, <1>3, <1>4, <1>4a, <1>5, <1>6, <1>7, <1>9, <1>10, <1>11, <1>12, <1>13 DEF Next

\* The relay actors' state keeps its types: no counter of the RelayActor
\* underflows, whatever the order of reports, exits and completions.
THEOREM TypeCorrect == Spec => []TypeOK
<1>1. IInv => TypeOK
  BY DEF IInv
<1> QED
  BY InitInv, StepInv, <1>1, PTL DEF Spec

\* active_relay_task_count and the admission ledger agree with the tasks there
\* are, so the completion queue, sized by the ledger, never overflows.
THEOREM TasksExact == Spec => []TasksAccounted
<1>1. IInv => TasksAccounted
  BY DEF IInv
<1> QED
  BY InitInv, StepInv, <1>1, PTL DEF Spec

=============================================================================
