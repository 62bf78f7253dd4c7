------------------------------ MODULE RelayHome ------------------------------
(***************************************************************************)
(* The relay side of an endpoint: the RelayActor, which decides on the     *)
(* home relay, the ActiveRelayActors, one per relay in use, and the        *)
(* HomeRelayWatch through which both publish the home relay's status.      *)
(*                                                                         *)
(* The actors are tasks that run in parallel.  Whoever writes the watchable *)
(* has read it before and decided on what it read, so a write is two steps  *)
(* here; and the RelayActor, which has set the URL, may await between the   *)
(* messages that tell the actors about it.                                  *)
(***************************************************************************)
EXTENDS Naturals, Sequences, FiniteSets

CONSTANTS
    Urls,          \* relay URLs
    NoUrl,         \* no relay
    MaxActors,     \* max_active_relay_actors
    InboxCap,      \* capacity of an ActiveRelayActor's inbox
    ReportCap,     \* capacity of the RelayActor's inbox
    MaxReports,    \* bound: net reports in a behaviour
    MaxDatagrams   \* bound: datagrams sent to a relay that has no actor

ASSUME UrlsAssumption == IsFiniteSet(Urls) /\ NoUrl \notin Urls
ASSUME BoundsAssumption ==
    /\ MaxActors \in Nat \ {0} /\ InboxCap \in Nat \ {0} /\ ReportCap \in Nat \ {0}
    /\ MaxReports \in Nat /\ MaxDatagrams \in Nat

VARIABLES
    url, status,   \* the HomeRelayWatch: RelayStatus, or NoUrl
    reports,       \* RelayActor inbox: preferred relays of the reports
    at,            \* where the RelayActor is
    homing,        \* the relay set_home_relay was called for last, or NoUrl
    untold,        \* handles that set_home_relay has yet to send to
    handles,       \* keys of active_relays
    phase,         \* where the ActiveRelayActor of a relay is
    inbox,         \* its inbox, of SetHomeRelay messages
    homes,         \* actors with is_home_relay
    writing,       \* the status a set_status has decided to write
    permits,       \* free permits of the admission ledger
    leaving,       \* tasks whose actor is gone, before their completion
    completions,   \* completions in the RelayActor's queue
    tasks,         \* active_relay_task_count
    reported, sent \* how much of the bounds is used up

watchVars == <<url, status>>
actorVars == <<phase, inbox, homes, writing>>
taskVars == <<permits, leaving, completions, tasks>>
decideVars == <<at, reports, homing, untold, handles>>
boundVars == <<reported, sent>>
vars == <<watchVars, actorVars, taskVars, decideVars, boundVars>>

Idle == "idle"
Places == {"select", "set", "tell", "refuse"}
Live == {"start", "dialing", "connected", "backoff"}
Running(u) == phase[u] \in Live
\* An actor that is in the middle of set_status does nothing else.
Ready(u) == Running(u) /\ writing[u] = Idle

Init ==
    /\ url = NoUrl /\ status = Idle
    /\ at = "select" /\ reports = <<>> /\ homing = NoUrl /\ untold = {} /\ handles = {}
    /\ phase = [u \in Urls |-> "gone"]
    /\ inbox = [u \in Urls |-> <<>>]
    /\ homes = {}
    /\ writing = [u \in Urls |-> Idle]
    /\ permits = MaxActors /\ leaving = 0 /\ completions = 0 /\ tasks = 0
    /\ reported = 0 /\ sent = 0

-----------------------------------------------------------------------------
(* The socket actor. *)

\* handle_net_report_report: a report without a preferred relay keeps the
\* home relay that is published at this moment; a full inbox drops it.
Report(p) ==
    LET r == IF p = NoUrl THEN url ELSE p IN
    /\ reported < MaxReports
    /\ reported' = reported + 1
    /\ reports' = IF Len(reports) < ReportCap THEN Append(reports, r) ELSE reports
    /\ UNCHANGED <<watchVars, actorVars, taskVars, at, homing, untold, handles, sent>>

-----------------------------------------------------------------------------
(* The RelayActor.  It does one thing at a time. *)

\* active_relay_handle for a relay, with the given handles and free permits:
\* an existing handle is used, dead or not; a new actor of the home relay
\* finds SetHomeRelay(true) in its inbox.
Start(u, hs) ==
    /\ handles' = hs \cup {u}
    /\ phase' = [phase EXCEPT ![u] = "start"]
    /\ inbox' = [inbox EXCEPT ![u] = IF u = url THEN <<"home">> ELSE <<>>]
    /\ homes' = homes \ {u}
    /\ UNCHANGED writing

\* on_network_change: the report's relay is compared with the home relay ...
NetworkChange ==
    /\ at = "select"
    /\ reports # <<>>
    /\ IF Head(reports) = url
       THEN reports' = Tail(reports) /\ UNCHANGED at
       ELSE at' = "set" /\ UNCHANGED reports
    /\ UNCHANGED <<watchVars, actorVars, taskVars, homing, untold, handles, boundVars>>

\* ... and the watchable is set, before anybody is told, or cleared, and then
\* nobody is.
SetHome ==
    LET r == Head(reports) IN
    /\ at = "set"
    /\ reports' = Tail(reports)
    /\ url' = r
    /\ homing' = r
    /\ \/ r = NoUrl /\ at' = "select" /\ status' = Idle /\ UNCHANGED untold
       \/ r # NoUrl /\ at' = "tell" /\ status' = "connecting" /\ untold' = handles
    /\ UNCHANGED <<actorVars, taskVars, handles, boundVars>>

\* set_home_relay: one actor is told whether it is the home relay.  A send to
\* a full inbox waits, one to an actor that is gone fails.
Tell(u) ==
    /\ u \in untold
    /\ Running(u) => Len(inbox[u]) < InboxCap
    /\ untold' = untold \ {u}
    /\ inbox' = IF Running(u)
                THEN [inbox EXCEPT ![u] = Append(@, IF u = homing THEN "home" ELSE "away")]
                ELSE inbox
    /\ UNCHANGED <<watchVars, phase, homes, writing, taskVars, at, reports, homing,
                   handles, boundVars>>

\* set_home_relay, at its end: the home relay has an actor or gets one; when
\* there is no capacity for it, set_status compares the URL ...
EnsureHome ==
    /\ at = "tell"
    /\ untold = {}
    /\ \/ homing \in handles /\ at' = "select" /\ UNCHANGED <<actorVars, taskVars, handles>>
       \/ /\ homing \notin handles
          /\ permits > 0
          /\ at' = "select"
          /\ Start(homing, handles)
          /\ permits' = permits - 1 /\ tasks' = tasks + 1
          /\ UNCHANGED <<leaving, completions>>
       \/ /\ homing \notin handles
          /\ permits = 0
          /\ at' = IF url = homing THEN "refuse" ELSE "select"
          /\ UNCHANGED <<actorVars, taskVars, handles>>
    /\ UNCHANGED <<watchVars, reports, homing, untold, boundVars>>

\* ... and writes the status.
RefuseHome ==
    /\ at = "refuse"
    /\ at' = "select"
    /\ url' = homing
    /\ status' = "disconnected"
    /\ UNCHANGED <<actorVars, taskVars, reports, homing, untold, handles, boundVars>>

\* try_send_datagram to a relay without an actor (without a permit the
\* datagram is dropped).
SendDatagram(u) ==
    /\ sent < MaxDatagrams
    /\ at = "select"
    /\ u \notin handles
    /\ permits > 0
    /\ sent' = sent + 1
    /\ Start(u, handles)
    /\ permits' = permits - 1 /\ tasks' = tasks + 1
    /\ UNCHANGED <<watchVars, leaving, completions, at, reports, homing, untold, reported>>

\* Mutated form of Reap: the home relay is not looked at.
ReapOnly ==
    /\ at = "select"
    /\ completions > 0
    /\ completions' = completions - 1 /\ tasks' = tasks - 1 /\ permits' = permits + 1
    /\ handles' = {u \in handles : Running(u)}
    /\ UNCHANGED <<watchVars, actorVars, leaving, at, reports, homing, untold, boundVars>>

\* A completion arrives: the permit is returned, the handles of actors that
\* are gone are dropped and the home relay gets an actor if it has none.
Reap ==
    LET alive == {u \in handles : Running(u)} IN
    /\ at = "select"
    /\ completions > 0
    /\ completions' = completions - 1
    /\ \/ /\ url \in alive \cup {NoUrl}
          /\ handles' = alive
          /\ permits' = permits + 1 /\ tasks' = tasks - 1
          /\ UNCHANGED actorVars
       \/ /\ url \notin alive \cup {NoUrl}
          /\ Start(url, alive)
          /\ UNCHANGED <<permits, tasks>>
    /\ UNCHANGED <<watchVars, leaving, at, reports, homing, untold, boundVars>>

-----------------------------------------------------------------------------
(* An ActiveRelayActor. *)

\* set_status, first half: the URL is compared.  (Second half: WriteStatus.)
SetStatus(u, s) == writing' = IF url = u THEN [writing EXCEPT ![u] = s] ELSE writing

WriteStatus(u) ==
    /\ writing[u] # Idle
    /\ url' = u
    /\ status' = writing[u]
    /\ writing' = [writing EXCEPT ![u] = Idle]
    /\ UNCHANGED <<phase, inbox, homes, taskVars, decideVars, boundVars>>

\* run_once starts, from the top of run or after the backoff.
RunOnce(u) ==
    /\ Ready(u)
    /\ phase[u] \in {"start", "backoff"}
    /\ phase' = [phase EXCEPT ![u] = "dialing"]
    /\ SetStatus(u, "connecting")
    /\ UNCHANGED <<watchVars, inbox, homes, taskVars, decideVars, boundVars>>

Dialed(u) ==
    /\ Ready(u)
    /\ phase[u] = "dialing"
    /\ phase' = [phase EXCEPT ![u] = "connected"]
    /\ SetStatus(u, "connected")
    /\ UNCHANGED <<watchVars, inbox, homes, taskVars, decideVars, boundVars>>

\* run_once fails: dialing did, or the connection was lost, before a pong
\* (then run backs off) or after one (then it dials again at once).
Failed(u) ==
    /\ Ready(u)
    /\ \/ phase[u] \in {"dialing", "connected"} /\ phase' = [phase EXCEPT ![u] = "backoff"]
       \/ phase[u] = "connected" /\ phase' = [phase EXCEPT ![u] = "start"]
    /\ SetStatus(u, "disconnected")
    /\ UNCHANGED <<watchVars, inbox, homes, taskVars, decideVars, boundVars>>

\* Mutated form of SetHomeRelay: a connected actor that becomes the home relay
\* does not publish its status.
SetHomeRelayQuiet(u) ==
    /\ Ready(u)
    /\ phase[u] \in {"dialing", "connected"}
    /\ inbox[u] # <<>>
    /\ inbox' = [inbox EXCEPT ![u] = Tail(@)]
    /\ homes' = IF Head(inbox[u]) = "home" THEN homes \cup {u} ELSE homes \ {u}
    /\ UNCHANGED <<writing, watchVars, phase, taskVars, decideVars, boundVars>>

\* SetHomeRelay is read while dialing and while connected, not in a backoff.
SetHomeRelay(u) ==
    LET home == Head(inbox[u]) = "home" IN
    /\ Ready(u)
    /\ phase[u] \in {"dialing", "connected"}
    /\ inbox[u] # <<>>
    /\ inbox' = [inbox EXCEPT ![u] = Tail(@)]
    /\ homes' = IF home THEN homes \cup {u} ELSE homes \ {u}
    /\ IF home /\ phase[u] = "connected" THEN SetStatus(u, "connected") ELSE UNCHANGED writing
    /\ UNCHANGED <<watchVars, phase, taskVars, decideVars, boundVars>>

\* The inactivity timeout ends the actor; whatever is in its inbox is lost.
Inactive(u) ==
    /\ Ready(u)
    /\ phase[u] \in {"dialing", "connected"}
    /\ u \notin homes
    /\ phase' = [phase EXCEPT ![u] = "gone"]
    /\ inbox' = [inbox EXCEPT ![u] = <<>>]
    /\ leaving' = leaving + 1
    /\ UNCHANGED <<watchVars, homes, writing, permits, completions, tasks, decideVars,
                   boundVars>>

\* Mutated form of Complete: the permit is dropped and no completion sent.
CompleteSilently ==
    /\ leaving > 0
    /\ leaving' = leaving - 1
    /\ permits' = permits + 1
    /\ UNCHANGED <<watchVars, actorVars, completions, tasks, decideVars, boundVars>>

\* The task sends its completion, with the permit.
Complete ==
    /\ leaving > 0
    /\ leaving' = leaving - 1
    /\ completions' = completions + 1
    /\ UNCHANGED <<watchVars, actorVars, permits, tasks, decideVars, boundVars>>

-----------------------------------------------------------------------------
Next ==
    \/ \E p \in Urls \cup {NoUrl} : Report(p)
    \/ NetworkChange
    \/ SetHome
    \/ \E u \in Urls : Tell(u)
    \/ EnsureHome
    \/ RefuseHome
    \/ \E u \in Urls : SendDatagram(u)
    \/ Reap
    \/ \E u \in Urls : \/ WriteStatus(u)
                       \/ RunOnce(u)
                       \/ Dialed(u)
                       \/ Failed(u)
                       \/ SetHomeRelay(u)
                       \/ Inactive(u)
    \/ Complete

\* Tasks are polled and backoffs end.  An inbox is read whenever the actor is
\* at one of its select loops (strong fairness: dialing does not end on its
\* first poll, and when connected the inbox is polled before the relay's
\* frames).  The inactivity timer of an idle connection fires; while dialing it is restarted
\* every three seconds, so nothing is assumed of it there.
\* Nothing says that dialing succeeds or that a connection is ever lost.
Fairness ==
    /\ WF_vars(NetworkChange) /\ WF_vars(SetHome) /\ WF_vars(EnsureHome)
    /\ WF_vars(RefuseHome) /\ WF_vars(Reap) /\ WF_vars(Complete)
    /\ \A u \in Urls :
          /\ WF_vars(Tell(u))
          /\ WF_vars(WriteStatus(u))
          /\ WF_vars(RunOnce(u))
          /\ SF_vars(SetHomeRelay(u))
          /\ WF_vars(phase[u] = "connected" /\ Inactive(u))

Spec == Init /\ [][Next]_vars
FairSpec == Spec /\ Fairness

-----------------------------------------------------------------------------
TypeOK ==
    /\ url \in Urls \cup {NoUrl}
    /\ status \in {Idle, "connecting", "connected", "disconnected"}
    /\ at \in Places
    /\ reports \in Seq(Urls \cup {NoUrl})
    /\ homing \in Urls \cup {NoUrl}
    /\ untold \in SUBSET Urls
    /\ handles \in SUBSET Urls
    /\ homes \in SUBSET Urls
    /\ phase \in [Urls -> Live \cup {"gone"}]
    /\ inbox \in [Urls -> Seq({"home", "away"})]
    /\ writing \in [Urls -> {Idle, "connecting", "connected", "disconnected"}]
    /\ permits \in Nat /\ leaving \in Nat /\ completions \in Nat /\ tasks \in Nat
    /\ reported \in Nat /\ sent \in Nat

\* Every permit of the ledger is free or belongs to one task: one whose actor
\* runs, that is between its actor's end and its completion, or whose
\* completion is queued; and active_relay_task_count counts those tasks, so
\* that neither it nor the bounded completion queue can over- or underflow.
TasksAccounted ==
    /\ tasks = Cardinality({u \in Urls : Running(u)}) + leaving + completions
    /\ permits + tasks = MaxActors

\* "guards against stale writes: if another relay has become home since this
\* actor was designated, the write is silently dropped": only a network change
\* moves the home relay.
StaleWritesDropped ==
    [][url' # url => SetHome]_vars

\* A home relay that stays has, again and again, an actor that runs: the actor
\* may end for inactivity just when it becomes the home relay, and is replaced.
HomeServed ==
    \A u \in Urls : <>[](url = u) => []<>Running(u)

\* Once the home relay is connected for good, that is what is published:
\* whatever the order of the RelayActor's writes and the actor's.
StatusSettles ==
    \A u \in Urls :
        <>[](url = u /\ phase[u] = "connected") => <>[](status = "connected")

=============================================================================
