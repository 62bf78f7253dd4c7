------------------------------ MODULE RemoteMap ------------------------------
(***************************************************************************)
(* The actors an endpoint keeps for the remotes it talks to: the RemoteMap *)
(* (owned by the socket actor), its map of senders, and the                *)
(* RemoteStateActors, which end when they are idle and are restarted when  *)
(* messages reached them while they were ending.                           *)
(*                                                                         *)
(* Sending on a tokio channel is two steps, as it is in tokio: a slot is   *)
(* taken, which fails once the receiver has closed the channel, and then   *)
(* the message is put into it, which does not.                             *)
(***************************************************************************)
EXTENDS Naturals, Sequences, FiniteSets, Functions

CONSTANTS
    Ids,        \* remote endpoints
    NoId,       \* none of them
    MaxActors,  \* max_remote_state_actors
    InboxCap,   \* capacity of an actor's inbox
    MaxMsgs,    \* bound: messages in a behaviour
    MaxTries    \* bound: those of them that other threads try to send

ASSUME MapAssumption == MaxMsgs \in Nat /\ MaxActors \in Nat /\ NoId \notin Ids

VARIABLES
    senders,            \* the senders map: an actor, or 0
    stage, owner,       \* where an actor's task is; the remote it is for
    inbox,              \* its channel
    initial,            \* messages it was started with and has yet to handle
    conns,              \* actors that have a connection, or a remote to resolve
    left,               \* leftover messages of an actor that has ended
    completions,        \* the completion queue, of actors
    free,               \* free permits of the admission ledger
    started,            \* how many actors were started
    at, cur,            \* where the socket actor is, and with which message
    token,              \* the shutdown token that it and the actors share
    inflight,           \* slots taken and not yet filled
    issued, to,         \* messages so far; whom they are for
    tried,              \* messages that other threads tried to send
    handled,            \* history: the messages in the order they were handled
    refused, dropped,   \* messages their sender knows to have failed
    lost                \* messages accepted by a channel and dropped with it

\* A message starts at most one actor and, left over by it, restarts at most one.
Actors == 1..(2 * MaxMsgs)
Msgs == 1..MaxMsgs

mapVars == <<senders, free, started>>
taskVars == <<stage, owner, initial, conns, left, completions>>
sockVars == <<at, cur, token>>
msgVars == <<issued, to, tried>>
fateVars == <<handled, refused, dropped, lost>>
remoteVars == <<mapVars, taskVars, inbox, inflight, sockVars, msgVars, fateVars>>

Open(a) == stage[a] \in {"running", "closing"}
\* The task of an actor that has not been joined.
Pending == {"running", "closing", "closed", "ended", "queued"}

\* A free slot: one that is neither filled nor taken.
Room(a) ==
    Len(inbox[a]) + Cardinality({m \in Msgs : <<m, a>> \in inflight}) < InboxCap

MapInit ==
    /\ senders = [i \in Ids |-> 0]
    /\ free = MaxActors /\ started = 0
    /\ stage = [a \in Actors |-> "unused"]
    /\ owner = [a \in Actors |-> NoId]
    /\ inbox = [a \in Actors |-> <<>>]
    /\ initial = [a \in Actors |-> <<>>]
    /\ conns = {}
    /\ left = [a \in Actors |-> <<>>]
    /\ completions = <<>>
    /\ at = "select" /\ cur = 0 /\ token = "live"
    /\ inflight = {}
    /\ issued = 0 /\ tried = {}
    /\ to = [m \in Msgs |-> NoId]
    /\ handled = <<>> /\ refused = {} /\ dropped = {} /\ lost = {}

-----------------------------------------------------------------------------
(* The socket actor, which owns the map and does one thing at a time. *)

\* start_remote_state_actor for a remote, with messages to begin with; `others`
\* are the phases of the other actors.
Start(i, msgs, others) ==
    LET a == started + 1 IN
    /\ a \in Actors
    /\ started' = a
    /\ stage' = [others EXCEPT ![a] = "running"]
    /\ owner' = [owner EXCEPT ![a] = i]
    /\ initial' = [initial EXCEPT ![a] = msgs]
    /\ senders' = [senders EXCEPT ![i] = a]

\* send_to_actor: the sender is looked up, or an actor is started if there is
\* a permit for one and the runtime takes its task.
SendToActor(i) ==
    LET m == issued + 1 IN
    /\ at = "select"
    /\ issued < MaxMsgs
    /\ issued' = m
    /\ to' = [to EXCEPT ![m] = i]
    /\ \/ /\ senders[i] # 0
          /\ at' = "send" /\ cur' = m
          /\ UNCHANGED <<mapVars, stage, owner, initial, refused>>
       \/ /\ senders[i] = 0 /\ free > 0
          /\ free' = free - 1
          /\ Start(i, <<>>, stage)
          /\ at' = "send" /\ cur' = m
          /\ UNCHANGED refused
       \/ /\ senders[i] = 0
          /\ refused' = refused \cup {m}
          /\ UNCHANGED <<mapVars, stage, owner, initial, at, cur>>
    /\ UNCHANGED <<token, conns, left, completions, inbox, inflight, tried, handled, dropped, lost>>

\* sender.send(message).await takes a slot as soon as there is one ...
Reserve ==
    LET a == senders[to[cur]] IN
    /\ at = "send"
    /\ Open(a) /\ Room(a)
    /\ inflight' = inflight \cup {<<cur, a>>}
    /\ at' = "push"
    /\ UNCHANGED <<mapVars, taskVars, inbox, cur, token, msgVars, fateVars>>

\* Mutated form of SendFails: a new actor is started right away.
SendFailsStarts ==
    /\ at = "send"
    /\ ~ Open(senders[to[cur]])
    /\ free > 0
    /\ free' = free - 1
    /\ Start(to[cur], <<cur>>, stage)
    /\ at' = "select"
    /\ UNCHANGED <<conns, left, completions, inbox, inflight, cur, token, msgVars, fateVars>>

\* ... or fails, and the actor's task must be joined before the message is
\* sent again.
SendFails ==
    /\ at = "send"
    /\ ~ Open(senders[to[cur]])
    /\ at' = "join"
    /\ UNCHANGED <<mapVars, taskVars, inbox, inflight, cur, token, msgVars, fateVars>>

\* A message is put into its slot.  Nobody will look there after the drain.
Push(m, a) ==
    /\ <<m, a>> \in inflight
    /\ inflight' = inflight \ {<<m, a>>}
    /\ IF stage[a] \in {"running", "closing", "closed"}
       THEN inbox' = [inbox EXCEPT ![a] = Append(@, m)] /\ UNCHANGED lost
       ELSE lost' = lost \cup {m} /\ UNCHANGED inbox
    /\ at' = IF at = "push" /\ cur = m THEN "select" ELSE at
    /\ UNCHANGED <<mapVars, taskVars, cur, token, msgVars, handled, refused, dropped>>

\* Mutated form of RemoveOrRestart: a restart gives the permit back as well.
RemoveOrRestartReleases(a, msgs) ==
    LET joined == [stage EXCEPT ![a] = "gone"] IN
    /\ completions' = Tail(completions)
    /\ free' = free + 1
    /\ \/ /\ senders' = [senders EXCEPT ![owner[a]] = 0]
          /\ stage' = joined
          /\ dropped' = dropped \cup Range(msgs)
          /\ UNCHANGED <<started, owner, initial>>
       \/ msgs # <<>> /\ Start(owner[a], msgs, joined) /\ UNCHANGED dropped
    /\ left' = [left EXCEPT ![a] = <<>>]
    /\ UNCHANGED <<conns, inbox, inflight, cur, token, msgVars, handled, refused, lost>>

\* remove_or_restart_actor, for the actor whose completion came first: its sender
\* is removed when it left no messages, and also when the runtime does not take
\* the task of its successor, with which the messages are dropped.
RemoveOrRestart(a, msgs) ==
    LET joined == [stage EXCEPT ![a] = "gone"] IN
    /\ completions' = Tail(completions)
    /\ \/ /\ senders' = [senders EXCEPT ![owner[a]] = 0]
          /\ free' = free + 1
          /\ stage' = joined
          /\ dropped' = dropped \cup Range(msgs)
          /\ UNCHANGED <<started, owner, initial>>
       \/ msgs # <<>> /\ Start(owner[a], msgs, joined) /\ UNCHANGED <<free, dropped>>
    /\ left' = [left EXCEPT ![a] = <<>>]
    /\ UNCHANGED <<conns, inbox, inflight, cur, token, msgVars, handled, refused, lost>>

\* Mutated form of Cleanup: an actor that left messages is not started again.
CleanupEmpty ==
    LET a == Head(completions) IN
    /\ at = "select"
    /\ completions # <<>> /\ left[a] = <<>>
    /\ RemoveOrRestart(a, left[a])
    /\ UNCHANGED at

\* cleanup, when the socket actor has nothing else to do.
Cleanup ==
    LET a == Head(completions) IN
    /\ at = "select"
    /\ completions # <<>>
    /\ RemoveOrRestart(a, left[a])
    /\ UNCHANGED at

\* send_to_actor after a failed send: other actors' completions are processed
\* until the one it waits for, whose leftovers the message goes behind.
Join ==
    LET a == Head(completions)
        mine == owner[a] = to[cur] IN
    /\ at = "join"
    /\ completions # <<>>
    /\ RemoveOrRestart(a, IF mine THEN Append(left[a], cur) ELSE left[a])
    /\ at' = IF mine THEN "select" ELSE "join"

\* The endpoint is closed ...
CloseEndpoint ==
    /\ token = "live"
    /\ token' = "cancelled"
    /\ UNCHANGED <<mapVars, taskVars, inbox, inflight, at, cur, msgVars, fateVars>>

\* ... and the socket actor leaves its loop.
Stop ==
    /\ at = "select" /\ token = "cancelled"
    /\ at' = "stopped"
    /\ UNCHANGED <<mapVars, taskVars, inbox, inflight, cur, token, msgVars, fateVars>>

-----------------------------------------------------------------------------
(* Other threads, which read the map and try to send. *)

TrySendRemote(i) ==
    LET m == issued + 1
        a == senders[i] IN
    /\ issued < MaxMsgs
    /\ Cardinality(tried) < MaxTries
    /\ issued' = m
    /\ to' = [to EXCEPT ![m] = i]
    /\ tried' = tried \cup {m}
    /\ IF a # 0 /\ Open(a) /\ Room(a)
       THEN inflight' = inflight \cup {<<m, a>>} /\ UNCHANGED dropped
       ELSE dropped' = dropped \cup {m} /\ UNCHANGED inflight
    /\ UNCHANGED <<mapVars, taskVars, inbox, sockVars, handled, refused, lost>>

-----------------------------------------------------------------------------
(* A RemoteStateActor. *)

\* Mutated form of HandleMessage: the inbox comes before the first messages.
HandleInboxFirst(a) ==
    /\ stage[a] = "running"
    /\ inbox[a] \o initial[a] # <<>>
    /\ handled' = Append(handled, Head(inbox[a] \o initial[a]))
    /\ IF inbox[a] # <<>>
       THEN inbox' = [inbox EXCEPT ![a] = Tail(@)] /\ UNCHANGED initial
       ELSE initial' = [initial EXCEPT ![a] = Tail(@)] /\ UNCHANGED inbox
    /\ conns' \in {conns, conns \cup {a}}
    /\ UNCHANGED <<mapVars, stage, owner, left, completions, inflight, sockVars, msgVars,
                   refused, dropped, lost>>

\* The messages it was started with come first, then the inbox; a message may
\* add a connection or ask for a remote to be resolved.
HandleMessage(a) ==
    /\ stage[a] = "running"
    /\ initial[a] \o inbox[a] # <<>>
    /\ handled' = Append(handled, Head(initial[a] \o inbox[a]))
    /\ IF initial[a] # <<>>
       THEN initial' = [initial EXCEPT ![a] = Tail(@)] /\ UNCHANGED inbox
       ELSE inbox' = [inbox EXCEPT ![a] = Tail(@)] /\ UNCHANGED initial
    /\ conns' \in {conns, conns \cup {a}}
    /\ UNCHANGED <<mapVars, stage, owner, left, completions, inflight, sockVars, msgVars,
                   refused, dropped, lost>>

\* The last connection closes and the last address lookup is answered.
ConnectionClose(a) ==
    /\ stage[a] = "running"
    /\ a \in conns
    /\ conns' = conns \ {a}
    /\ UNCHANGED <<mapVars, stage, owner, initial, left, completions, inbox, inflight,
                   sockVars, msgVars, fateVars>>

\* The idle timeout expires and is_idle holds, or the token is cancelled ...
Leave(a) ==
    /\ stage[a] = "running" /\ initial[a] = <<>>
    /\ (a \notin conns /\ inbox[a] = <<>>) \/ token = "cancelled"
    /\ stage' = [stage EXCEPT ![a] = "closing"]
    /\ UNCHANGED <<mapVars, owner, initial, conns, left, completions, inbox, inflight,
                   sockVars, msgVars, fateVars>>

\* ... then the inbox is closed ...
Close(a) ==
    /\ stage[a] = "closing"
    /\ stage' = [stage EXCEPT ![a] = "closed"]
    /\ UNCHANGED <<mapVars, owner, initial, conns, left, completions, inbox, inflight,
                   sockVars, msgVars, fateVars>>

\* Mutated form of Drain: what came in since the check is not looked for.
DrainNothing(a) ==
    /\ stage[a] = "closed"
    /\ stage' = [stage EXCEPT ![a] = "ended"]
    /\ inbox' = [inbox EXCEPT ![a] = <<>>]
    /\ UNCHANGED <<mapVars, owner, initial, conns, left, completions, inflight, sockVars,
                   msgVars, fateVars>>

\* ... the messages that are in it are pulled out ...
Drain(a) ==
    /\ stage[a] = "closed"
    /\ stage' = [stage EXCEPT ![a] = "ended"]
    /\ left' = [left EXCEPT ![a] = inbox[a]]
    /\ inbox' = [inbox EXCEPT ![a] = <<>>]
    /\ UNCHANGED <<mapVars, owner, initial, conns, completions, inflight, sockVars, msgVars,
                   fateVars>>

\* Mutated form of Complete: a task that leaves no messages says nothing.
CompleteLeft(a) ==
    /\ stage[a] = "ended" /\ left[a] # <<>>
    /\ stage' = [stage EXCEPT ![a] = "queued"]
    /\ completions' = Append(completions, a)
    /\ UNCHANGED <<mapVars, owner, initial, conns, left, inbox, inflight, sockVars, msgVars,
                   fateVars>>

\* ... and the task sends them off with its completion.
Complete(a) ==
    /\ stage[a] = "ended"
    /\ stage' = [stage EXCEPT ![a] = "queued"]
    /\ completions' = Append(completions, a)
    /\ UNCHANGED <<mapVars, owner, initial, conns, left, inbox, inflight, sockVars, msgVars,
                   fateVars>>

-----------------------------------------------------------------------------
MapNext ==
    \/ \E i \in Ids : SendToActor(i) \/ TrySendRemote(i)
    \/ Reserve
    \/ SendFails
    \/ \E a \in Actors : \E m \in Msgs : Push(m, a)
    \/ Cleanup
    \/ Join
    \/ CloseEndpoint
    \/ Stop
    \/ \E a \in Actors : \/ HandleMessage(a)
                         \/ ConnectionClose(a)
                         \/ Leave(a)
                         \/ Close(a)
                         \/ Drain(a)
                         \/ Complete(a)

\* Tasks are polled; nothing says that a connection is closed or that the idle
\* timer of an actor fires.
MapFairness ==
    /\ WF_remoteVars(Reserve \/ SendFails \/ Cleanup \/ Join \/ Stop)
    /\ \A a \in Actors :
          /\ WF_remoteVars(\E m \in Msgs : Push(m, a))
          /\ WF_remoteVars(\/ HandleMessage(a)
                           \/ token = "cancelled" /\ Leave(a)
                           \/ Close(a) \/ Drain(a) \/ Complete(a))

MapSpec == MapInit /\ [][MapNext]_remoteVars
FairMapSpec == MapSpec /\ MapFairness

-----------------------------------------------------------------------------
\* The map and the tasks agree: an actor whose task was not joined yet is the
\* one its remote's sender leads to, so that a remote never has two actors
\* and reaping an actor never takes the sender of its successor.
SenderCurrent ==
    \A a \in Actors :
        stage[a] \in Pending <=> \E i \in Ids : senders[i] = a /\ owner[a] = i

\* Every permit is free or held by one task that was not joined, and so the
\* completion queue, which has a place for every permit, never makes one wait.
ActorPermits ==
    /\ free + Cardinality({a \in Actors : stage[a] \in Pending}) = MaxActors
    /\ Len(completions) <= MaxActors

\* Where message m is, with a count for each place.
Count(s, m) == Cardinality({k \in 1..Len(s) : s[k] = m})
Copies(m) ==
    Count(handled, m)
    + Cardinality({a \in Actors : <<m, a>> \in inflight})
    + Cardinality({a \in Actors :
                     Count(inbox[a], m) + Count(initial[a], m) + Count(left[a], m) > 0})
    + (IF m \in refused \cup dropped \cup lost THEN 1 ELSE 0)
    + (IF m = cur /\ at \in {"send", "join"} THEN 1 ELSE 0)

\* A message is in exactly one place, from the moment it is sent, through the
\* end of an actor and its restart: it is never handled twice, and not lost
\* unless its slot was taken before the inbox was closed and filled after it
\* was drained.
Conserved ==
    \A m \in Msgs : Copies(m) = IF m <= issued THEN 1 ELSE 0

\* What the socket actor sends to a remote is handled in the order it was sent,
\* even when an actor ends in between and another takes over.
OrderKept ==
    \A j, k \in 1..Len(handled) :
        j < k /\ to[handled[j]] = to[handled[k]] /\ {handled[j], handled[k]} \cap tried = {}
            => handled[j] < handled[k]

\* A message that send_to_actor was called with is handled, or is refused or
\* dropped, unless the endpoint is closed.
Delivered ==
    []<>(\/ token = "cancelled"
         \/ (1..issued) \ tried \subseteq refused \cup dropped \cup lost \cup Range(handled))

\* When the endpoint is closed the socket actor stops, even if it was about to
\* send to an actor with a full inbox, or to one that ended at that moment and
\* whose completion it must wait for.
Stops == []<>(token = "cancelled" => at = "stopped")

\* "so we pull out all messages that are left over": no message that the
\* channel has accepted is dropped with it.
NoneLost == lost = {}

=============================================================================
