------------------------------ MODULE MCSocket ------------------------------
(* The two actors that a socket runs beside its own: the relay actor (RelayHome) *)
(* or the remote map with one permit for two remotes (RemoteMap); `part` says    *)
(* which of them moves.                                                          *)
EXTENDS MCRelayHome

VARIABLES
    senders, stage, owner, rInbox, initial, conns, left, rCompletions, free, started,
    rAt, cur, token, inflight, issued, to, tried, handled, refused, dropped, lost,
    part

Map == INSTANCE RemoteMap WITH
    Ids <- MCUrls, NoId <- NONE, MaxActors <- 1, MaxMsgs <- 3, MaxTries <- 1,
    inbox <- rInbox, completions <- rCompletions, at <- rAt

remoteVars ==
    <<senders, stage, owner, rInbox, initial, conns, left, rCompletions, free, started,
      rAt, cur, token, inflight, issued, to, tried, handled, refused, dropped, lost>>
socketVars == <<vars, remoteVars, part>>

SocketInit == part \in {"relay", "map"} /\ Init /\ Map!MapInit

\* The first relay that is reported or sent to is A, and the first message is for
\* A, as it is up to the names of the two.
RelayStep(step) ==
    /\ part = "relay" /\ step
    /\ reported + sent = 0 => reports' # <<B>> /\ B \notin handles'
    /\ UNCHANGED <<remoteVars, part>>
MapStep(step) ==
    /\ part = "map" /\ step
    /\ issued = 0 => to'[1] # B
    /\ UNCHANGED <<vars, part>>

SocketNext == RelayStep(Next) \/ MapStep(Map!MapNext)

\* The fairness of the parts.
SocketFairness ==
    /\ WF_socketVars(RelayStep(NetworkChange)) /\ WF_socketVars(RelayStep(SetHome))
    /\ WF_socketVars(RelayStep(EnsureHome)) /\ WF_socketVars(RelayStep(RefuseHome))
    /\ WF_socketVars(RelayStep(Reap)) /\ WF_socketVars(RelayStep(Complete))
    /\ \A u \in Urls :
          /\ WF_socketVars(RelayStep(Tell(u)))
          /\ WF_socketVars(RelayStep(WriteStatus(u)))
          /\ WF_socketVars(RelayStep(RunOnce(u)))
          /\ SF_socketVars(RelayStep(SetHomeRelay(u)))
          /\ WF_socketVars(RelayStep(phase[u] = "connected" /\ Inactive(u)))
    /\ WF_socketVars(MapStep(Map!Reserve \/ Map!SendFails \/ Map!Cleanup \/ Map!Join \/ Map!Stop))
    /\ \A a \in Map!Actors :
          /\ WF_socketVars(MapStep(\E m \in Map!Msgs : Map!Push(m, a)))
          /\ WF_socketVars(MapStep(\/ Map!HandleMessage(a)
                                   \/ token = "cancelled" /\ Map!Leave(a)
                                   \/ Map!Close(a) \/ Map!Drain(a) \/ Map!Complete(a)))

\* A message handed to the remote map is handled, refused, dropped or lost with a
\* channel in the end, however actors end and restart under it, unless the endpoint
\* is closed.
Delivered == Map!Delivered

\* When the endpoint is closed the socket actor stops, even if it was about to
\* send to an actor with a full inbox or to one that ended at that moment.
Stops == Map!Stops

SocketSpec == SocketInit /\ [][SocketNext]_socketVars /\ SocketFairness
=============================================================================
