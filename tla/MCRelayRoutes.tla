---------------------------- MODULE MCRelayRoutes ----------------------------
(***************************************************************************)
(* Two registries of actors that come and go: the relay server's, for two  *)
(* endpoints one of which reconnects, with the routes the clients learn    *)
(* from it (RelayRoutes), and the remote map of an endpoint with two       *)
(* remotes (RemoteMap); `part` says which of them moves.                   *)
(***************************************************************************)
EXTENDS RelayRoutes, RemoteMap, TLC

CONSTANTS A, B, a1, a2, a3, b1, r1, r2, NONE

MCEndpoints == {A, B}
MCConns == {a1, a2, a3, b1}
MCRemotes == {r1, r2}
MCOwner == (a1 :> A) @@ (a2 :> A) @@ (a3 :> A) @@ (b1 :> B)
MCSymmetry == Permutations({a1, a2, a3}) \cup Permutations(MCRemotes)

VARIABLE part

serverVars == <<vars, routeVars>>

MCInit == part \in {"server", "map"} /\ RInit /\ MapInit

\* The endpoints send to each other, and not to themselves.
RoutesStep(step) ==
    /\ part = "server" /\ step
    /\ \A e \in Endpoints : e \notin sentTo'[e]
    /\ UNCHANGED <<remoteVars, part>>
MapStep(step) == part = "map" /\ step /\ UNCHANGED <<serverVars, part>>

MCNext == RoutesStep(RNext) \/ MapStep(MapNext)

MCSpec == MCInit /\ [][MCNext]_<<serverVars, remoteVars, part>>

=============================================================================
