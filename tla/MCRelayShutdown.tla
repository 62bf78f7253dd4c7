--------------------------- MODULE MCRelayShutdown ---------------------------
(***************************************************************************)
(* One endpoint and its three connections, on a server that allows it      *)
(* three sessions and shuts down, or on one that allows it two; `limit`    *)
(* says which.                                                             *)
(***************************************************************************)
EXTENDS RelayClients, FiniteSets, TLC

CONSTANTS A, a1, a2, a3

VARIABLE limit

MCOwner == [c \in Conns |-> A]

Pair == INSTANCE RelayClients WITH MaxPerEndpoint <- 2, MaxShutdowns <- 0

mcVars == <<vars, limit>>
MCInit == limit \in {2, MaxPerEndpoint} /\ Init
MCNext == (IF limit = 2 THEN Pair!Next ELSE Next) /\ UNCHANGED limit
MCSpec == MCInit /\ [][MCNext]_mcVars /\ Fairness

=============================================================================
