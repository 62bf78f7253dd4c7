---------------------------- MODULE MCRemoteMap ----------------------------
(* Three remotes. *)
EXTENDS RemoteMap, TLC

CONSTANTS A, B, C, NONE

MCIds == {A, B, C}
MCSymmetry == Permutations(MCIds)

=============================================================================
