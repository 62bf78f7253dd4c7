----------------------------- MODULE MCRelayHome -----------------------------
(* Two relays. *)
EXTENDS RelayHome, TLC

CONSTANTS A, B, NONE

MCUrls == {A, B}
MCSymmetry == Permutations(MCUrls)

=============================================================================
