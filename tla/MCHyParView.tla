---------------------------- MODULE MCHyParView ----------------------------
(* Instances of HyParView: a swarm that forms, and one that has formed. *)
EXTENDS HyParView, TLC

CONSTANTS A, B, C, D

Symmetry == Permutations(Nodes)

(***************************************************************************)
(* Two joins among A, B and C, with all messages read, leave them active   *)
(* peers of each other; the joining side of each handshake still has the   *)
(* request pending.  The node D knows nobody.  What follows is either a    *)
(* join or a loss and a quit: the bounds of the others are used up.         *)
(***************************************************************************)
Formed ==
    LET swarm == {A, B, C}
        others(n) == IF n \in swarm THEN swarm \ {n} ELSE {}
        asked(n) == CASE n = A -> {B, C} [] n = B -> {C} [] OTHER -> {} IN
    /\ node = [n \in Nodes |-> [Fresh EXCEPT !.active = others(n), !.pending = asked(n)]]
    /\ joined = Nodes
    /\ neighbors = [n \in Nodes |-> others(n)]
    /\ net = [chan |-> [n \in Nodes |-> [p \in Nodes |-> <<>>]],
              entry |-> {e \in swarm \X swarm : e[1] # e[2]},
              broken |-> {}, closing |-> {}]
    /\ timers = {}
    /\ count \in {[joins |-> 0, shuffles |-> 0, losses |-> MaxLosses, quits |-> MaxQuits],
                  [joins |-> MaxJoins, shuffles |-> 0, losses |-> 0, quits |-> 0]}

=============================================================================
