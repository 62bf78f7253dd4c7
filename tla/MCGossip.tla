------------------------------ MODULE MCGossip ------------------------------
(***************************************************************************)
(* Gossip, and downloads that its messages start: a swarm of three that    *)
(* forms, with one active slot per node, and one of four that has formed   *)
(* (HyParView), a broadcast tree over three peers that are all linked      *)
(* (PlumTree), and the content downloads of a docs peer (DocsContent);     *)
(* `part` says which of them moves.                                        *)
(***************************************************************************)
EXTENDS MCHyParView, PlumTree, DocsContent

CONSTANT X

Triangle == {{A, B}, {B, C}, {A, C}}

Narrow == INSTANCE HyParView WITH
    ActiveCap <- 1, SRWL <- 1, MaxJoins <- 2, MaxShuffles <- 0

VARIABLE part

gossipVars == <<vars, treeVars, contentVars, part>>

GossipInit ==
    /\ part \in {"forming", "swarm", "tree", "content"}
    /\ IF part = "forming" THEN Init ELSE Formed
    /\ TreeInit /\ ContentInit
    /\ part \in {"tree", "content"} => count.joins = 0
    /\ part # "tree" => changed = {} /\ \A n \in Members : tree[n].lazy = {}

\* The node D stays away, and the first join is one of A through B, as it is up to
\* the names of the nodes.
FormingStep(step) ==
    /\ part = "forming" /\ step
    /\ D \in joined' /\ \A n \in Nodes : net'.chan[n][D] = <<>> /\ net'.chan[D][n] = <<>>
    /\ count.joins = 0 /\ count'.joins = 1 => net'.chan[A][B] # <<>>
    /\ UNCHANGED <<treeVars, contentVars, part>>
SwarmStep(step) ==
    part = "swarm" /\ step /\ UNCHANGED <<treeVars, contentVars, part>>
\* The broadcast is one of A, as it is up to the names of the peers.
TreeStep(step) ==
    /\ part = "tree" /\ step
    /\ used'.broadcasts > used.broadcasts => tree'[A].received # {}
    /\ UNCHANGED <<vars, contentVars, part>>
ContentStep(step) ==
    part = "content" /\ step /\ UNCHANGED <<vars, treeVars, part>>

GossipNext ==
    \/ FormingStep(Narrow!Next)
    \/ SwarmStep(Next)
    \/ TreeStep(TreeNext)
    \/ ContentStep(ContentNext)

\* The fairness of the parts; as only one of them moves, the swarms and the tree
\* need one condition between them.
GossipFairness ==
    /\ WF_gossipVars(
        \/ FormingStep(\E n, p \in Nodes : Narrow!RecvMessage(n, p) \/ Narrow!PendingNeighborRequest(n, p))
        \/ SwarmStep(\E n, p \in Nodes : RecvMessage(n, p) \/ PendingNeighborRequest(n, p))
        \/ TreeStep(Progress))
    /\ \A h \in Hashes : /\ WF_gossipVars(ContentStep(DownloadEnds(h)))
                         /\ WF_gossipVars(ContentStep(OnDownloadReady(h)))

GossipSpec == GossipInit /\ [][GossipNext]_gossipVars /\ GossipFairness

=============================================================================
