----------------------------- MODULE MCReplicas -----------------------------
(***************************************************************************)
(* Replicas that reconcile what was written to them apart: documents       *)
(* (MCDocs) and account histories (MCAccount).                             *)
(***************************************************************************)
EXTENDS MCDocs, MCAccount

replicaVars == <<docsVars, accountVars>>

ReplicasInit ==
    /\ part \in DocsParts \/ part = "account"
    /\ DocsInit /\ AccountInit
    /\ part # "account" => scenario = Scenario({"remove"}, {c1, c2}, {}, {}, 3, 4)

AccountStep(step) == part = "account" /\ step /\ UNCHANGED docsVars

ReplicasNext == AccountStep(AccountNext) \/ (DocsNext /\ UNCHANGED accountVars)

ReplicasSpec == ReplicasInit /\ [][ReplicasNext]_replicaVars

=============================================================================
