---------------------------- MODULE MCBlobStore ----------------------------
(* A small instance of BlobStore: a hash sequence A that lists B. *)
EXTENDS BlobStore, TLC

CONSTANTS A, B, t1

MCChildren == [h \in Blobs |-> IF h = A THEN {B} ELSE {}]
MCTagged == [n \in Names |-> IF n = t1 THEN [hash |-> A, format |-> "raw"] ELSE NoRoot]
MCClients == Permutations(Clients)

\* A crash before anything has happened leaves the store as it was opened.
MCStoreNext == StoreNext /\ (count.ops + count.runs = 0 => count'.crashes = 0)
MCStoreSpec == StoreInit /\ [][MCStoreNext]_storeVars
=============================================================================
