---------------------------- MODULE DocsContent ----------------------------
(***************************************************************************)
(* The contents of synced entries at one live actor: which hashes are      *)
(* wanted, which are queued in the downloader and for which documents, and *)
(* when a document is told that its pending content is ready.              *)
(*                                                                         *)
(* A download ends in its own task; the actor learns of it when it joins   *)
(* the task, and may handle other events in between.                       *)
(***************************************************************************)
EXTENDS Integers, FiniteSets

CONSTANTS
    Docs, Hashes,
    MaxHashes,      \* MAX_PENDING_CONTENT_HASHES
    MaxPerDoc,      \* MAX_PENDING_CONTENT_HASHES_PER_DOCUMENT
    MaxEvents       \* bound: the entries and announcements that come in

VARIABLES
    complete,   \* the hashes whose content is in the blob store
    missing,    \* missing_hashes
    providers,  \* the hashes with an entry in hash_providers
    byHash,     \* QueuedHashes::by_hash, {} for no entry
    byDoc,      \* QueuedHashes::by_namespace, {} for no entry
    tasks,      \* download_tasks: for each hash, the document it is for and how it ended
    active,     \* the documents that sync
    mayEmit,    \* the documents with may_emit_ready
    events      \* how many events have come in

contentVars ==
    <<complete, missing, providers, byHash, byDoc, tasks, active, mayEmit, events>>

NoTask == [doc |-> "none", res |-> "none"]

ContentInit ==
    /\ complete = {} /\ missing = {} /\ providers = {}
    /\ byHash = [h \in Hashes |-> {}]
    /\ byDoc = [d \in Docs |-> {}]
    /\ tasks = [h \in Hashes |-> NoTask]
    /\ active = Docs
    /\ mayEmit = {}
    /\ events = 0

-----------------------------------------------------------------------------
(* QueuedHashes. *)

QueuedHashes == {h \in Hashes : byHash[h] # {}}

CanQueue(h, d) ==
    \/ h \in byDoc[d]
    \/ /\ h \in QueuedHashes \/ Cardinality(QueuedHashes) < MaxHashes
       /\ Cardinality(byDoc[d]) < MaxPerDoc

Queue(h, d) ==
    /\ byHash' = [byHash EXCEPT ![h] = @ \cup {d}]
    /\ byDoc' = [byDoc EXCEPT ![d] = @ \cup {h}]

\* The documents that have no queued hash left without h.
Completed(h) == {d \in byHash[h] : byDoc[d] \subseteq {h}}

\* Mutated form of RemoveHash: the hash is removed for one document only.
RemoveHashOfOne(h) ==
    /\ byHash' = [byHash EXCEPT ![h] = {}]
    /\ byDoc' = [byDoc EXCEPT ![tasks[h].doc] = @ \ {h}]

RemoveHash(h) ==
    /\ byHash' = [byHash EXCEPT ![h] = {}]
    /\ byDoc' = [d \in Docs |-> IF d \in byHash[h] THEN byDoc[d] \ {h} ELSE byDoc[d]]

-----------------------------------------------------------------------------
(* The handlers of the actor. *)

InsertMissingHash(h) ==
    missing' = IF h \in missing \/ Cardinality(missing) < MaxHashes
               THEN missing \cup {h} ELSE missing

\* start_download
StartDownload(d, h, only_if_missing) ==
    IF h \in complete
    THEN /\ missing' = missing \ {h}
         /\ UNCHANGED <<providers, byHash, byDoc, tasks>>
    ELSE IF h \notin providers /\ Cardinality(providers) >= MaxHashes
    THEN UNCHANGED <<missing, providers, byHash, byDoc, tasks>>
    ELSE /\ providers' = providers \cup {h}
         /\ IF h \in QueuedHashes
            THEN /\ IF CanQueue(h, d) THEN Queue(h, d) ELSE UNCHANGED <<byHash, byDoc>>
                 /\ UNCHANGED <<missing, tasks>>
            ELSE IF (only_if_missing => h \in missing) /\ CanQueue(h, d)
            THEN /\ Queue(h, d)
                 /\ missing' = missing \ {h}
                 /\ tasks' = [tasks EXCEPT ![h] = [doc |-> d, res |-> "running"]]
            ELSE UNCHANGED <<missing, byHash, byDoc, tasks>>

Happens == events < MaxEvents /\ events' = events + 1

\* on_replica_event: an entry came from a peer that has its content, or not.
RemoteInsert(d, h, has) ==
    /\ Happens
    /\ IF has THEN StartDownload(d, h, FALSE)
       ELSE InsertMissingHash(h) /\ UNCHANGED <<providers, byHash, byDoc, tasks>>
    /\ UNCHANGED <<complete, active, mayEmit>>

\* on_neighbor_content_ready
NeighborContentReady(d, h) ==
    /\ Happens
    /\ StartDownload(d, h, TRUE)
    /\ UNCHANGED <<complete, active, mayEmit>>

\* External: the downloader succeeds or gives up.
DownloadEnds(h) ==
    /\ tasks[h].res = "running"
    /\ \/ tasks' = [tasks EXCEPT ![h].res = "ok"] /\ complete' = complete \cup {h}
       \/ tasks' = [tasks EXCEPT ![h].res = "err"] /\ UNCHANGED complete
    /\ UNCHANGED <<missing, providers, byHash, byDoc, active, mayEmit, events>>

\* Mutated form of OnDownloadReady: a download that failed is not handled.
OnDownloadReadyOk(h) ==
    /\ tasks[h].res = "ok"
    /\ tasks' = [tasks EXCEPT ![h] = NoTask]
    /\ RemoveHash(h)
    /\ mayEmit' = mayEmit \ Completed(h)
    /\ UNCHANGED <<complete, missing, providers, active, events>>

\* on_download_ready; PendingContentReady is sent for the documents that are
\* completed by it and may have it.
OnDownloadReady(h) ==
    /\ tasks[h].res \in {"ok", "err"}
    /\ tasks' = [tasks EXCEPT ![h] = NoTask]
    /\ RemoveHash(h)
    /\ IF tasks[h].res = "ok" THEN UNCHANGED missing ELSE InsertMissingHash(h)
    /\ mayEmit' = mayEmit \ Completed(h)
    /\ UNCHANGED <<complete, providers, active, events>>

\* Mutated form of SyncFinished: the document may always be told later.
SyncFinishedLater(d) ==
    /\ d \in active
    /\ mayEmit' = mayEmit \cup {d}
    /\ UNCHANGED <<complete, missing, providers, byHash, byDoc, tasks, active, events>>

\* The end of on_sync_finished: PendingContentReady is sent at once if nothing
\* is pending.
SyncFinished(d) ==
    /\ d \in active
    /\ mayEmit' = IF byDoc[d] # {} THEN mayEmit \cup {d} ELSE mayEmit \ {d}
    /\ UNCHANGED <<complete, missing, providers, byHash, byDoc, tasks, active, events>>

\* leave, and start_sync of a document that does not sync
LeaveDoc(d) ==
    /\ Happens
    /\ d \in active
    /\ active' = active \ {d}
    /\ mayEmit' = mayEmit \ {d}
    /\ UNCHANGED <<complete, missing, providers, byHash, byDoc, tasks>>

StartDoc(d) ==
    /\ d \notin active
    /\ active' = active \cup {d}
    /\ UNCHANGED <<complete, missing, providers, byHash, byDoc, tasks, mayEmit, events>>

ContentNext ==
    \/ \E d \in Docs, h \in Hashes, has \in BOOLEAN : RemoteInsert(d, h, has)
    \/ \E d \in Docs, h \in Hashes : NeighborContentReady(d, h)
    \/ \E h \in Hashes : DownloadEnds(h)
    \/ \E h \in Hashes : OnDownloadReady(h)
    \/ \E d \in Docs : SyncFinished(d)
    \/ \E d \in Docs : LeaveDoc(d)
    \/ \E d \in Docs : StartDoc(d)

ContentSpec == ContentInit /\ [][ContentNext]_contentVars

\* Downloads end and their tasks are joined.
ContentFairness ==
    \A h \in Hashes : WF_contentVars(DownloadEnds(h)) /\ WF_contentVars(OnDownloadReady(h))

-----------------------------------------------------------------------------
(* Properties. *)

\* The two maps of QueuedHashes say the same, and a hash is queued as long as
\* its one download task runs or waits to be joined.
QueuesAgree ==
    \A h \in Hashes :
        /\ \A d \in Docs : d \in byHash[h] <=> h \in byDoc[d]
        /\ byHash[h] # {} <=> tasks[h] # NoTask
        /\ tasks[h] # NoTask => tasks[h].doc \in byHash[h]

\* A document that waits for PendingContentReady has a download whose end will
\* bring it (on_sync_finished, on_download_ready, may_emit_ready).
ReadyPending == \A d \in mayEmit : d \in active /\ byDoc[d] # {}

\* Once events stop coming in, every document that waits is told.
ReadyAnnounced == \A d \in Docs : []<>(d \notin mayEmit)

=============================================================================
