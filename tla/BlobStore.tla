----------------------------- MODULE BlobStore -----------------------------
(***************************************************************************)
(* The file store of krikos-blobs and its garbage collection: the metadata *)
(* actor with its command queue and write transactions, the delete set and *)
(* the data files, the entities of the hashes, clients that import,        *)
(* download, observe and tag blobs, temp tags, the gc task, and crashes.   *)
(*                                                                         *)
(* Data and outboard of a blob are one file here.  A root is a hash with a *)
(* format: "raw" protects the blob, "seq" the blob and its children.       *)
(***************************************************************************)
EXTENDS Integers, Sequences, FiniteSets

CONSTANTS
    Blobs,          \* hashes
    Small,          \* the hashes whose data is inlined in the database
    Children,       \* for each hash, the hashes its content lists as a hash sequence
    Names,          \* names of tags
    Stored, Tagged, \* the complete blobs and the tags of the store when it is opened
    Clients,
    MaxOps, MaxRuns, MaxCrashes   \* bounds: client operations, gc runs, crashes

NoRoot == [hash |-> "none", format |-> "none"]
\* only content that lists children is given the format of a hash sequence
Roots == {root \in [hash : Blobs, format : {"raw", "seq"}] :
             root.format = "seq" => Children[root.hash] # {}}

ASSUME StoreAssumption ==
    /\ Children \in [Blobs -> SUBSET Blobs] /\ Stored \subseteq Blobs
    /\ Tagged \in [Names -> Roots \cup {NoRoot}]
    /\ Names \cap Clients = {} /\ "none" \notin Blobs \cup Clients

VARIABLES
    db,         \* the entry of each hash: none, partial, inline or owned
    tags,       \* the root of each tag name, or NoRoot
    saved,      \* [db, tags] as of the last commit
    txn,        \* none, open, or committed (files not deleted yet)
    marked,     \* the delete set
    file,       \* the data file of each hash: none, partial or full
    protected,  \* the protected set of the metadata actor
    cmds,       \* the command queue of the metadata actor
    handle,     \* BaoFileStorage of the entity of each hash
    got,        \* what the entity has loaded from the database
    temp,       \* the temp tag that each client holds, or NoRoot
    client,     \* [pc, op, hash] of each client
    gc,         \* [pc, roots, live, todo] of the gc task
    raced,      \* the hashes deleted while their entity was in use
    steady,     \* the names and clients whose roots stand since the gc run began
    count       \* how often each bounded thing has happened

storeVars == <<db, tags, saved, txn, marked, file, protected, cmds, handle, got,
               temp, client, gc, raced, steady, count>>

Complete == {"inline", "owned"}
CompleteAs(h) == IF h \in Small THEN "inline" ELSE "owned"
Resting == [pc |-> "idle", op |-> "none", hash |-> "none"]
NoGc == [pc |-> "idle", roots |-> {}, live |-> {}, todo |-> {}]
Holds(hd) == IF hd \in Names THEN tags[hd] ELSE temp[hd]

\* A store that was shut down with complete blobs, some of them tagged.
StoreInit ==
    /\ db = [h \in Blobs |-> IF h \in Stored THEN CompleteAs(h) ELSE "none"]
    /\ file = [h \in Blobs |-> IF db[h] = "owned" THEN "full" ELSE "none"]
    /\ tags = Tagged
    /\ saved = [db |-> db, tags |-> tags]
    /\ txn = "none" /\ marked = {} /\ protected = {} /\ cmds = <<>>
    /\ handle = [h \in Blobs |-> "initial"]
    /\ got = [h \in Blobs |-> "none"]
    /\ temp = [c \in Clients |-> NoRoot]
    /\ client = [c \in Clients |-> Resting]
    /\ gc = NoGc
    /\ raced = {} /\ steady = {}
    /\ count = [ops |-> 0, runs |-> 0, crashes |-> 0]

Send(cmd) == cmds' = Append(cmds, cmd)
UpdatePending(h) == \E i \in 1..Len(cmds) : cmds[i].op = "Update" /\ cmds[i].hash = h

-----------------------------------------------------------------------------
(* The metadata actor handles one command.  Commands that write open a      *)
(* transaction; Snapshot and SyncDb are handled outside of one.             *)

\* EntryState::union for entries of the same hash
Union(old, new) ==
    IF new = "partial" /\ old # "none" THEN old
    ELSE IF old = "owned" THEN old ELSE new

\* Mutated form of HandleUpdate: what is written is not protected.
HandleUpdateUnprotected(cmd) ==
    /\ db' = [db EXCEPT ![cmd.hash] = Union(@, cmd.state)]
    /\ txn' = "open"
    /\ client' = [c \in Clients |-> IF c = cmd.by THEN [client[c] EXCEPT !.pc = "held"]
                                    ELSE client[c]]
    /\ UNCHANGED <<tags, marked, protected, handle, gc, raced, steady>>

\* handle_update
HandleUpdate(cmd) ==
    /\ protected' = protected \cup {cmd.hash}
    /\ db' = [db EXCEPT ![cmd.hash] = Union(@, cmd.state)]
    /\ txn' = "open"
    /\ client' = [c \in Clients |-> IF c = cmd.by THEN [client[c] EXCEPT !.pc = "held"]
                                    ELSE client[c]]
    /\ UNCHANGED <<tags, marked, handle, gc, raced, steady>>

\* handle_set, for a partial file that turns out to be complete when loaded
HandleSet(cmd) ==
    /\ protected' = protected \cup {cmd.hash}
    /\ db' = [db EXCEPT ![cmd.hash] = cmd.state]
    /\ handle' = [handle EXCEPT ![cmd.hash] = "complete"]
    /\ txn' = "open"
    /\ UNCHANGED <<tags, marked, client, gc, raced, steady>>

\* handle_get
HandleGet(cmd) ==
    /\ handle' = [handle EXCEPT ![cmd.hash] = "opening"]
    /\ got' = [got EXCEPT ![cmd.hash] = db[cmd.hash]]
    /\ UNCHANGED <<db, tags, txn, marked, protected, client, gc, raced, steady>>

\* delete; what is deleted while something is done with it is noted
HandleDelete(cmd) ==
    LET gone == {h \in cmd.hashes \ protected : db[h] # "none"} IN
    /\ db' = [h \in Blobs |-> IF h \in gone THEN "none" ELSE db[h]]
    /\ marked' = marked \cup {h \in gone : db[h] \in {"owned", "partial"}}
    /\ raced' = raced \cup {h \in gone : handle[h] # "initial" \/ UpdatePending(h)}
    /\ gc' = [gc EXCEPT !.pc = "deleted"]
    /\ txn' = "open"
    /\ UNCHANGED <<tags, protected, handle, client, steady>>

\* set_tag and create_tag, for a client; delete_tags
HandleSetTag(cmd) ==
    /\ tags' = [tags EXCEPT ![cmd.name] = cmd.root]
    /\ client' = [client EXCEPT ![cmd.by].pc = IF cmd.root = NoRoot THEN "idle" ELSE "tagged"]
    /\ steady' = steady \ {cmd.name}
    /\ txn' = "open"
    /\ UNCHANGED <<db, marked, protected, handle, gc, raced>>

\* rename_tag; a root that is renamed stands as before
HandleRenameTag(cmd) ==
    /\ tags' = IF tags[cmd.name] = NoRoot THEN tags
               ELSE [tags EXCEPT ![cmd.name] = NoRoot, ![cmd.new] = tags[cmd.name]]
    /\ steady' = IF cmd.name \in steady THEN (steady \ {cmd.name}) \cup {cmd.new}
                 ELSE IF tags[cmd.name] = NoRoot THEN steady ELSE steady \ {cmd.new}
    /\ client' = [client EXCEPT ![cmd.by].pc = "idle"]
    /\ txn' = "open"
    /\ UNCHANGED <<db, marked, protected, handle, gc, raced>>

HandleClearProtected(cmd) ==
    /\ protected' = {}
    /\ gc' = [gc EXCEPT !.pc = "cleared"]
    /\ UNCHANGED <<db, tags, txn, marked, handle, client, raced, steady>>

HandleListTags(cmd) ==
    /\ gc' = [gc EXCEPT !.pc = "tags", !.roots = {tags[n] : n \in Names} \ {NoRoot}]
    /\ UNCHANGED <<db, tags, txn, marked, protected, handle, client, raced, steady>>

\* Snapshot and list_blobs; SyncDb
HandleSnapshot(cmd) ==
    /\ txn = "none"
    /\ gc' = [gc EXCEPT !.pc = "sweep", !.todo = {h \in Blobs : db[h] # "none"}]
    /\ UNCHANGED <<db, tags, txn, marked, protected, handle, client, raced, steady>>

HandleSyncDb(cmd) ==
    /\ txn = "none"
    /\ gc' = NoGc
    /\ UNCHANGED <<db, tags, txn, marked, protected, handle, client, raced, steady>>

HandleCommand ==
    LET cmd == Head(cmds) IN
    /\ cmds # <<>> /\ txn # "committed"
    /\ cmds' = Tail(cmds)
    /\ \/ cmd.op = "Update" /\ HandleUpdate(cmd) /\ UNCHANGED got
       \/ cmd.op = "Set" /\ HandleSet(cmd) /\ UNCHANGED got
       \/ cmd.op = "Get" /\ HandleGet(cmd)
       \/ cmd.op = "Delete" /\ HandleDelete(cmd) /\ UNCHANGED got
       \/ cmd.op = "SetTag" /\ HandleSetTag(cmd) /\ UNCHANGED got
       \/ cmd.op = "RenameTag" /\ HandleRenameTag(cmd) /\ UNCHANGED got
       \/ cmd.op = "ClearProtected" /\ HandleClearProtected(cmd) /\ UNCHANGED got
       \/ cmd.op = "ListTags" /\ HandleListTags(cmd) /\ UNCHANGED got
       \/ cmd.op = "Snapshot" /\ HandleSnapshot(cmd) /\ UNCHANGED got
       \/ cmd.op = "SyncDb" /\ HandleSyncDb(cmd) /\ UNCHANGED got
    /\ UNCHANGED <<saved, file, temp, count>>

\* The transaction is committed when its time is up, its batch is full, or the
\* next command is not for a transaction.
CommitTxn ==
    /\ txn = "open"
    /\ txn' = "committed"
    /\ saved' = [db |-> db, tags |-> tags]
    /\ UNCHANGED <<db, tags, marked, file, protected, cmds, handle, got, temp, client, gc,
                   raced, steady, count>>

\* FileTransaction::commit
DeleteFiles ==
    /\ txn = "committed"
    /\ txn' = "none"
    /\ file' = [h \in Blobs |-> IF h \in marked THEN "none" ELSE file[h]]
    /\ marked' = {}
    /\ UNCHANGED <<db, tags, saved, protected, cmds, handle, got, temp, client, gc, raced,
                   steady, count>>

-----------------------------------------------------------------------------
(* The entity of a hash. *)

InUse(h) ==
    \/ \E c \in Clients : client[c].hash = h /\ client[c].pc \in {"load", "moved", "updating", "observing"}
    \/ gc.pc = "reading" /\ gc.todo = {h}
Loaded(h) == handle[h] \in {"absent", "partial", "sized", "complete", "poisoned"}

\* load: the first of its users asks the database.
Load(h) ==
    /\ handle[h] = "initial" /\ InUse(h)
    /\ handle' = [handle EXCEPT ![h] = "loading"]
    /\ Send([op |-> "Get", hash |-> h])
    /\ UNCHANGED <<db, tags, saved, txn, marked, file, protected, got, temp, client, gc,
                   raced, steady, count>>

\* BaoFileStorage::open.  The files of a partial entry are created if they are
\* missing; when all of its data is there, it may be recognised as complete.
Open(h) ==
    /\ handle[h] = "opening"
    /\ \/ /\ got[h] = "none"
          /\ handle' = [handle EXCEPT ![h] = "absent"]
          /\ UNCHANGED <<cmds, file>>
       \/ /\ got[h] \in Complete
          /\ handle' = [handle EXCEPT ![h] = IF got[h] = "owned" /\ file[h] = "none"
                                             THEN "poisoned" ELSE "complete"]
          /\ UNCHANGED <<cmds, file>>
       \/ /\ got[h] = "partial"
          /\ handle' = [handle EXCEPT ![h] = "partial"]
          /\ file' = [file EXCEPT ![h] = IF @ = "none" THEN "partial" ELSE @]
          /\ UNCHANGED cmds
       \/ /\ got[h] = "partial" /\ file[h] = "full"
          /\ handle' = [handle EXCEPT ![h] = "setting"]
          /\ Send([op |-> "Set", hash |-> h, state |-> CompleteAs(h)])
          /\ UNCHANGED file
    /\ got' = [got EXCEPT ![h] = "none"]
    /\ UNCHANGED <<db, tags, saved, txn, marked, protected, temp, client, gc, raced,
                   steady, count>>

\* on_shutdown and reset: nobody uses the entity any more.
Recycle(h) ==
    /\ Loaded(h) /\ ~InUse(h)
    /\ handle' = [handle EXCEPT ![h] = "initial"]
    /\ raced' = IF db[h] = "none" /\ saved.db[h] = "none" /\ ~UpdatePending(h)
                THEN raced \ {h} ELSE raced
    /\ UNCHANGED <<db, tags, saved, txn, marked, file, protected, cmds, got, temp, client,
                   gc, steady, count>>

-----------------------------------------------------------------------------
(* Clients. *)

metaRest == <<db, tags, saved, txn, protected, got, gc, raced>>

Begins(c) ==
    /\ client[c].pc = "idle"
    /\ count.ops < MaxOps
    /\ count' = [count EXCEPT !.ops = @ + 1]

\* An import whose data is ready, a download that holds a temp tag, an observer.
BeginImport(c) ==
    /\ Begins(c)
    /\ \E root \in Roots :
          /\ temp' = [temp EXCEPT ![c] = root]
          /\ client' = [client EXCEPT ![c] = [pc |-> "load", op |-> "import", hash |-> root.hash]]
    /\ UNCHANGED <<metaRest, marked, file, cmds, handle, steady>>

BeginDownload(c) ==
    /\ Begins(c)
    /\ \E h \in Blobs :
          /\ temp' = [temp EXCEPT ![c] = [hash |-> h, format |-> "raw"]]
          /\ client' = [client EXCEPT ![c] = [pc |-> "load", op |-> "download", hash |-> h]]
    /\ UNCHANGED <<metaRest, marked, file, cmds, handle, steady>>

BeginObserve(c) ==
    /\ Begins(c)
    /\ \E h \in Blobs :
          client' = [client EXCEPT ![c] = [pc |-> "observing", op |-> "observe", hash |-> h]]
    /\ UNCHANGED <<metaRest, marked, file, cmds, handle, temp, steady>>

EndObserve(c) ==
    /\ client[c].pc = "observing" /\ Loaded(client[c].hash)
    /\ client' = [client EXCEPT ![c] = Resting]
    /\ UNCHANGED <<metaRest, marked, file, cmds, handle, temp, steady, count>>

\* Mutated form of MoveImported: the file is not taken out of the delete set.
MoveImportedMarked(c) ==
    LET h == client[c].hash IN
    /\ client[c].pc = "load" /\ client[c].op = "import" /\ Loaded(h)
    /\ file' = [file EXCEPT ![h] = IF h \in Small THEN @ ELSE "full"]
    /\ client' = [client EXCEPT ![c].pc = "moved"]
    /\ UNCHANGED <<metaRest, marked, cmds, handle, temp, steady, count>>

\* finish_import_impl protects the files and moves the data to its place,
MoveImported(c) ==
    LET h == client[c].hash IN
    /\ client[c].pc = "load" /\ client[c].op = "import" /\ Loaded(h)
    /\ marked' = marked \ {h}
    /\ file' = [file EXCEPT ![h] = IF h \in Small THEN @ ELSE "full"]
    /\ client' = [client EXCEPT ![c].pc = "moved"]
    /\ UNCHANGED <<metaRest, cmds, handle, temp, steady, count>>

\* then opens it, completes the handle and updates the database.
CompleteImport(c) ==
    LET h == client[c].hash IN
    /\ client[c].pc = "moved"
    /\ IF h \notin Small /\ file[h] = "none"
       THEN /\ client' = [client EXCEPT ![c] = Resting]
            /\ temp' = [temp EXCEPT ![c] = NoRoot]
            /\ steady' = steady \ {c}
            /\ UNCHANGED <<cmds, handle>>
       ELSE /\ handle' = [handle EXCEPT ![h] = IF @ = "poisoned" THEN @ ELSE "complete"]
            /\ Send([op |-> "Update", hash |-> h, state |-> CompleteAs(h), by |-> c])
            /\ client' = [client EXCEPT ![c].pc = "updating"]
            /\ UNCHANGED <<temp, steady>>
    /\ UNCHANGED <<metaRest, marked, file, count>>

\* write_batch.  A file that was deleted while the handle is open stays deleted.
\* The database is told of the first batch, of the size once it is validated
\* ("sized"), and of the last batch.
WriteBatch(c) ==
    LET h == client[c].hash IN
    /\ client[c].pc = "load" /\ client[c].op = "download" /\ Loaded(h)
    /\ \E all, validated \in BOOLEAN :
          LET first == handle[h] = "absent"
              inMemory == first /\ h \in Small /\ all
              written == IF all THEN "full" ELSE "partial" IN
          /\ client' = [client EXCEPT ![c].pc = IF all THEN "got" ELSE @]
          /\ \/ /\ handle[h] \in {"complete", "poisoned"}
                /\ UNCHANGED <<handle, marked, file, cmds>>
             \/ /\ handle[h] \in {"absent", "partial", "sized"}
                /\ handle' = [handle EXCEPT ![h] = IF all THEN "complete"
                                                   ELSE IF validated THEN "sized"
                                                   ELSE IF first THEN "partial" ELSE @]
                /\ marked' = IF first /\ ~inMemory THEN marked \ {h} ELSE marked
                /\ file' = IF inMemory \/ file[h] = "full" \/ (~first /\ file[h] = "none")
                           THEN file ELSE [file EXCEPT ![h] = written]
                /\ IF all \/ first \/ (validated /\ handle[h] = "partial")
                   THEN Send([op |-> "Update", hash |-> h, by |-> "none",
                              state |-> IF all THEN CompleteAs(h) ELSE "partial"])
                   ELSE UNCHANGED cmds
    /\ UNCHANGED <<metaRest, temp, steady, count>>

\* The download stops before the blob is complete.
AbortDownload(c) ==
    /\ client[c].pc = "load" /\ client[c].op = "download" /\ Loaded(client[c].hash)
    /\ client' = [client EXCEPT ![c].pc = "got"]
    /\ UNCHANGED <<metaRest, marked, file, cmds, handle, temp, steady, count>>

\* with_named_tag: the temp tag is dropped when the tag is set.
SetTag(c) ==
    /\ client[c].pc = "held"
    /\ \E n \in Names : Send([op |-> "SetTag", name |-> n, root |-> temp[c], by |-> c])
    /\ client' = [client EXCEPT ![c].pc = "tagging"]
    /\ UNCHANGED <<metaRest, marked, file, handle, temp, steady, count>>

DropTempTag(c) ==
    /\ client[c].pc \in {"held", "tagged", "got"}
    /\ temp' = [temp EXCEPT ![c] = NoRoot]
    /\ client' = [client EXCEPT ![c] = Resting]
    /\ steady' = steady \ {c}
    /\ UNCHANGED <<metaRest, marked, file, cmds, handle, count>>

DeleteTag(c) ==
    /\ Begins(c)
    /\ \E n \in Names : Send([op |-> "SetTag", name |-> n, root |-> NoRoot, by |-> c])
    /\ client' = [client EXCEPT ![c].pc = "tagging"]
    /\ UNCHANGED <<metaRest, marked, file, handle, temp, steady>>

RenameTag(c) ==
    /\ Begins(c)
    /\ \E n, m \in Names : Send([op |-> "RenameTag", name |-> n, new |-> m, by |-> c])
    /\ client' = [client EXCEPT ![c].pc = "tagging"]
    /\ UNCHANGED <<metaRest, marked, file, handle, temp, steady>>

-----------------------------------------------------------------------------
(* The gc task. *)

gcRest == <<db, tags, saved, txn, marked, file, protected, handle, got, temp, client, raced>>

GcStart ==
    /\ gc.pc = "idle" /\ count.runs < MaxRuns
    /\ count' = [count EXCEPT !.runs = @ + 1]
    /\ steady' = {hd \in Names \cup Clients : Holds(hd) # NoRoot}
    /\ gc' = [gc EXCEPT !.pc = "clearing"]
    /\ Send([op |-> "ClearProtected"])
    /\ UNCHANGED gcRest

\* gc_mark_task lists the tags, then the temp tags,
GcListTags ==
    /\ gc.pc = "cleared"
    /\ gc' = [gc EXCEPT !.pc = "listing"]
    /\ Send([op |-> "ListTags"])
    /\ UNCHANGED <<gcRest, steady, count>>

\* Mutated form of GcListTempTags: the temp tags are left out.
GcListNoTempTags ==
    /\ gc.pc = "tags"
    /\ gc' = [gc EXCEPT !.pc = "mark"]
    /\ UNCHANGED <<gcRest, cmds, steady, count>>

GcListTempTags ==
    /\ gc.pc = "tags"
    /\ gc' = [gc EXCEPT !.pc = "mark", !.roots = @ \cup ({temp[c] : c \in Clients} \ {NoRoot})]
    /\ UNCHANGED <<gcRest, cmds, steady, count>>

\* and marks the roots, in the order of a hash set; it reads the content of a
\* hash sequence only if the hash was not live before.
GcMark ==
    /\ gc.pc = "mark"
    /\ \E root \in gc.roots :
          LET next == [gc EXCEPT !.roots = @ \ {root}, !.live = @ \cup {root.hash}] IN
          gc' = IF root.hash \notin gc.live /\ root.format = "seq"
                THEN [next EXCEPT !.pc = "reading", !.todo = {root.hash}] ELSE next
    /\ UNCHANGED <<gcRest, cmds, steady, count>>

GcReadChildren ==
    /\ gc.pc = "reading"
    /\ \E h \in gc.todo :
          /\ Loaded(h)
          /\ gc' = [gc EXCEPT !.pc = "mark", !.todo = {},
                              !.live = IF handle[h] = "complete" THEN @ \cup Children[h] ELSE @]
    /\ UNCHANGED <<gcRest, cmds, steady, count>>

\* gc_sweep_task lists the blobs, deletes those that are not live, and syncs.
GcList ==
    /\ gc.pc = "mark" /\ gc.roots = {}
    /\ gc' = [gc EXCEPT !.pc = "snapshot"]
    /\ Send([op |-> "Snapshot"])
    /\ UNCHANGED <<gcRest, steady, count>>

GcSweep ==
    /\ gc.pc = "sweep" /\ gc.todo \ gc.live # {}
    /\ gc' = [gc EXCEPT !.pc = "deleting"]
    /\ Send([op |-> "Delete", hashes |-> gc.todo \ gc.live])
    /\ UNCHANGED <<gcRest, steady, count>>

GcSync ==
    /\ gc.pc = "deleted" \/ (gc.pc = "sweep" /\ gc.todo \subseteq gc.live)
    /\ gc' = [gc EXCEPT !.pc = "syncing"]
    /\ Send([op |-> "SyncDb"])
    /\ UNCHANGED <<gcRest, steady, count>>

-----------------------------------------------------------------------------

\* The process dies; the files and what was committed stay.
Crash ==
    /\ count.crashes < MaxCrashes
    /\ count' = [count EXCEPT !.crashes = @ + 1]
    /\ db' = saved.db /\ tags' = saved.tags
    /\ txn' = "none" /\ marked' = {} /\ protected' = {} /\ cmds' = <<>>
    /\ handle' = [h \in Blobs |-> "initial"]
    /\ got' = [h \in Blobs |-> "none"]
    /\ temp' = [c \in Clients |-> NoRoot]
    /\ client' = [c \in Clients |-> Resting]
    /\ gc' = NoGc /\ steady' = {}
    /\ UNCHANGED <<saved, file, raced>>

ClientStep(c) ==
    \/ BeginImport(c) \/ BeginDownload(c) \/ BeginObserve(c) \/ EndObserve(c)
    \/ MoveImported(c) \/ CompleteImport(c) \/ WriteBatch(c) \/ AbortDownload(c)
    \/ SetTag(c) \/ DropTempTag(c) \/ DeleteTag(c) \/ RenameTag(c)

StoreNext ==
    \/ HandleCommand \/ CommitTxn \/ DeleteFiles
    \/ \E h \in Blobs : Load(h) \/ Open(h) \/ Recycle(h)
    \/ \E c \in Clients : ClientStep(c)
    \/ GcStart \/ GcListTags \/ GcListTempTags \/ GcMark \/ GcReadChildren
    \/ GcList \/ GcSweep \/ GcSync
    \/ Crash

StoreSpec == StoreInit /\ [][StoreNext]_storeVars

-----------------------------------------------------------------------------
(* Properties *)

\* An entry that says the store owns the data file has that file, whatever is
\* imported, downloaded, collected and whenever the process dies, unless its
\* hash was deleted while its entity was in use (FileTransaction::commit runs
\* after the commit of the database, protect cancels a delete).
FilesKept ==
    \A h \in Blobs : db[h] = "owned" /\ h \notin raced => file[h] = "full"

\* What an import has added keeps its complete entry for as long as its client
\* holds the temp tag, whatever the gc task has listed when (finish_import creates
\* the temp tag first and handle_update protects the hash).  It keeps its data file
\* too, unless a gc run deleted an older entry of the blob in the middle of the
\* import: the file goes with that delete, though the tag is held.
ImportKept ==
    \A c \in Clients :
        LET h == client[c].hash IN
        client[c].op = "import" /\ client[c].pc \in {"held", "tagging", "tagged"} =>
            db[h] \in Complete /\ (db[h] = "owned" /\ h \notin raced => file[h] = "full")

\* A gc run deletes no blob under a tag or temp tag that stands since the run
\* began, renamed tags included (gc_mark_task, rename_tag).
SteadyKept ==
    [][\A hd \in steady :
          LET h == Holds(hd).hash IN
          gc.pc = "deleting" /\ gc'.pc = "deleted" /\ db[h] # "none" => db'[h] # "none"]_storeVars

\* A gc run deletes no child of a hash sequence whose content is there and whose
\* root stands since the run began.
ChildrenKept ==
    [][\A hd \in steady :
          LET root == Holds(hd) IN
          gc.pc = "deleting" /\ gc'.pc = "deleted" /\ root.format = "seq" /\ db[root.hash] \in Complete
             => \A h \in Children[root.hash] : db[h] # "none" => db'[h] # "none"]_storeVars

=============================================================================
