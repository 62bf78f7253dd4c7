-------------------------- MODULE BlobStoreProofs --------------------------
(***************************************************************************)
(* Proofs about the file store of krikos-blobs: an entry that says the     *)
(* store owns a data file has that file, what is imported keeps its entry  *)
(* while its temp tag is held, and a gc run deletes nothing under a tag    *)
(* that stands.                                                            *)
(***************************************************************************)
EXTENDS BlobStore, TLAPS

\* Zenon proves what does not say otherwise.
USE ZenonT(30)

Entries == {"none", "partial", "inline", "owned"}
Handles == {"initial", "loading", "opening", "setting",
            "absent", "partial", "sized", "complete", "poisoned"}
ClientPcs == {"idle", "load", "observing", "moved", "updating", "held", "tagging", "tagged", "got"}
ClientOps == {"none", "import", "download", "observe"}
ClientRecs == [pc : ClientPcs, op : ClientOps, hash : Blobs \cup {"none"}]
GcPcs == {"idle", "clearing", "cleared", "listing", "tags", "mark", "reading", "snapshot",
          "sweep", "deleting", "deleted", "syncing"}
GcRecs == [pc : GcPcs, roots : SUBSET Roots, live : SUBSET Blobs, todo : SUBSET Blobs]
MaybeRoots == Roots \cup {NoRoot}

Commands ==
    [op : {"Update"}, hash : Blobs, state : {"partial", "inline", "owned"},
     by : Clients \cup {"none"}]
    \cup [op : {"Set"}, hash : Blobs, state : Complete]
    \cup [op : {"Get"}, hash : Blobs]
    \cup [op : {"Delete"}, hashes : SUBSET Blobs]
    \cup [op : {"SetTag"}, name : Names, root : MaybeRoots, by : Clients]
    \cup [op : {"RenameTag"}, name : Names, new : Names, by : Clients]
    \cup [op : {"ClearProtected", "ListTags", "Snapshot", "SyncDb"}]

Types ==
    /\ db \in [Blobs -> Entries] /\ tags \in [Names -> MaybeRoots]
    /\ saved \in [db : [Blobs -> Entries], tags : [Names -> MaybeRoots]]
    /\ txn \in {"none", "open", "committed"}
    /\ marked \in SUBSET Blobs /\ protected \in SUBSET Blobs /\ raced \in SUBSET Blobs
    /\ file \in [Blobs -> {"none", "partial", "full"}]
    /\ cmds \in Seq(Commands)
    /\ handle \in [Blobs -> Handles] /\ got \in [Blobs -> Entries]
    /\ temp \in [Clients -> MaybeRoots]
    /\ client \in [Clients -> ClientRecs]
    /\ gc \in GcRecs
    /\ steady \in SUBSET (Names \cup Clients)

-----------------------------------------------------------------------------
(* The commands. *)

GcOps == {"ClearProtected", "ListTags", "Snapshot", "Delete", "SyncDb"}
ClientCmds == {"Update", "SetTag", "RenameTag"}
EntityOps == {"Get", "Set"}

Same(d, e) ==
    \/ d.op \in GcOps /\ e.op \in GcOps
    \/ d.op \in ClientCmds /\ e.op \in ClientCmds /\ d.by = e.by /\ d.by \in Clients
    \/ d.op \in EntityOps /\ e.op \in EntityOps /\ d.hash = e.hash

Pending(s) == {s[i] : i \in 1..Len(s)}
OneEach(s) == \A i, j \in 1..Len(s) : Same(s[i], s[j]) => i = j

Awaited(d) ==
    /\ d.op = "Update" /\ d.by \in Clients =>
          /\ client[d.by].pc = "updating" /\ client[d.by].hash = d.hash
          /\ d.state = CompleteAs(d.hash)
    /\ d.op = "SetTag" =>
          /\ client[d.by].pc = "tagging"
          /\ d.root = NoRoot => client[d.by].op = "none"
          /\ d.root # NoRoot => client[d.by].op = "import"
    /\ d.op = "RenameTag" => client[d.by].pc = "tagging" /\ client[d.by].op = "none"
    /\ d.op = "Get" => handle[d.hash] = "loading"
    /\ d.op = "Set" => handle[d.hash] = "setting"
    /\ d.op = "ClearProtected" => gc.pc = "clearing"
    /\ d.op = "ListTags" => gc.pc = "listing"
    /\ d.op = "Snapshot" => gc.pc = "snapshot"
    /\ d.op = "Delete" => gc.pc = "deleting" /\ d.hashes \cap gc.live = {}
    /\ d.op = "SyncDb" => gc.pc = "syncing"
Tidy == OneEach(cmds) /\ \A d \in Pending(cmds) : Awaited(d)

-----------------------------------------------------------------------------
(* The clients and their temp tags. *)

ClientOk(c) ==
    /\ client[c].pc \notin {"idle", "tagging"} => client[c].hash \in Blobs
    /\ client[c].pc \in {"moved", "updating", "held", "tagged"} => client[c].op = "import"
    /\ client[c].pc = "idle" => client[c].op = "none"
    /\ client[c].pc = "observing" => client[c].op = "observe"
    /\ client[c].pc \in {"tagging"} => client[c].op \in {"none", "import"}
    /\ client[c].pc \in {"moved", "updating"} => Loaded(client[c].hash)
    /\ client[c].op = "import" => temp[c] \in Roots /\ temp[c].hash = client[c].hash
    /\ client[c].op = "download" => temp[c] \in Roots
    /\ client[c].op \in {"none", "observe"} => temp[c] = NoRoot
ClientsOk == \A c \in Clients : ClientOk(c)

-----------------------------------------------------------------------------
(* The files. *)

Sound(h) ==
    /\ db[h] = "owned" \/ saved.db[h] = "owned" => h \notin Small /\ (h \notin raced => file[h] = "full")
    /\ db[h] # "none" /\ h \notin raced \cup Small => h \notin marked
    /\ handle[h] \in {"partial", "sized"} /\ h \notin raced \cup Small =>
          file[h] # "none" /\ h \notin marked
    /\ got[h] # "none" => handle[h] = "opening"
    /\ got[h] = "partial" /\ h \notin raced \cup Small => h \notin marked
SoundCmd(d) ==
    d.op \in {"Update", "Set"} =>
        /\ d.state \in {"partial", CompleteAs(d.hash)}
        /\ d.hash \notin raced \cup Small =>
              d.hash \notin marked /\ (d.state = "owned" => file[d.hash] = "full")
SoundImport(c) ==
    client[c].pc = "moved" /\ client[c].hash \notin raced \cup Small =>
        client[c].hash \notin marked /\ file[client[c].hash] = "full"
FilesInv ==
    /\ \A h \in Blobs : Sound(h)
    /\ \A d \in Pending(cmds) : SoundCmd(d)
    /\ \A c \in Clients : SoundImport(c)
    /\ txn # "open" => saved.db = db

-----------------------------------------------------------------------------
(* The gc task. *)

Rooted(root) == root \in gc.roots \/ root.hash \in gc.live
Marking == {"mark", "reading", "snapshot", "sweep", "deleting"}
Imported(c) == client[c].op = "import" /\ client[c].pc \in {"held", "tagging", "tagged"}
EntryKept == \A c \in Clients : Imported(c) => db[client[c].hash] \in Complete
ImportInv ==
    /\ EntryKept
    /\ gc.pc \in {"snapshot", "sweep", "deleting"} => gc.roots = {}
    /\ gc.pc \in Marking => \A c \in Clients : Imported(c) =>
          client[c].hash \in protected \/ Rooted(temp[c])
SteadyInv ==
    \A hd \in steady :
        /\ Holds(hd) \in Roots
        /\ gc.pc \in Marking \/ (gc.pc = "tags" /\ hd \in Names) => Rooted(Holds(hd))

BInv == Types /\ Tidy /\ ClientsOk /\ FilesInv /\ ImportInv /\ SteadyInv

-----------------------------------------------------------------------------
(* The command queue. *)

\* The fields that each kind of command has.
LEMMA CommandFields ==
    ASSUME NEW d \in Commands
    PROVE  /\ d.op \in GcOps \cup ClientCmds \cup EntityOps
           /\ d.op = "Update" => /\ d.hash \in Blobs /\ d.state \in {"partial", "inline", "owned"}
                                 /\ d.by \in Clients \cup {"none"}
           /\ d.op = "Set" => d.hash \in Blobs /\ d.state \in Complete
           /\ d.op = "Get" => d.hash \in Blobs
           /\ d.op = "Delete" => d.hashes \in SUBSET Blobs
           /\ d.op = "SetTag" => d.name \in Names /\ d.root \in MaybeRoots /\ d.by \in Clients
           /\ d.op = "RenameTag" => d.name \in Names /\ d.new \in Names /\ d.by \in Clients
<1>1. CASE d \in [op : {"Update"}, hash : Blobs, state : {"partial", "inline", "owned"},
                  by : Clients \cup {"none"}]
  BY <1>1 DEF GcOps, ClientCmds, EntityOps
<1>2. CASE d \in [op : {"Set"}, hash : Blobs, state : Complete]
  BY <1>2 DEF GcOps, ClientCmds, EntityOps
<1>3. CASE d \in [op : {"Get"}, hash : Blobs]
  BY <1>3 DEF GcOps, ClientCmds, EntityOps
<1>4. CASE d \in [op : {"Delete"}, hashes : SUBSET Blobs]
  BY <1>4 DEF GcOps, ClientCmds, EntityOps
<1>5. CASE d \in [op : {"SetTag"}, name : Names, root : MaybeRoots, by : Clients]
  BY <1>5 DEF GcOps, ClientCmds, EntityOps
<1>6. CASE d \in [op : {"RenameTag"}, name : Names, new : Names, by : Clients]
  BY <1>6 DEF GcOps, ClientCmds, EntityOps
<1>7. CASE d \in [op : {"ClearProtected", "ListTags", "Snapshot", "SyncDb"}]
  BY <1>7 DEF GcOps, ClientCmds, EntityOps
<1>8. QED
  BY <1>1, <1>2, <1>3, <1>4, <1>5, <1>6, <1>7 DEF Commands

\* What the tasks send is a command.
LEMMA CommandMade ==
    /\ \A h \in Blobs, st \in {"partial", "inline", "owned"}, c \in Clients \cup {"none"} :
          [op |-> "Update", hash |-> h, state |-> st, by |-> c] \in Commands
    /\ \A h \in Blobs, st \in Complete : [op |-> "Set", hash |-> h, state |-> st] \in Commands
    /\ \A h \in Blobs : [op |-> "Get", hash |-> h] \in Commands
    /\ \A H \in SUBSET Blobs : [op |-> "Delete", hashes |-> H] \in Commands
    /\ \A n \in Names, r \in MaybeRoots, c \in Clients :
          [op |-> "SetTag", name |-> n, root |-> r, by |-> c] \in Commands
    /\ \A n \in Names, m \in Names, c \in Clients :
          [op |-> "RenameTag", name |-> n, new |-> m, by |-> c] \in Commands
    /\ [op |-> "ClearProtected"] \in Commands /\ [op |-> "ListTags"] \in Commands
    /\ [op |-> "Snapshot"] \in Commands /\ [op |-> "SyncDb"] \in Commands
BY DEF Commands

\* The first command leaves the queue.
Taken(cmd) ==
    /\ cmd \in Commands /\ cmd \in Pending(cmds)
    /\ cmds' \in Seq(Commands)
    /\ Pending(cmds') \subseteq Pending(cmds)
    /\ OneEach(cmds')
    /\ \A d \in Pending(cmds') : ~ Same(d, cmd)

\* A command is put at its end.
Sent(cmd) ==
    /\ cmds' \in Seq(Commands)
    /\ Pending(cmds') = Pending(cmds) \cup {cmd}
    /\ (\A d \in Pending(cmds) : ~ Same(d, cmd) /\ ~ Same(cmd, d)) => OneEach(cmds')

\* The database actor takes the command that waits longest, and no other.
LEMMA TakesHead ==
    ASSUME cmds \in Seq(Commands), OneEach(cmds), cmds # <<>>, cmds' = Tail(cmds)
    PROVE  Taken(Head(cmds))
<1> DEFINE t == Tail(cmds)
<1>1. /\ Len(cmds) \in Nat \ {0} /\ Len(t) = Len(cmds) - 1 /\ Head(cmds) = cmds[1]
      /\ t \in Seq(Commands) /\ \A i \in 1..Len(t) : t[i] = cmds[i + 1]
  BY SMTT(30)
<1>2. Head(cmds) \in Commands
  BY <1>1, SMTT(30)
<1>3. cmds' = t
  OBVIOUS
<1> HIDE DEF t
<1>4. 1 \in 1..Len(cmds) /\ \A i \in 1..Len(t) : i + 1 \in 1..Len(cmds) /\ i + 1 # 1
  BY <1>1, SMTT(30)
<1>5. Head(cmds) \in Pending(cmds) /\ Pending(t) \subseteq Pending(cmds)
  BY <1>1, <1>4, SMTT(30) DEF Pending
<1>6. OneEach(t)
  <2>1. ASSUME NEW i \in 1..Len(t), NEW j \in 1..Len(t), Same(t[i], t[j]) PROVE i = j
    <3>1. i + 1 = j + 1
      BY <1>1, <1>4, <2>1 DEF OneEach
    <3>2. QED
      BY <3>1, SMTT(30)
  <2>2. QED
    BY <2>1 DEF OneEach
<1>7. \A d \in Pending(t) : ~ Same(d, Head(cmds))
  BY <1>1, <1>4, SMTT(30) DEF Pending, OneEach
<1>8. QED
  BY <1>1, <1>2, <1>3, <1>5, <1>6, <1>7 DEF Taken

\* A command is sent behind the others.
LEMMA SendsLast ==
    ASSUME cmds \in Seq(Commands), OneEach(cmds), NEW cmd \in Commands, Send(cmd)
    PROVE  Sent(cmd)
<1> DEFINE t == Append(cmds, cmd)
<1>1. /\ Len(cmds) \in Nat /\ Len(t) = Len(cmds) + 1 /\ t[Len(cmds) + 1] = cmd
      /\ t \in Seq(Commands) /\ \A i \in 1..Len(cmds) : t[i] = cmds[i]
  BY SMTT(30)
<1>2. cmds' = t
  BY DEF Send
<1> HIDE DEF t
<1>3. \A i \in 1..Len(t) : i = Len(cmds) + 1 \/ i \in 1..Len(cmds)
  BY <1>1, SMTT(30)
<1>4. Len(cmds) + 1 \in 1..Len(t) /\ \A i \in 1..Len(cmds) : i \in 1..Len(t)
  BY <1>1, SMTT(30)
<1>5. Pending(t) = Pending(cmds) \cup {cmd}
  BY <1>1, <1>3, <1>4 DEF Pending
<1>6. ASSUME \A d \in Pending(cmds) : ~ Same(d, cmd) /\ ~ Same(cmd, d) PROVE OneEach(t)
  <2>1. ASSUME NEW i \in 1..Len(t), NEW j \in 1..Len(t), Same(t[i], t[j]) PROVE i = j
    <3>1. CASE i \in 1..Len(cmds) /\ j \in 1..Len(cmds)
      BY <1>1, <2>1, <3>1 DEF OneEach
    <3>2. CASE i \in 1..Len(cmds) /\ j = Len(cmds) + 1
      BY <1>1, <1>6, <2>1, <3>2 DEF Pending
    <3>3. CASE i = Len(cmds) + 1 /\ j \in 1..Len(cmds)
      BY <1>1, <1>6, <2>1, <3>3 DEF Pending
    <3>4. QED
      BY <1>3, <3>1, <3>2, <3>3
  <2>2. QED
    BY <2>1 DEF OneEach
<1>7. QED
  BY <1>1, <1>2, <1>5, <1>6 DEF Sent

-----------------------------------------------------------------------------
(* The types. *)

\* Roots are about blobs, and NoRoot is none of them.
LEMMA RootFacts ==
    /\ NoRoot \notin Roots /\ NoRoot \in MaybeRoots /\ Roots \subseteq MaybeRoots
    /\ \A root \in Roots : root.hash \in Blobs
    /\ \A h \in Blobs : [hash |-> h, format |-> "raw"] \in Roots
           /\ [hash |-> h, format |-> "raw"].hash = h
    /\ \A h \in Blobs : CompleteAs(h) \in Complete
    /\ Complete \subseteq Entries
<1>1. NoRoot \notin Roots
  BY StoreAssumption DEF Roots, NoRoot
<1>2. QED
  BY <1>1 DEF Roots, MaybeRoots, CompleteAs, Complete, Entries

\* A client goes on: where it is then, what it does and with which hash.
ClientTo(c, p, o, h) ==
    /\ client' \in [Clients -> ClientRecs]
    /\ client'[c].pc = p /\ client'[c].op = o /\ client'[c].hash = h
    /\ \A d \in Clients : d # c => client'[d] = client[d]

\* What an assignment to the record of a client changes.
LEMMA ClientMoves ==
    ASSUME Types, NEW c \in Clients
    PROVE  /\ \A p \in ClientPcs : client' = [client EXCEPT ![c].pc = p] =>
                 ClientTo(c, p, client[c].op, client[c].hash)
           /\ \A p \in ClientPcs, o \in ClientOps, h \in Blobs \cup {"none"} :
                 client' = [client EXCEPT ![c] = [pc |-> p, op |-> o, hash |-> h]] =>
                     ClientTo(c, p, o, h)
           /\ client' = [client EXCEPT ![c] = Resting] => ClientTo(c, "idle", "none", "none")
<1>0. client \in [Clients -> ClientRecs] /\ client[c] \in ClientRecs
  BY DEF Types
<1>1. ASSUME NEW p \in ClientPcs, client' = [client EXCEPT ![c].pc = p]
      PROVE  ClientTo(c, p, client[c].op, client[c].hash)
  <2> DEFINE rec == [client[c] EXCEPT !.pc = p]
  <2>1. rec \in ClientRecs /\ rec.pc = p /\ rec.op = client[c].op /\ rec.hash = client[c].hash
    BY <1>0 DEF ClientRecs
  <2>2. client' = [client EXCEPT ![c] = rec]
    BY <1>1
  <2> HIDE DEF rec
  <2>3. QED
    BY <1>0, <2>1, <2>2 DEF ClientTo
<1>2. ASSUME NEW rec \in ClientRecs, client' = [client EXCEPT ![c] = rec]
      PROVE  ClientTo(c, rec.pc, rec.op, rec.hash)
  BY <1>0, <1>2 DEF ClientTo
<1>3. ASSUME NEW p \in ClientPcs, NEW o \in ClientOps, NEW h \in Blobs \cup {"none"},
             client' = [client EXCEPT ![c] = [pc |-> p, op |-> o, hash |-> h]]
      PROVE  ClientTo(c, p, o, h)
  <2> DEFINE rec == [pc |-> p, op |-> o, hash |-> h]
  <2>1. rec \in ClientRecs /\ rec.pc = p /\ rec.op = o /\ rec.hash = h
    BY DEF ClientRecs
  <2>2. client' = [client EXCEPT ![c] = rec]
    BY <1>3
  <2> HIDE DEF rec
  <2>3. QED
    BY <1>2, <2>1, <2>2
<1>4. "idle" \in ClientPcs /\ "none" \in ClientOps
  BY DEF ClientPcs, ClientOps
<1>5. QED
  BY <1>1, <1>3, <1>4 DEF Resting

\* handle_update answers the client that waits, if one does.
LEMMA UpdateAnswers ==
    ASSUME Types, NEW cmd, HandleUpdate(cmd)
    PROVE  /\ client' \in [Clients -> ClientRecs]
           /\ \A c \in Clients :
                 /\ c # cmd.by => client'[c] = client[c]
                 /\ c = cmd.by => /\ client'[c].pc = "held" /\ client'[c].op = client[c].op
                                  /\ client'[c].hash = client[c].hash
<1>1. ASSUME NEW c \in Clients
      PROVE  LET rec == [client[c] EXCEPT !.pc = "held"] IN
             /\ rec \in ClientRecs /\ client[c] \in ClientRecs
             /\ rec.pc = "held" /\ rec.op = client[c].op /\ rec.hash = client[c].hash
  BY DEF Types, ClientRecs, ClientPcs
<1>2. client' = [c \in Clients |-> IF c = cmd.by THEN [client[c] EXCEPT !.pc = "held"]
                                    ELSE client[c]]
  BY DEF HandleUpdate
<1>3. QED
  BY <1>1, <1>2

\* Where the gc task is then, and with which roots, live hashes and hashes to do.
GcTo(p, R, L, T) ==
    gc' \in GcRecs /\ gc'.pc = p /\ gc'.roots = R /\ gc'.live = L /\ gc'.todo = T

\* What a step of the gc task does to its record.
LEMMA GcMoves ==
    ASSUME Types
    PROVE  /\ GcStart => GcTo("clearing", gc.roots, gc.live, gc.todo)
           /\ GcListTags => GcTo("listing", gc.roots, gc.live, gc.todo)
           /\ GcListTempTags =>
                 GcTo("mark", gc.roots \cup ({temp[c] : c \in Clients} \ {NoRoot}), gc.live, gc.todo)
           /\ GcMark => \E root \in gc.roots :
                 \/ GcTo("mark", gc.roots \ {root}, gc.live \cup {root.hash}, gc.todo)
                 \/ GcTo("reading", gc.roots \ {root}, gc.live \cup {root.hash}, {root.hash})
           /\ GcReadChildren => \E L \in SUBSET Blobs :
                 gc.live \subseteq L /\ GcTo("mark", gc.roots, L, {})
           /\ GcList => GcTo("snapshot", gc.roots, gc.live, gc.todo)
           /\ GcSweep => GcTo("deleting", gc.roots, gc.live, gc.todo)
           /\ GcSync => GcTo("syncing", gc.roots, gc.live, gc.todo)
<1>0. gc \in GcRecs
  BY DEF Types
<1>1. ASSUME NEW p \in GcPcs, gc' = [gc EXCEPT !.pc = p]
      PROVE  GcTo(p, gc.roots, gc.live, gc.todo)
  BY <1>0, <1>1 DEF GcRecs, GcTo
<1>2. /\ "clearing" \in GcPcs /\ "listing" \in GcPcs /\ "snapshot" \in GcPcs
      /\ "deleting" \in GcPcs /\ "syncing" \in GcPcs /\ "mark" \in GcPcs /\ "reading" \in GcPcs
  BY DEF GcPcs
<1>3. ASSUME GcListTempTags
      PROVE  GcTo("mark", gc.roots \cup ({temp[c] : c \in Clients} \ {NoRoot}), gc.live, gc.todo)
  <2> DEFINE R == gc.roots \cup ({temp[c] : c \in Clients} \ {NoRoot})
  <2>1. R \in SUBSET Roots
    BY <1>0, SMTT(30) DEF Types, MaybeRoots, GcRecs
  <2>2. gc' = [gc EXCEPT !.pc = "mark", !.roots = R]
    BY <1>3 DEF GcListTempTags
  <2> HIDE DEF R
  <2>3. GcTo("mark", R, gc.live, gc.todo)
    BY <1>0, <1>2, <2>1, <2>2 DEF GcRecs, GcTo
  <2>4. QED
    BY <2>3 DEF R
<1>4. ASSUME NEW root \in gc.roots
      PROVE  LET next == [gc EXCEPT !.roots = @ \ {root}, !.live = @ \cup {root.hash}]
                 read == [next EXCEPT !.pc = "reading", !.todo = {root.hash}] IN
             /\ next \in GcRecs /\ next.pc = gc.pc /\ next.roots = gc.roots \ {root}
             /\ next.live = gc.live \cup {root.hash} /\ next.todo = gc.todo
             /\ read \in GcRecs /\ read.pc = "reading" /\ read.roots = gc.roots \ {root}
             /\ read.live = gc.live \cup {root.hash} /\ read.todo = {root.hash}
  <2>1. root.hash \in Blobs
    BY <1>0, RootFacts DEF GcRecs
  <2>2. gc.roots \ {root} \in SUBSET Roots /\ gc.live \cup {root.hash} \in SUBSET Blobs
        /\ {root.hash} \in SUBSET Blobs
    BY <1>0, <2>1 DEF GcRecs
  <2>3. QED
    BY <1>0, <1>2, <2>2 DEF GcRecs
<1>5. ASSUME GcMark
      PROVE  \E root \in gc.roots :
                 \/ GcTo("mark", gc.roots \ {root}, gc.live \cup {root.hash}, gc.todo)
                 \/ GcTo("reading", gc.roots \ {root}, gc.live \cup {root.hash}, {root.hash})
  <2>1. PICK root \in gc.roots :
            LET next == [gc EXCEPT !.roots = @ \ {root}, !.live = @ \cup {root.hash}] IN
            gc' = next \/ gc' = [next EXCEPT !.pc = "reading", !.todo = {root.hash}]
    BY <1>5 DEF GcMark
  <2>2. gc.pc = "mark"
    BY <1>5 DEF GcMark
  <2> DEFINE next == [gc EXCEPT !.roots = @ \ {root}, !.live = @ \cup {root.hash}]
             read == [next EXCEPT !.pc = "reading", !.todo = {root.hash}]
  <2>3. gc' = next \/ gc' = read
    BY <2>1
  <2>4. /\ next \in GcRecs /\ next.pc = gc.pc /\ next.roots = gc.roots \ {root}
        /\ next.live = gc.live \cup {root.hash} /\ next.todo = gc.todo
        /\ read \in GcRecs /\ read.pc = "reading" /\ read.roots = gc.roots \ {root}
        /\ read.live = gc.live \cup {root.hash} /\ read.todo = {root.hash}
    BY <1>4
  <2> HIDE DEF next, read
  <2>5. QED
    BY <2>2, <2>3, <2>4 DEF GcTo
<1>6. ASSUME GcReadChildren
      PROVE  \E L \in SUBSET Blobs : gc.live \subseteq L /\ GcTo("mark", gc.roots, L, {})
  <2>1. PICK h \in gc.todo : gc' = [gc EXCEPT !.pc = "mark", !.todo = {},
                  !.live = IF handle[h] = "complete" THEN @ \cup Children[h] ELSE @]
    BY <1>6 DEF GcReadChildren
  <2> DEFINE L == IF handle[h] = "complete" THEN gc.live \cup Children[h] ELSE gc.live
  <2>2. h \in Blobs /\ Children[h] \subseteq Blobs
    BY <1>0, StoreAssumption DEF GcRecs
  <2>3. L \in SUBSET Blobs /\ gc.live \subseteq L
    BY <1>0, <2>2 DEF GcRecs
  <2>4. gc' = [gc EXCEPT !.pc = "mark", !.todo = {}, !.live = L]
    BY <2>1
  <2> HIDE DEF L
  <2>5. GcTo("mark", gc.roots, L, {})
    BY <1>0, <1>2, <2>3, <2>4 DEF GcRecs, GcTo
  <2>6. QED
    BY <2>3, <2>5
<1>7. QED
  BY <1>1, <1>2, <1>3, <1>5, <1>6 DEF GcStart, GcListTags, GcList, GcSweep, GcSync

\* The commands that write the database or change where somebody waits.
LEMMA TypesCommand ==
    ASSUME Types, OneEach(cmds), HandleCommand
    PROVE  Types'
<1>0. PICK cmd : cmd = Head(cmds) /\ Taken(cmd)
  BY TakesHead DEF HandleCommand, Types
<1>1. cmds' \in Seq(Commands) /\ UNCHANGED <<saved, file, temp>> /\ cmd \in Commands
  BY <1>0 DEF Taken, HandleCommand
<1>2. CASE cmd.op = "Update" /\ HandleUpdate(cmd) /\ UNCHANGED got
  <2>1. cmd.hash \in Blobs /\ cmd.state \in Entries
    BY <1>1, <1>2, CommandFields DEF Entries
  <2>2. db' \in [Blobs -> Entries]
    BY <1>2, <2>1 DEF HandleUpdate, Union, Types
  <2>3. client' \in [Clients -> ClientRecs]
    BY <1>2, UpdateAnswers
  <2>4. QED
    BY <1>1, <1>2, <2>1, <2>2, <2>3 DEF HandleUpdate, Types
<1>3. CASE cmd.op = "Set" /\ HandleSet(cmd) /\ UNCHANGED got
  <2>1. cmd.hash \in Blobs /\ cmd.state \in Entries
    BY <1>1, <1>3, CommandFields, RootFacts
  <2>2. QED
    BY <1>1, <1>3, <2>1 DEF HandleSet, Types, Handles
<1>4. CASE cmd.op = "Get" /\ HandleGet(cmd)
  <2>1. cmd.hash \in Blobs
    BY <1>1, <1>4, CommandFields
  <2>2. QED
    BY <1>1, <1>4, <2>1 DEF HandleGet, Types, Handles
<1>5. CASE cmd.op = "Delete" /\ HandleDelete(cmd) /\ UNCHANGED got
  <2>1. "none" \in Entries /\ "deleted" \in GcPcs
    BY DEF Entries, GcPcs
  <2>2. cmd.hashes \in SUBSET Blobs
    BY <1>1, <1>5, CommandFields
  <2>3. db' \in [Blobs -> Entries] /\ marked' \in SUBSET Blobs /\ raced' \in SUBSET Blobs
    BY <1>5, <2>1, <2>2 DEF HandleDelete, Types
  <2>4. QED
    BY <1>1, <1>5, <2>1, <2>3 DEF HandleDelete, Types, GcRecs
<1>6. CASE cmd.op = "SetTag" /\ HandleSetTag(cmd) /\ UNCHANGED got
  <2>1. cmd.name \in Names /\ cmd.root \in MaybeRoots /\ cmd.by \in Clients
    BY <1>1, <1>6, CommandFields
  <2>2. client' \in [Clients -> ClientRecs]
    <3>1. "idle" \in ClientPcs /\ "tagged" \in ClientPcs
      BY DEF ClientPcs
    <3>2. PICK p \in ClientPcs : client' = [client EXCEPT ![cmd.by].pc = p]
      BY <1>6, <3>1 DEF HandleSetTag
    <3>3. QED
      BY <2>1, <3>2, ClientMoves DEF ClientTo
  <2>3. QED
    BY <1>1, <1>6, <2>1, <2>2 DEF HandleSetTag, Types
<1>7. CASE cmd.op = "RenameTag" /\ HandleRenameTag(cmd) /\ UNCHANGED got
  <2>1. cmd.name \in Names /\ cmd.new \in Names /\ cmd.by \in Clients
    BY <1>1, <1>7, CommandFields
  <2>2. tags' \in [Names -> MaybeRoots]
    BY <1>7, <2>1, RootFacts DEF HandleRenameTag, Types
  <2>3. steady' \in SUBSET (Names \cup Clients)
    BY <1>7, <2>1 DEF HandleRenameTag, Types
  <2>4. client' \in [Clients -> ClientRecs]
    <3>1. "idle" \in ClientPcs
      BY DEF ClientPcs
    <3>2. QED
      BY <1>7, <2>1, <3>1, ClientMoves DEF HandleRenameTag, ClientTo
  <2>5. QED
    BY <1>1, <1>7, <2>2, <2>3, <2>4 DEF HandleRenameTag, Types
<1>8. CASE HandleClearProtected(cmd) /\ UNCHANGED got
  BY <1>1, <1>8 DEF HandleClearProtected, Types, GcPcs, GcRecs
<1>9. CASE HandleListTags(cmd) /\ UNCHANGED got
  <2>1. {tags[n] : n \in Names} \ {NoRoot} \in SUBSET Roots
    BY SMTT(30) DEF Types, MaybeRoots
  <2>2. QED
    BY <1>1, <1>9, <2>1 DEF HandleListTags, Types, GcPcs, GcRecs
<1>10. CASE HandleSnapshot(cmd) /\ UNCHANGED got
  BY <1>1, <1>10 DEF HandleSnapshot, Types, GcPcs, GcRecs
<1>11. CASE HandleSyncDb(cmd) /\ UNCHANGED got
  BY <1>1, <1>11 DEF HandleSyncDb, Types, GcPcs, GcRecs, NoGc
<1>12. QED
  BY <1>0, <1>2, <1>3, <1>4, <1>5, <1>6, <1>7, <1>8, <1>9, <1>10, <1>11 DEF HandleCommand

\* The steps of an entity manager keep the types.
LEMMA TypesEntity ==
    ASSUME Types, OneEach(cmds), NEW h \in Blobs, Load(h) \/ Open(h) \/ Recycle(h)
    PROVE  Types'
<1>1. CASE Load(h)
  <2>1. cmds' \in Seq(Commands)
    BY <1>1, SendsLast, CommandMade DEF Load, Types, Sent
  <2>2. QED
    BY <1>1, <2>1 DEF Load, Types, Handles
<1>2. CASE Open(h)
  <2>1. cmds' \in Seq(Commands)
    BY <1>2, SendsLast, CommandMade, RootFacts DEF Open, Types, Sent
  <2>2. QED
    BY <1>2, <2>1, SMTT(30) DEF Open, Types, Handles, Entries
<1>3. CASE Recycle(h)
  BY <1>3 DEF Recycle, Types, Handles
<1>4. QED
  BY <1>1, <1>2, <1>3

\* What every step of a client leaves alone.
LEMMA ClientLeaves ==
    ASSUME NEW c \in Clients, ClientStep(c)
    PROVE  UNCHANGED <<db, tags, saved, txn, protected, got, gc, raced>>
BY DEF ClientStep, BeginImport, BeginDownload, BeginObserve, EndObserve, MoveImported,
       CompleteImport, WriteBatch, AbortDownload, SetTag, DropTempTag, DeleteTag, RenameTag, metaRest

\* So do the steps of a client,
LEMMA TypesClient ==
    ASSUME Types, ClientsOk, OneEach(cmds), NEW c \in Clients, ClientStep(c)
    PROVE  Types'
<1>0. /\ \A p \in ClientPcs : client' = [client EXCEPT ![c].pc = p] => client' \in [Clients -> ClientRecs]
      /\ client' = [client EXCEPT ![c] = Resting] => client' \in [Clients -> ClientRecs]
      /\ \A p \in ClientPcs, o \in ClientOps, h \in Blobs :
            client' = [client EXCEPT ![c] = [pc |-> p, op |-> o, hash |-> h]]
                => client' \in [Clients -> ClientRecs]
  BY ClientMoves DEF ClientTo
<1>1. client' \in [Clients -> ClientRecs]
  <2>1. client[c].pc \in ClientPcs /\ \A root \in Roots : root.hash \in Blobs
    BY RootFacts DEF Types, ClientRecs
  <2>2. /\ "load" \in ClientPcs /\ "observing" \in ClientPcs /\ "moved" \in ClientPcs
        /\ "updating" \in ClientPcs /\ "got" \in ClientPcs /\ "tagging" \in ClientPcs
        /\ "import" \in ClientOps /\ "download" \in ClientOps /\ "observe" \in ClientOps
    BY DEF ClientPcs, ClientOps
  <2>3. CASE BeginImport(c)
    BY <1>0, <2>1, <2>2, <2>3 DEF BeginImport
  <2>4. CASE BeginDownload(c)
    BY <1>0, <2>2, <2>4 DEF BeginDownload
  <2>5. CASE BeginObserve(c) \/ EndObserve(c)
    BY <1>0, <2>2, <2>5 DEF BeginObserve, EndObserve
  <2>6. CASE MoveImported(c) \/ CompleteImport(c) \/ AbortDownload(c)
    BY <1>0, <2>2, <2>6 DEF MoveImported, CompleteImport, AbortDownload
  <2>7. CASE WriteBatch(c)
    <3>1. PICK p \in ClientPcs : client' = [client EXCEPT ![c].pc = p]
      BY <2>1, <2>2, <2>7 DEF WriteBatch, Types
    <3>2. QED
      BY <1>0, <3>1
  <2>8. CASE SetTag(c) \/ DropTempTag(c) \/ DeleteTag(c) \/ RenameTag(c)
    BY <1>0, <2>2, <2>8 DEF SetTag, DropTempTag, DeleteTag, RenameTag
  <2>9. QED
    BY <2>3, <2>4, <2>5, <2>6, <2>7, <2>8 DEF ClientStep
<1>2. client[c].pc \notin {"idle", "tagging"} => client[c].hash \in Blobs
  BY DEF ClientsOk, ClientOk
<1>3. cmds' \in Seq(Commands)
  <2>0. \A cmd \in Commands : Send(cmd) => cmds' \in Seq(Commands)
    BY SendsLast DEF Types, Sent
  <2>1. CASE UNCHANGED cmds
    BY <2>1 DEF Types
  <2>2. CASE CompleteImport(c)
    <3>1. CompleteAs(client[c].hash) \in {"partial", "inline", "owned"}
      BY DEF CompleteAs
    <3>2. CASE Send([op |-> "Update", hash |-> client[c].hash,
                     state |-> CompleteAs(client[c].hash), by |-> c])
      BY <1>2, <2>0, <2>2, <3>1, <3>2, CommandMade DEF CompleteImport
    <3>3. QED
      BY <2>1, <2>2, <3>2 DEF CompleteImport
  <2>3. CASE WriteBatch(c)
    <3>1. \A all \in BOOLEAN : (IF all THEN CompleteAs(client[c].hash) ELSE "partial")
                                  \in {"partial", "inline", "owned"}
      BY DEF CompleteAs
    <3>2. ASSUME NEW all \in BOOLEAN,
                 Send([op |-> "Update", hash |-> client[c].hash, by |-> "none",
                       state |-> IF all THEN CompleteAs(client[c].hash) ELSE "partial"])
          PROVE  cmds' \in Seq(Commands)
      <4>1. client[c].hash \in Blobs
        BY <1>2, <2>3 DEF WriteBatch
      <4>2. [op |-> "Update", hash |-> client[c].hash, by |-> "none",
             state |-> IF all THEN CompleteAs(client[c].hash) ELSE "partial"] \in Commands
        BY <3>1, <4>1, CommandMade
      <4>3. QED
        BY <2>0, <3>2, <4>2
    <3>3. QED
      BY <2>1, <2>3, <3>2 DEF WriteBatch
  <2>4. CASE SetTag(c)
    BY <2>0, <2>4, CommandMade DEF SetTag, Types
  <2>5. CASE DeleteTag(c)
    BY <2>0, <2>5, CommandMade, RootFacts DEF DeleteTag
  <2>6. CASE RenameTag(c)
    BY <2>0, <2>6, CommandMade DEF RenameTag
  <2>7. QED
    BY <2>1, <2>2, <2>3, <2>4, <2>5, <2>6
       DEF ClientStep, BeginImport, BeginDownload, BeginObserve, EndObserve, MoveImported,
           AbortDownload, DropTempTag
<1>4. file' \in [Blobs -> {"none", "partial", "full"}] /\ marked' \in SUBSET Blobs
  BY DEF ClientStep, BeginImport, BeginDownload, BeginObserve, EndObserve, MoveImported,
       CompleteImport, WriteBatch, AbortDownload, SetTag, DropTempTag, DeleteTag, RenameTag, Types
<1>5. handle' \in [Blobs -> Handles]
  <2>1. CASE UNCHANGED handle
    BY <2>1 DEF Types
  <2>2. CASE CompleteImport(c)
    BY <2>1, <2>2, SMTT(30) DEF CompleteImport, Types, Handles
  <2>3. CASE WriteBatch(c)
    <3>1. handle[client[c].hash] \in Handles
      BY <1>2, <2>3 DEF WriteBatch, Types
    <3>2. CASE \E x \in Handles : handle' = [handle EXCEPT ![client[c].hash] = x]
      BY <3>2 DEF Types
    <3>3. "complete" \in Handles /\ "sized" \in Handles /\ "partial" \in Handles
      BY DEF Handles
    <3>4. QED
      BY <2>1, <2>3, <3>1, <3>2, <3>3 DEF WriteBatch
  <2>4. QED
    BY <2>1, <2>2, <2>3
       DEF ClientStep, BeginImport, BeginDownload, BeginObserve, EndObserve, MoveImported,
           AbortDownload, SetTag, DropTempTag, DeleteTag, RenameTag
<1>6. temp' \in [Clients -> MaybeRoots] /\ steady' \in SUBSET (Names \cup Clients)
  <2>1. CASE \E root \in MaybeRoots : temp' = [temp EXCEPT ![c] = root]
                                       /\ steady' \in {steady, steady \ {c}}
    BY <2>1, SMTT(30) DEF Types
  <2>2. CASE UNCHANGED <<temp, steady>>
    BY <2>2 DEF Types
  <2>3. CASE BeginImport(c) \/ BeginDownload(c)
    BY <2>1, <2>3, RootFacts DEF BeginImport, BeginDownload
  <2>4. CASE CompleteImport(c) \/ DropTempTag(c)
    BY <2>1, <2>2, <2>4, RootFacts DEF CompleteImport, DropTempTag
  <2>5. QED
    BY <2>2, <2>3, <2>4
       DEF ClientStep, BeginObserve, EndObserve, MoveImported, WriteBatch, AbortDownload, SetTag,
           DeleteTag, RenameTag
<1>7. QED
  BY <1>1, <1>3, <1>4, <1>5, <1>6, ClientLeaves DEF Types

\* the steps of the gc task,
LEMMA TypesGc ==
    ASSUME Types, OneEach(cmds),
           \/ GcStart \/ GcListTags \/ GcListTempTags \/ GcMark \/ GcReadChildren
           \/ GcList \/ GcSweep \/ GcSync
    PROVE  Types'
<1>1. cmds' \in Seq(Commands)
  <2>0. \A cmd \in Commands : Send(cmd) => cmds' \in Seq(Commands)
    BY SendsLast DEF Types, Sent
  <2>1. CASE UNCHANGED cmds
    BY <2>1 DEF Types
  <2>2. gc.todo \ gc.live \in SUBSET Blobs
    BY DEF Types, GcRecs
  <2>3. QED
    BY <2>0, <2>1, <2>2, CommandMade
       DEF GcStart, GcListTags, GcListTempTags, GcMark, GcReadChildren, GcList, GcSweep, GcSync
<1>2. gc' \in GcRecs
  BY GcMoves DEF GcTo
<1>3. steady' \in SUBSET (Names \cup Clients)
  BY DEF GcStart, GcListTags, GcListTempTags, GcMark, GcReadChildren, GcList, GcSweep, GcSync, Types
<1>4. UNCHANGED gcRest
  BY DEF GcStart, GcListTags, GcListTempTags, GcMark, GcReadChildren, GcList, GcSweep, GcSync
<1>5. QED
  BY <1>1, <1>2, <1>3, <1>4 DEF Types, gcRest

\* and every other step.
LEMMA TypesStep ==
    ASSUME Types, ClientsOk, Tidy, [StoreNext]_storeVars
    PROVE  Types'
<1>0. OneEach(cmds)
  BY DEF Tidy
<1>1. CASE CommitTxn
  BY <1>1 DEF CommitTxn, Types
<1>2. CASE DeleteFiles
  BY <1>2 DEF DeleteFiles, Types
<1>3. CASE Crash
  <2>1. <<>> \in Seq(Commands) /\ "initial" \in Handles /\ "none" \in Entries
    BY SMTT(30) DEF Handles, Entries
  <2>2. Resting \in ClientRecs
    BY DEF Resting, ClientRecs, ClientPcs, ClientOps
  <2>3. NoGc \in GcRecs
    BY DEF NoGc, GcPcs, GcRecs
  <2>4. QED
    BY <1>3, <2>1, <2>2, <2>3, RootFacts DEF Crash, Types
<1>4. CASE UNCHANGED storeVars
  BY <1>4 DEF storeVars, Types
<1>5. QED
  BY <1>0, <1>1, <1>2, <1>3, <1>4, TypesCommand, TypesEntity, TypesClient, TypesGc DEF StoreNext

-----------------------------------------------------------------------------
(* Everybody who waits has one command in the queue. *)

LoadedAs == {"absent", "partial", "sized", "complete", "poisoned"}

\* What waits in the queue is a command.
LEMMA PendingTyped ==
    ASSUME Types, NEW d \in Pending(cmds)
    PROVE  d \in Commands
BY SMTT(30) DEF Types, Pending

\* A command is of the gc task, of a client or of an entity, never of two of
\* them.
LEMMA OpKinds ==
    /\ \A op \in GcOps : op \notin ClientCmds \cup EntityOps
    /\ \A op \in ClientCmds : op \notin GcOps \cup EntityOps
    /\ \A op \in EntityOps : op \notin GcOps \cup ClientCmds
BY DEF GcOps, ClientCmds, EntityOps

\* A client that did not wait goes on.
LEMMA TidyClient ==
    ASSUME Types, Tidy, NEW c \in Clients, client[c].pc \notin {"updating", "tagging"},
           \A d \in Clients : d # c => client'[d] = client[d],
           UNCHANGED gc,
           \A h \in Blobs : handle[h] \in {"loading", "setting"} => handle'[h] = handle[h]
    PROVE  \A d \in Pending(cmds) : Awaited(d)' /\ (d.op \in ClientCmds => d.by # c)
<1> SUFFICES ASSUME NEW d \in Pending(cmds)
             PROVE  Awaited(d)' /\ (d.op \in ClientCmds => d.by # c)
  OBVIOUS
<1>1. d \in Commands /\ Awaited(d)
  BY PendingTyped DEF Tidy
<1>2. CASE d.op \in ClientCmds
  BY <1>1, <1>2, CommandFields DEF Awaited, ClientCmds
<1>3. CASE d.op \in EntityOps
  BY <1>1, <1>3, CommandFields DEF Awaited, EntityOps, ClientCmds
<1>4. CASE d.op \in GcOps
  BY <1>1, <1>4 DEF Awaited, GcOps, ClientCmds
<1>5. QED
  BY <1>1, <1>2, <1>3, <1>4, CommandFields

\* An entity that did not wait goes on.
LEMMA TidyEntity ==
    ASSUME Types, Tidy, NEW h \in Blobs, handle[h] \notin {"loading", "setting"},
           \A g \in Blobs : g # h => handle'[g] = handle[g], UNCHANGED <<client, gc>>
    PROVE  \A d \in Pending(cmds) : Awaited(d)' /\ (d.op \in EntityOps => d.hash # h)
<1> SUFFICES ASSUME NEW d \in Pending(cmds)
             PROVE  Awaited(d)' /\ (d.op \in EntityOps => d.hash # h)
  OBVIOUS
<1>1. d \in Commands /\ Awaited(d)
  BY PendingTyped DEF Tidy
<1>2. CASE d.op \in EntityOps
  BY <1>1, <1>2, CommandFields DEF Awaited, EntityOps
<1>3. CASE d.op \notin EntityOps
  BY <1>1, <1>3 DEF Awaited, EntityOps
<1>4. QED
  BY <1>2, <1>3

GcWaits == {"clearing", "listing", "snapshot", "deleting", "syncing"}

\* The gc task did not wait and goes on.
LEMMA TidyGc ==
    ASSUME Types, Tidy, gc.pc \notin GcWaits, UNCHANGED <<client, handle>>
    PROVE  \A d \in Pending(cmds) : Awaited(d)' /\ d.op \notin GcOps
<1> SUFFICES ASSUME NEW d \in Pending(cmds)
             PROVE  Awaited(d)' /\ d.op \notin GcOps
  OBVIOUS
<1>1. d \in Commands /\ Awaited(d)
  BY PendingTyped DEF Tidy
<1>2. d.op \notin GcOps
  BY <1>1 DEF Awaited, GcOps, GcWaits
<1>3. QED
  BY <1>1, <1>2 DEF Awaited, GcOps

\* What is sent is awaited, and nothing else is by the same one.
LEMMA TidySend ==
    ASSUME Types, Tidy, NEW cmd \in Commands, Send(cmd), Awaited(cmd)',
           \A d \in Pending(cmds) : Awaited(d)' /\ ~ Same(d, cmd) /\ ~ Same(cmd, d)
    PROVE  Tidy'
<1>1. Sent(cmd)
  BY SendsLast DEF Types, Tidy
<1>2. OneEach(cmds') /\ Pending(cmds') = Pending(cmds) \cup {cmd}
  BY <1>1 DEF Sent
<1>3. QED
  BY <1>2 DEF Tidy

\* A step that leaves the queue alone need only keep everyone waiting.
LEMMA TidyQuiet ==
    ASSUME Tidy, UNCHANGED cmds, \A d \in Pending(cmds) : Awaited(d)'
    PROVE  Tidy'
BY DEF Tidy

\* The steps of the entities keep the queue tidy,
LEMMA TidyEntities ==
    ASSUME Types, Tidy, NEW h \in Blobs, Load(h) \/ Open(h) \/ Recycle(h)
    PROVE  Tidy'
<1>1. handle[h] \notin {"loading", "setting"} /\ UNCHANGED <<client, gc>>
  BY DEF Load, Open, Recycle, Loaded
<1>2. \A g \in Blobs : g # h => handle'[g] = handle[g]
  BY DEF Load, Open, Recycle, Types
<1>3. \A d \in Pending(cmds) : Awaited(d)' /\ (d.op \in EntityOps => d.hash # h)
  BY <1>1, <1>2, TidyEntity
<1>4. CASE Load(h)
  <2> DEFINE cmd == [op |-> "Get", hash |-> h]
  <2>1. cmd \in Commands /\ Send(cmd) /\ cmd.op = "Get" /\ cmd.hash = h
    BY <1>4, CommandMade DEF Load
  <2>2. handle'[h] = "loading"
    BY <1>4 DEF Load, Types
  <2> HIDE DEF cmd
  <2>3. Awaited(cmd)'
    BY <2>1, <2>2 DEF Awaited
  <2>4. \A d \in Pending(cmds) : ~ Same(d, cmd) /\ ~ Same(cmd, d)
    BY <1>3, <2>1 DEF Same, GcOps, ClientCmds, EntityOps
  <2>5. QED
    BY <1>3, <2>1, <2>3, <2>4, TidySend
<1>5. CASE Open(h) /\ UNCHANGED cmds
  BY <1>3, <1>5, TidyQuiet
<1>6. CASE Open(h) /\ Send([op |-> "Set", hash |-> h, state |-> CompleteAs(h)])
           /\ handle' = [handle EXCEPT ![h] = "setting"]
  <2> DEFINE cmd == [op |-> "Set", hash |-> h, state |-> CompleteAs(h)]
  <2>1. cmd \in Commands /\ Send(cmd) /\ cmd.op = "Set" /\ cmd.hash = h
    BY <1>6, CommandMade, RootFacts
  <2>2. handle'[h] = "setting"
    BY <1>6 DEF Types
  <2> HIDE DEF cmd
  <2>3. Awaited(cmd)'
    BY <2>1, <2>2 DEF Awaited
  <2>4. \A d \in Pending(cmds) : ~ Same(d, cmd) /\ ~ Same(cmd, d)
    BY <1>3, <2>1 DEF Same, GcOps, ClientCmds, EntityOps
  <2>5. QED
    BY <1>3, <2>1, <2>3, <2>4, TidySend
<1>7. CASE Recycle(h)
  BY <1>3, <1>7, TidyQuiet DEF Recycle
<1>8. QED
  BY <1>4, <1>5, <1>6, <1>7 DEF Open

\* so do those of the clients, each of which waits for its command,
LEMMA TidyClients ==
    ASSUME Types, Tidy, ClientsOk, NEW c \in Clients, ClientStep(c)
    PROVE  Tidy'
<1>1. UNCHANGED gc
  BY ClientLeaves
<1>2. client[c].pc \notin {"updating", "tagging"} /\ \A d \in Clients : d # c => client'[d] = client[d]
  BY DEF ClientStep, BeginImport, BeginDownload, BeginObserve, EndObserve, MoveImported,
       CompleteImport, WriteBatch, AbortDownload, SetTag, DropTempTag, DeleteTag, RenameTag, Types,
       Begins
<1>3. \A h \in Blobs : handle[h] \in {"loading", "setting"} => handle'[h] = handle[h]
  <2>1. CASE UNCHANGED handle
    BY <2>1
  <2>2. CASE CompleteImport(c)
    BY <2>1, <2>2 DEF CompleteImport, ClientsOk, ClientOk, Loaded, Types
  <2>3. CASE WriteBatch(c)
    BY <2>1, <2>3 DEF WriteBatch, Loaded, Types
  <2>4. QED
    BY <2>1, <2>2, <2>3
       DEF ClientStep, BeginImport, BeginDownload, BeginObserve, EndObserve, MoveImported,
           AbortDownload, SetTag, DropTempTag, DeleteTag, RenameTag
<1>4. \A d \in Pending(cmds) : Awaited(d)' /\ (d.op \in ClientCmds => d.by # c)
  BY <1>1, <1>2, <1>3, TidyClient
<1>5. CASE UNCHANGED cmds
  BY <1>4, <1>5, TidyQuiet
<1>6. ASSUME NEW cmd \in Commands, Send(cmd), cmd.op \in ClientCmds, cmd.by \in {c, "none"},
             Awaited(cmd)'
      PROVE  Tidy'
  <2>1. "none" \notin Clients
    BY StoreAssumption
  <2>2. \A d \in Pending(cmds) : ~ Same(d, cmd) /\ ~ Same(cmd, d)
    BY <1>4, <1>6, <2>1, OpKinds DEF Same
  <2>3. QED
    BY <1>4, <1>6, <2>2, TidySend
<1>7. CASE CompleteImport(c) /\ ~ UNCHANGED cmds
  <2>1. PICK h \in Blobs : h = client[c].hash
    BY <1>7 DEF CompleteImport, ClientsOk, ClientOk
  <2> DEFINE cmd == [op |-> "Update", hash |-> h, state |-> CompleteAs(h), by |-> c]
  <2>2. cmd \in Commands /\ cmd.op = "Update" /\ cmd.by = c /\ cmd.hash = h
        /\ cmd.state = CompleteAs(h)
    BY CommandMade DEF CompleteAs
  <2>3. Send(cmd) /\ client' = [client EXCEPT ![c].pc = "updating"]
    BY <1>7, <2>1 DEF CompleteImport
  <2>4. client'[c].pc = "updating" /\ client'[c].hash = h
    BY <2>1, <2>3, ClientMoves DEF ClientTo, ClientPcs
  <2> HIDE DEF cmd
  <2>5. Awaited(cmd)'
    BY <2>2, <2>4 DEF Awaited
  <2>6. QED
    BY <1>6, <2>2, <2>3, <2>5 DEF ClientCmds
<1>8. CASE WriteBatch(c) /\ ~ UNCHANGED cmds
  <2>0. PICK h \in Blobs : h = client[c].hash
    BY <1>8 DEF WriteBatch, ClientsOk, ClientOk
  <2>1. PICK st \in {"partial", CompleteAs(h)} :
            Send([op |-> "Update", hash |-> h, by |-> "none", state |-> st])
    BY <1>8, <2>0 DEF WriteBatch
  <2> DEFINE cmd == [op |-> "Update", hash |-> h, by |-> "none", state |-> st]
  <2>2. st \in {"partial", "inline", "owned"}
    BY <2>1 DEF CompleteAs
  <2>3. cmd \in Commands /\ cmd.op = "Update" /\ cmd.by = "none" /\ Send(cmd)
    BY <2>1, <2>2, CommandMade
  <2> HIDE DEF cmd
  <2>4. Awaited(cmd)'
    BY <2>3, StoreAssumption DEF Awaited
  <2>5. QED
    BY <1>6, <2>3, <2>4 DEF ClientCmds
<1>9. CASE SetTag(c)
  <2>0. PICK root \in MaybeRoots : root = temp[c]
    BY DEF Types
  <2>1. PICK n \in Names : Send([op |-> "SetTag", name |-> n, root |-> root, by |-> c])
    BY <1>9, <2>0 DEF SetTag
  <2> DEFINE cmd == [op |-> "SetTag", name |-> n, root |-> root, by |-> c]
  <2>2. cmd \in Commands /\ cmd.op = "SetTag" /\ cmd.by = c /\ cmd.root = root /\ Send(cmd)
    BY <2>1, CommandMade
  <2>3. client'[c].pc = "tagging" /\ client'[c].op = client[c].op
    BY <1>9, ClientMoves DEF SetTag, ClientTo, ClientPcs
  <2>4. client[c].op = "import" /\ root # NoRoot
    BY <1>9, <2>0, RootFacts DEF SetTag, ClientsOk, ClientOk
  <2> HIDE DEF cmd
  <2>5. Awaited(cmd)'
    BY <2>2, <2>3, <2>4 DEF Awaited
  <2>6. QED
    BY <1>6, <2>2, <2>5 DEF ClientCmds
<1>10. CASE DeleteTag(c)
  <2>1. PICK n \in Names : Send([op |-> "SetTag", name |-> n, root |-> NoRoot, by |-> c])
    BY <1>10 DEF DeleteTag
  <2> DEFINE cmd == [op |-> "SetTag", name |-> n, root |-> NoRoot, by |-> c]
  <2>2. cmd \in Commands /\ cmd.op = "SetTag" /\ cmd.by = c /\ cmd.root = NoRoot /\ Send(cmd)
    BY <2>1, CommandMade, RootFacts
  <2>3. client'[c].pc = "tagging" /\ client'[c].op = client[c].op
    BY <1>10, ClientMoves DEF DeleteTag, ClientTo, ClientPcs
  <2>4. client[c].op = "none"
    BY <1>10 DEF DeleteTag, Begins, ClientsOk, ClientOk
  <2> HIDE DEF cmd
  <2>5. Awaited(cmd)'
    BY <2>2, <2>3, <2>4 DEF Awaited
  <2>6. QED
    BY <1>6, <2>2, <2>5 DEF ClientCmds
<1>11. CASE RenameTag(c)
  <2>1. PICK n \in Names, m \in Names :
            Send([op |-> "RenameTag", name |-> n, new |-> m, by |-> c])
    BY <1>11 DEF RenameTag
  <2> DEFINE cmd == [op |-> "RenameTag", name |-> n, new |-> m, by |-> c]
  <2>2. cmd \in Commands /\ cmd.op = "RenameTag" /\ cmd.by = c /\ Send(cmd)
    BY <2>1, CommandMade
  <2>3. client'[c].pc = "tagging" /\ client'[c].op = client[c].op
    BY <1>11, ClientMoves DEF RenameTag, ClientTo, ClientPcs
  <2>4. client[c].op = "none"
    BY <1>11 DEF RenameTag, Begins, ClientsOk, ClientOk
  <2> HIDE DEF cmd
  <2>5. Awaited(cmd)'
    BY <2>2, <2>3, <2>4 DEF Awaited
  <2>6. QED
    BY <1>6, <2>2, <2>5 DEF ClientCmds
<1>12. QED
  BY <1>5, <1>7, <1>8, <1>9, <1>10, <1>11
     DEF ClientStep, BeginImport, BeginDownload, BeginObserve, EndObserve, MoveImported,
         AbortDownload, DropTempTag

\* and those of the gc task, which waits for its own.
LEMMA TidyGcSteps ==
    ASSUME Types, Tidy,
           \/ GcStart \/ GcListTags \/ GcListTempTags \/ GcMark \/ GcReadChildren
           \/ GcList \/ GcSweep \/ GcSync
    PROVE  Tidy'
<1>1. gc.pc \notin GcWaits /\ UNCHANGED <<client, handle>>
  BY DEF GcStart, GcListTags, GcListTempTags, GcMark, GcReadChildren, GcList, GcSweep, GcSync,
       gcRest, GcWaits
<1>2. \A d \in Pending(cmds) : Awaited(d)' /\ d.op \notin GcOps
  BY <1>1, TidyGc
<1>3. ASSUME NEW cmd \in Commands, Send(cmd), cmd.op \in GcOps, Awaited(cmd)' PROVE Tidy'
  <2>1. \A d \in Pending(cmds) : ~ Same(d, cmd) /\ ~ Same(cmd, d)
    BY <1>2, <1>3, OpKinds DEF Same
  <2>2. QED
    BY <1>2, <1>3, <2>1, TidySend
<1>4. CASE UNCHANGED cmds
  BY <1>2, <1>4, TidyQuiet
<1>5. ASSUME NEW op \in {"ClearProtected", "ListTags", "Snapshot", "SyncDb"}, NEW p,
             Send([op |-> op]), gc'.pc = p,
             <<op, p>> \in {<<"ClearProtected", "clearing">>, <<"ListTags", "listing">>,
                            <<"Snapshot", "snapshot">>, <<"SyncDb", "syncing">>}
      PROVE  Tidy'
  <2> DEFINE cmd == [op |-> op]
  <2>1. cmd \in Commands /\ cmd.op = op /\ Send(cmd)
    BY <1>5, CommandMade
  <2> HIDE DEF cmd
  <2>2. Awaited(cmd)'
    BY <1>5, <2>1 DEF Awaited
  <2>3. QED
    BY <1>3, <2>1, <2>2 DEF GcOps
<1>6. CASE GcSweep
  <2>1. PICK H \in SUBSET Blobs : H = gc.todo \ gc.live
    BY DEF Types, GcRecs
  <2> DEFINE cmd == [op |-> "Delete", hashes |-> H]
  <2>2. cmd \in Commands /\ cmd.op = "Delete" /\ cmd.hashes = H /\ Send(cmd)
    BY <1>6, <2>1, CommandMade DEF GcSweep
  <2>3. gc'.pc = "deleting" /\ gc'.live = gc.live
    BY <1>6 DEF GcSweep, Types, GcRecs
  <2> HIDE DEF cmd
  <2>4. Awaited(cmd)'
    BY <2>1, <2>2, <2>3 DEF Awaited
  <2>5. QED
    BY <1>3, <2>2, <2>4 DEF GcOps
<1>7. CASE GcStart
  <2>1. gc'.pc = "clearing" /\ Send([op |-> "ClearProtected"])
    BY <1>7 DEF GcStart, Types, GcRecs
  <2>2. QED
    BY <1>5, <2>1
<1>8. CASE GcListTags
  <2>1. gc'.pc = "listing" /\ Send([op |-> "ListTags"])
    BY <1>8 DEF GcListTags, Types, GcRecs
  <2>2. QED
    BY <1>5, <2>1
<1>9. CASE GcList
  <2>1. gc'.pc = "snapshot" /\ Send([op |-> "Snapshot"])
    BY <1>9 DEF GcList, Types, GcRecs
  <2>2. QED
    BY <1>5, <2>1
<1>10. CASE GcSync
  <2>1. gc'.pc = "syncing" /\ Send([op |-> "SyncDb"])
    BY <1>10 DEF GcSync, Types, GcRecs
  <2>2. QED
    BY <1>5, <2>1
<1>11. QED
  BY <1>4, <1>6, <1>7, <1>8, <1>9, <1>10 DEF GcListTempTags, GcMark, GcReadChildren

\* The metadata actor answers the one who waits for the command.
LEMMA TidyCommand ==
    ASSUME Types, Tidy, HandleCommand
    PROVE  Tidy'
<1>1. PICK cmd \in Commands : cmd = Head(cmds) /\ Taken(cmd)
  <2>1. Taken(Head(cmds))
    BY TakesHead DEF HandleCommand, Types, Tidy
  <2>2. QED
    BY <2>1 DEF Taken
<1>2. OneEach(cmds') /\ \A d \in Pending(cmds') :
          d \in Commands /\ Awaited(d) /\ ~ Same(d, cmd)
  BY <1>1, PendingTyped DEF Taken, Tidy
<1> SUFFICES ASSUME NEW d \in Pending(cmds') PROVE Awaited(d)'
  BY <1>2 DEF Tidy
<1>3. d \in Commands /\ Awaited(d) /\ ~ Same(d, cmd)
  BY <1>2
<1>4. ASSUME cmd.op \in ClientCmds, \A c \in Clients : c # cmd.by => client'[c] = client[c],
             UNCHANGED <<handle, gc>>
      PROVE  Awaited(d)'
  <2>1. CASE d.op \in ClientCmds /\ d.by \in Clients
    <3>1. d.by # cmd.by
      BY <1>3, <1>4, <2>1 DEF Same
    <3>2. QED
      BY <1>3, <1>4, <2>1, <3>1 DEF Awaited, ClientCmds
  <2>2. CASE d.op \in ClientCmds /\ d.by \notin Clients
    BY <1>3, <2>2, CommandFields DEF Awaited, ClientCmds
  <2>3. CASE d.op \notin ClientCmds
    BY <1>3, <1>4, <2>3 DEF Awaited, ClientCmds
  <2>4. QED
    BY <2>1, <2>2, <2>3
<1>5. ASSUME cmd.op \in EntityOps, \A h \in Blobs : h # cmd.hash => handle'[h] = handle[h],
             UNCHANGED <<client, gc>>
      PROVE  Awaited(d)'
  <2>1. CASE d.op \in EntityOps
    <3>1. d.hash # cmd.hash /\ d.hash \in Blobs
      BY <1>3, <1>5, <2>1, CommandFields DEF Same, EntityOps
    <3>2. QED
      BY <1>3, <1>5, <2>1, <3>1 DEF Awaited, EntityOps
  <2>3. CASE d.op \notin EntityOps
    BY <1>3, <1>5, <2>3 DEF Awaited, EntityOps
  <2>4. QED
    BY <2>1, <2>3
<1>6. ASSUME cmd.op \in GcOps, UNCHANGED <<client, handle>>
      PROVE  Awaited(d)'
  <2>1. d.op \notin GcOps
    BY <1>3, <1>6 DEF Same
  <2>2. QED
    BY <1>3, <1>6, <2>1 DEF Awaited, GcOps
<1>7. CASE cmd.op = "Update" /\ HandleUpdate(cmd)
  BY <1>4, <1>7, UpdateAnswers DEF HandleUpdate, ClientCmds
<1>8. CASE cmd.op = "Set" /\ HandleSet(cmd)
  BY <1>5, <1>8 DEF HandleSet, EntityOps, Types
<1>9. CASE cmd.op = "Get" /\ HandleGet(cmd)
  BY <1>5, <1>9 DEF HandleGet, EntityOps, Types
<1>10. CASE cmd.op = "SetTag" /\ HandleSetTag(cmd)
  BY <1>4, <1>10 DEF HandleSetTag, ClientCmds, Types
<1>11. CASE cmd.op = "RenameTag" /\ HandleRenameTag(cmd)
  BY <1>4, <1>11 DEF HandleRenameTag, ClientCmds, Types
<1>12. CASE cmd.op = "Delete" /\ HandleDelete(cmd)
  BY <1>6, <1>12 DEF HandleDelete, GcOps
<1>13. CASE \/ cmd.op = "ClearProtected" /\ HandleClearProtected(cmd)
            \/ cmd.op = "ListTags" /\ HandleListTags(cmd)
            \/ cmd.op = "Snapshot" /\ HandleSnapshot(cmd)
            \/ cmd.op = "SyncDb" /\ HandleSyncDb(cmd)
  BY <1>6, <1>13 DEF HandleClearProtected, HandleListTags, HandleSnapshot, HandleSyncDb, GcOps
<1>14. QED
  BY <1>1, <1>7, <1>8, <1>9, <1>10, <1>11, <1>12, <1>13 DEF HandleCommand

\* No step leaves a command behind that nobody waits for.
LEMMA TidyStep ==
    ASSUME Types, Tidy, ClientsOk, [StoreNext]_storeVars
    PROVE  Tidy'
<1>1. CASE CommitTxn \/ DeleteFiles \/ UNCHANGED storeVars
  <2>1. UNCHANGED <<cmds, client, gc, handle>>
    BY <1>1 DEF CommitTxn, DeleteFiles, storeVars
  <2>2. QED
    BY <2>1, SMTT(30) DEF Tidy, Awaited
<1>2. CASE Crash
  <2>1. cmds' = <<>>
    BY <1>2 DEF Crash
  <2>2. Pending(cmds') = {} /\ OneEach(cmds')
    BY <2>1, SMTT(30) DEF Pending, OneEach
  <2>3. QED
    BY <2>2 DEF Tidy
<1>3. QED
  BY <1>1, <1>2, TidyCommand, TidyEntities, TidyClients, TidyGcSteps DEF StoreNext

-----------------------------------------------------------------------------
(* The clients and their temp tags. *)

\* The states of a handle that has been loaded.
LEMMA LoadedIs ==
    ASSUME NEW h PROVE Loaded(h) <=> handle[h] \in LoadedAs
BY DEF Loaded, LoadedAs

\* One client goes on and no entity in use is reset.
LEMMA ClientOthers ==
    ASSUME Types, ClientsOk, NEW c \in Clients,
           \A d \in Clients : d # c => client'[d] = client[d] /\ temp'[d] = temp[d],
           \A h \in Blobs : handle[h] \in LoadedAs => handle'[h] \in LoadedAs,
           ClientOk(c)'
    PROVE  ClientsOk'
<1> SUFFICES ASSUME NEW d \in Clients, d # c PROVE ClientOk(d)'
  BY DEF ClientsOk
<1>1. ClientOk(d) /\ client'[d] = client[d] /\ temp'[d] = temp[d]
  BY DEF ClientsOk
<1>2. QED
  BY <1>1, LoadedIs DEF ClientOk, Loaded, LoadedAs

\* No client goes on, and no entity that one of them has moved data to is reset.
LEMMA ClientsStay ==
    ASSUME ClientsOk, UNCHANGED <<client, temp>>,
           \A c \in Clients : client[c].pc \in {"moved", "updating"} =>
               handle'[client[c].hash] \in LoadedAs
    PROVE  ClientsOk'
<1> SUFFICES ASSUME NEW d \in Clients PROVE ClientOk(d)'
  BY DEF ClientsOk
<1>1. ClientOk(d) /\ client'[d] = client[d] /\ temp'[d] = temp[d]
  BY DEF ClientsOk
<1>2. QED
  BY <1>1 DEF ClientOk, Loaded, LoadedAs

\* A command that is handled leaves its client where the client expects to
\* be.
LEMMA ClientsCommand ==
    ASSUME Types, Tidy, ClientsOk, HandleCommand
    PROVE  ClientsOk'
<1>1. PICK cmd \in Commands : cmd = Head(cmds) /\ Taken(cmd)
  <2>1. Taken(Head(cmds))
    BY TakesHead DEF HandleCommand, Types, Tidy
  <2>2. QED
    BY <2>1 DEF Taken
<1>2. Awaited(cmd) /\ UNCHANGED temp
  BY <1>1 DEF Taken, Tidy, HandleCommand
<1>3. CASE cmd.op = "Update" /\ HandleUpdate(cmd)
  <2>1. CASE cmd.by \in Clients
    <3>0. PICK c \in Clients : c = cmd.by
      BY <2>1
    <3>1. client[c].pc = "updating" /\ ClientOk(c)
      BY <1>2, <1>3, <3>0 DEF Awaited, ClientsOk
    <3>2. client'[c].pc = "held" /\ client'[c].op = client[c].op /\ client'[c].hash = client[c].hash
      BY <1>3, <3>0, UpdateAnswers
    <3>3. ClientOk(c)'
      BY <1>2, <3>1, <3>2 DEF ClientOk
    <3>4. \A d \in Clients : d # c => client'[d] = client[d]
      BY <1>3, <3>0, UpdateAnswers
    <3>5. UNCHANGED handle
      BY <1>3 DEF HandleUpdate
    <3>6. QED
      BY <1>2, <3>3, <3>4, <3>5, ClientOthers
  <2>2. CASE cmd.by \notin Clients
    <3>1. UNCHANGED handle /\ \A d \in Clients : client'[d] = client[d]
      BY <1>3, <2>2, UpdateAnswers DEF HandleUpdate
    <3>2. QED
      BY <1>2, <3>1, SMTT(30) DEF ClientsOk, ClientOk, Loaded
  <2>3. QED
    BY <2>1, <2>2
<1>4. CASE cmd.op = "Set" /\ HandleSet(cmd)
  <2>1. UNCHANGED client /\ \A h \in Blobs : handle[h] \in LoadedAs => handle'[h] \in LoadedAs
    BY <1>4 DEF HandleSet, Types, LoadedAs
  <2>2. QED
    BY <1>2, <2>1, ClientsStay DEF ClientsOk, ClientOk, Loaded, LoadedAs
<1>5. CASE cmd.op = "Get" /\ HandleGet(cmd)
  <2>1. UNCHANGED client /\ handle[cmd.hash] = "loading"
    BY <1>2, <1>5 DEF HandleGet, Awaited
  <2>2. \A h \in Blobs : handle[h] \in LoadedAs => handle'[h] \in LoadedAs
    BY <1>5, <2>1 DEF HandleGet, Types, LoadedAs
  <2>3. QED
    BY <1>2, <2>1, <2>2, ClientsStay DEF ClientsOk, ClientOk, Loaded, LoadedAs
<1>6. ASSUME cmd.op \in {"SetTag", "RenameTag"}, UNCHANGED handle,
             NEW p \in {"idle", "tagged"}, client' = [client EXCEPT ![cmd.by].pc = p],
             p = "idle" => client[cmd.by].op = "none", p = "tagged" => client[cmd.by].op = "import"
      PROVE  ClientsOk'
  <2>0. PICK c \in Clients : c = cmd.by
    BY <1>6, CommandFields
  <2>1. ClientTo(c, p, client[c].op, client[c].hash)
    BY <1>6, <2>0, ClientMoves DEF ClientPcs
  <2>2. ClientOk(c) /\ client[c].pc = "tagging"
    BY <1>2, <1>6, <2>0 DEF ClientsOk, Awaited
  <2>3. p = "tagged" => client[c].hash \in Blobs
    BY <1>6, <2>0, <2>2, RootFacts DEF ClientOk
  <2>4. ClientOk(c)'
    BY <1>2, <1>6, <2>0, <2>1, <2>2, <2>3 DEF ClientOk, ClientTo
  <2>5. QED
    BY <1>2, <1>6, <2>1, <2>4, ClientOthers DEF ClientTo
<1>7. CASE cmd.op = "SetTag" /\ HandleSetTag(cmd)
  BY <1>2, <1>6, <1>7 DEF HandleSetTag, Awaited
<1>8. CASE cmd.op = "RenameTag" /\ HandleRenameTag(cmd)
  BY <1>2, <1>6, <1>8 DEF HandleRenameTag, Awaited
<1>9. CASE UNCHANGED <<client, handle>>
  BY <1>2, <1>9 DEF ClientsOk, ClientOk, Loaded
<1>10. QED
  BY <1>1, <1>3, <1>4, <1>5, <1>7, <1>8, <1>9
     DEF HandleCommand, HandleDelete, HandleClearProtected, HandleListTags, HandleSnapshot, HandleSyncDb

\* A client stays where it is when an entity moves.
LEMMA ClientsEntity ==
    ASSUME Types, ClientsOk, NEW h \in Blobs, Load(h) \/ Open(h) \/ Recycle(h)
    PROVE  ClientsOk'
<1>1. UNCHANGED <<client, temp>>
  BY DEF Load, Open, Recycle
<1>2. \A g \in Blobs : g # h => handle'[g] = handle[g]
  BY DEF Load, Open, Recycle, Types
<1>3. ASSUME NEW c \in Clients, client[c].pc \in {"moved", "updating"}
      PROVE  handle'[client[c].hash] \in LoadedAs
  <2>1. client[c].hash \in Blobs /\ Loaded(client[c].hash)
    BY <1>3 DEF ClientsOk, ClientOk
  <2>2. InUse(client[c].hash)
    BY <1>3 DEF InUse
  <2>3. client[c].hash # h
    BY <2>1, <2>2 DEF Load, Open, Recycle, Loaded
  <2>4. QED
    BY <1>2, <2>1, <2>3 DEF Loaded, LoadedAs
<1>4. QED
  BY <1>1, <1>3, ClientsStay

\* What a step of a client does to its state, its temp tag and the entity.
LEMMA ClientsClient ==
    ASSUME Types, ClientsOk, NEW c \in Clients, ClientStep(c)
    PROVE  ClientsOk'
<1>1. ClientOk(c)
  BY DEF ClientsOk
<1>2. \A h \in Blobs : handle[h] \in LoadedAs => handle'[h] \in LoadedAs
  <2>1. CASE UNCHANGED handle
    BY <2>1
  <2>2. CASE CompleteImport(c)
    BY <2>1, <2>2 DEF CompleteImport, Types, LoadedAs
  <2>3. CASE WriteBatch(c)
    BY <2>1, <2>3, SMTT(30) DEF WriteBatch, Types, LoadedAs
  <2>4. QED
    BY <2>1, <2>2, <2>3
       DEF ClientStep, BeginImport, BeginDownload, BeginObserve, EndObserve, MoveImported,
           AbortDownload, SetTag, DropTempTag, DeleteTag, RenameTag
<1>3. ASSUME NEW p, NEW o, NEW h, ClientTo(c, p, o, h),
             \A d \in Clients : d # c => temp'[d] = temp[d],
             p \notin {"idle", "tagging"} => h \in Blobs,
             p \in {"moved", "updating", "held", "tagged"} => o = "import",
             p = "idle" => o = "none",
             p = "observing" => o = "observe",
             p = "tagging" => o \in {"none", "import"},
             p \in {"moved", "updating"} => handle'[h] \in LoadedAs,
             o = "import" => temp'[c] \in Roots /\ temp'[c].hash = h,
             o = "download" => temp'[c] \in Roots,
             o \in {"none", "observe"} => temp'[c] = NoRoot
      PROVE  ClientsOk'
  <2>1. ClientOk(c)'
    BY <1>3 DEF ClientTo, ClientOk, Loaded, LoadedAs
  <2>2. QED
    BY <1>2, <1>3, <2>1, ClientOthers DEF ClientTo
<1>4. ASSUME ClientTo(c, "idle", "none", "none"), \A d \in Clients : d # c => temp'[d] = temp[d],
             temp'[c] = NoRoot
      PROVE  ClientsOk'
  BY <1>3, <1>4
<1>5. ASSUME NEW p \in {"moved", "updating", "got", "load", "tagging"},
             ClientTo(c, p, client[c].op, client[c].hash), UNCHANGED temp,
             client[c].pc \notin {"idle", "tagging"} \/ p = "tagging",
             p \in {"moved", "updating"} => client[c].op = "import" /\ handle'[client[c].hash] \in LoadedAs,
             p = "tagging" => client[c].op \in {"none", "import"}
      PROVE  ClientsOk'
  BY <1>1, <1>3, <1>5, SMTT(30) DEF ClientOk
<1>6. CASE BeginImport(c)
  <2>1. PICK root \in Roots :
            /\ temp' = [temp EXCEPT ![c] = root]
            /\ client' = [client EXCEPT ![c] = [pc |-> "load", op |-> "import", hash |-> root.hash]]
    BY <1>6 DEF BeginImport
  <2>2. root.hash \in Blobs
    BY RootFacts
  <2>3. ClientTo(c, "load", "import", root.hash)
    BY <2>1, <2>2, ClientMoves DEF ClientPcs, ClientOps
  <2>4. temp'[c] = root /\ \A d \in Clients : d # c => temp'[d] = temp[d]
    BY <2>1 DEF Types
  <2>5. QED
    BY <1>3, <2>2, <2>3, <2>4
<1>7. CASE BeginDownload(c)
  <2>1. PICK h \in Blobs :
            /\ temp' = [temp EXCEPT ![c] = [hash |-> h, format |-> "raw"]]
            /\ client' = [client EXCEPT ![c] = [pc |-> "load", op |-> "download", hash |-> h]]
    BY <1>7 DEF BeginDownload
  <2>3. ClientTo(c, "load", "download", h)
    BY <2>1, ClientMoves DEF ClientPcs, ClientOps
  <2>4. temp'[c] \in Roots /\ \A d \in Clients : d # c => temp'[d] = temp[d]
    BY <2>1, RootFacts DEF Types
  <2>5. QED
    BY <1>3, <2>3, <2>4
<1>8. CASE BeginObserve(c)
  <2>1. PICK h \in Blobs :
            client' = [client EXCEPT ![c] = [pc |-> "observing", op |-> "observe", hash |-> h]]
    BY <1>8 DEF BeginObserve
  <2>3. ClientTo(c, "observing", "observe", h)
    BY <2>1, ClientMoves DEF ClientPcs, ClientOps
  <2>4. UNCHANGED temp /\ temp[c] = NoRoot
    BY <1>1, <1>8 DEF BeginObserve, Begins, ClientOk
  <2>5. QED
    BY <1>3, <2>3, <2>4
<1>9. CASE EndObserve(c)
  <2>1. ClientTo(c, "idle", "none", "none") /\ UNCHANGED temp
    BY <1>9, ClientMoves DEF EndObserve
  <2>2. temp[c] = NoRoot
    BY <1>1, <1>9 DEF EndObserve, ClientOk
  <2>3. QED
    BY <1>4, <2>1, <2>2
<1>10. CASE MoveImported(c)
  <2>1. ClientTo(c, "moved", client[c].op, client[c].hash) /\ UNCHANGED <<temp, handle>>
    BY <1>10, ClientMoves DEF MoveImported, ClientPcs
  <2>2. client[c].pc = "load" /\ client[c].op = "import" /\ handle[client[c].hash] \in LoadedAs
    BY <1>10 DEF MoveImported, Loaded, LoadedAs
  <2>3. QED
    BY <1>5, <2>1, <2>2
<1>11. CASE CompleteImport(c)
  <2>1. CASE client' = [client EXCEPT ![c] = Resting] /\ temp' = [temp EXCEPT ![c] = NoRoot]
    <3>1. ClientTo(c, "idle", "none", "none")
      BY <2>1, ClientMoves
    <3>2. temp'[c] = NoRoot /\ \A d \in Clients : d # c => temp'[d] = temp[d]
      BY <2>1 DEF Types
    <3>3. QED
      BY <1>4, <3>1, <3>2
  <2>2. CASE client' = [client EXCEPT ![c].pc = "updating"] /\ UNCHANGED temp
    <3>1. ClientTo(c, "updating", client[c].op, client[c].hash)
      BY <2>2, ClientMoves DEF ClientPcs
    <3>2. client[c].pc = "moved" /\ client[c].op = "import" /\ client[c].hash \in Blobs
          /\ handle[client[c].hash] \in LoadedAs
      BY <1>1, <1>11 DEF CompleteImport, ClientOk, Loaded, LoadedAs
    <3>3. QED
      BY <1>2, <1>5, <2>2, <3>1, <3>2
  <2>3. QED
    BY <1>11, <2>1, <2>2 DEF CompleteImport
<1>12. CASE WriteBatch(c) \/ AbortDownload(c)
  <2>1. PICK p \in {"got", "load"} : client' = [client EXCEPT ![c].pc = p]
    BY <1>12 DEF WriteBatch, AbortDownload
  <2>2. ClientTo(c, p, client[c].op, client[c].hash)
    BY <2>1, ClientMoves DEF ClientPcs
  <2>3. client[c].pc = "load" /\ UNCHANGED temp
    BY <1>12 DEF WriteBatch, AbortDownload
  <2>4. QED
    BY <1>5, <2>2, <2>3
<1>13. CASE SetTag(c) \/ DeleteTag(c) \/ RenameTag(c)
  <2>1. ClientTo(c, "tagging", client[c].op, client[c].hash) /\ UNCHANGED temp
    BY <1>13, ClientMoves DEF SetTag, DeleteTag, RenameTag, ClientPcs
  <2>2. client[c].op \in {"none", "import"}
    BY <1>1, <1>13 DEF SetTag, DeleteTag, RenameTag, Begins, ClientOk
  <2>3. QED
    BY <1>5, <2>1, <2>2
<1>14. CASE DropTempTag(c)
  <2>1. ClientTo(c, "idle", "none", "none")
    BY <1>14, ClientMoves DEF DropTempTag
  <2>2. temp'[c] = NoRoot /\ \A d \in Clients : d # c => temp'[d] = temp[d]
    BY <1>14 DEF DropTempTag, Types
  <2>3. QED
    BY <1>4, <2>1, <2>2
<1>15. QED
  BY <1>6, <1>7, <1>8, <1>9, <1>10, <1>11, <1>12, <1>13, <1>14 DEF ClientStep

\* No step puts a client out of step with its operation.
LEMMA ClientsStep ==
    ASSUME Types, Tidy, ClientsOk, [StoreNext]_storeVars
    PROVE  ClientsOk'
<1>1. CASE UNCHANGED <<client, temp, handle>>
  BY <1>1 DEF ClientsOk, ClientOk, Loaded
<1>2. CASE Crash
  <2>1. \A c \in Clients : client'[c] = Resting /\ temp'[c] = NoRoot
    BY <1>2 DEF Crash
  <2>2. Resting.pc = "idle" /\ Resting.op = "none"
    BY DEF Resting
  <2>3. QED
    BY <2>1, <2>2 DEF ClientsOk, ClientOk
<1>3. QED
  BY <1>1, <1>2, ClientsCommand, ClientsEntity, ClientsClient
     DEF StoreNext, CommitTxn, DeleteFiles, GcStart, GcListTags, GcListTempTags, GcMark,
         GcReadChildren, GcList, GcSweep, GcSync, gcRest, storeVars

-----------------------------------------------------------------------------
(* The files. *)

\* No file goes away or is marked to go, and no hash stops to count as raced.
Calm ==
    /\ marked' \subseteq marked /\ raced \subseteq raced'
    /\ \A h \in Blobs : /\ file[h] = "full" => file'[h] = "full"
                        /\ file[h] # "none" => file'[h] # "none"

\* A calm step leaves sound what it does not touch.
LEMMA CalmFacts ==
    ASSUME Types, ClientsOk, FilesInv, Calm
    PROVE  /\ \A d \in Pending(cmds) : SoundCmd(d)'
           /\ \A c \in Clients : client'[c] = client[c] => SoundImport(c)'
           /\ \A h \in Blobs :
                 db'[h] = db[h] /\ saved'.db[h] = saved.db[h] /\ handle'[h] = handle[h]
                 /\ got'[h] = got[h] => Sound(h)'
<1>1. ASSUME NEW d \in Pending(cmds) PROVE SoundCmd(d)'
  <2>1. d \in Commands /\ SoundCmd(d)
    BY PendingTyped DEF FilesInv
  <2>2. CASE d.op \in {"Update", "Set"}
    <3>1. d.hash \in Blobs
      BY <2>1, <2>2, CommandFields
    <3>2. QED
      BY <2>1, <3>1 DEF SoundCmd, Calm
  <2>3. CASE d.op \notin {"Update", "Set"}
    BY <2>3 DEF SoundCmd
  <2>4. QED
    BY <2>2, <2>3
<1>2. ASSUME NEW c \in Clients, client'[c] = client[c] PROVE SoundImport(c)'
  <2>1. SoundImport(c) /\ (client[c].pc = "moved" => client[c].hash \in Blobs)
    BY <1>2 DEF FilesInv, ClientsOk, ClientOk
  <2>2. QED
    BY <1>2, <2>1 DEF SoundImport, Calm
<1>3. ASSUME NEW h \in Blobs, db'[h] = db[h], saved'.db[h] = saved.db[h],
             handle'[h] = handle[h], got'[h] = got[h]
      PROVE  Sound(h)'
  <2>1. Sound(h)
    BY DEF FilesInv
  <2>2. QED
    BY <1>3, <2>1 DEF Sound, Calm
<1>4. QED
  BY <1>1, <1>2, <1>3

\* Handling a command keeps entries and files in agreement.
LEMMA FilesCommand ==
    ASSUME Types, Tidy, ClientsOk, FilesInv, HandleCommand
    PROVE  FilesInv'
<1>1. PICK cmd \in Commands : cmd = Head(cmds) /\ Taken(cmd)
  <2>1. Taken(Head(cmds))
    BY TakesHead DEF HandleCommand, Types, Tidy
  <2>2. QED
    BY <2>1 DEF Taken
<1>2. Awaited(cmd) /\ SoundCmd(cmd) /\ UNCHANGED <<saved, file>> /\ Pending(cmds') \subseteq Pending(cmds)
  BY <1>1 DEF Taken, Tidy, FilesInv, HandleCommand
\* commands that write the entry of one hash
<1>3. ASSUME NEW h \in Blobs, cmd.hash = h, UNCHANGED <<marked, raced>>,
             \A c \in Clients : client'[c] = client[c] \/ client'[c].pc # "moved",
             \A g \in Blobs : g # h => db'[g] = db[g] /\ handle'[g] = handle[g] /\ got'[g] = got[g],
             Sound(h)', txn' # "open" => txn # "open" /\ db' = db
      PROVE  FilesInv'
  <2>1. Calm
    BY <1>2, <1>3 DEF Calm
  <2>2. \A d \in Pending(cmds') : SoundCmd(d)'
    BY <1>2, <2>1, CalmFacts
  <2>3. \A c \in Clients : SoundImport(c)'
    BY <1>3, <2>1, CalmFacts DEF SoundImport
  <2>4. \A g \in Blobs : Sound(g)'
    BY <1>2, <1>3, <2>1, CalmFacts
  <2>5. txn' # "open" => saved'.db = db'
    BY <1>2, <1>3 DEF FilesInv
  <2>6. QED
    BY <2>2, <2>3, <2>4, <2>5 DEF FilesInv
<1>4. CASE cmd.op = "Update" /\ HandleUpdate(cmd) /\ UNCHANGED got
  <2>1. PICK h \in Blobs : h = cmd.hash
    BY <1>4, CommandFields
  <2>2. Sound(h) /\ cmd.state \in {"partial", CompleteAs(h)}
        /\ (h \notin raced \cup Small => h \notin marked /\ (cmd.state = "owned" => file[h] = "full"))
    BY <1>2, <1>4, <2>1 DEF FilesInv, SoundCmd
  <2>3. db'[h] = Union(db[h], cmd.state) /\ \A g \in Blobs : g # h => db'[g] = db[g]
    BY <1>4, <2>1 DEF HandleUpdate, Types
  <2>4. UNCHANGED <<marked, raced, handle, saved, file, got>> /\ txn' = "open"
    BY <1>2, <1>4 DEF HandleUpdate
  <2>5. Sound(h)'
    BY <2>2, <2>3, <2>4 DEF Sound, Union, CompleteAs
  <2>6. \A c \in Clients : client'[c] = client[c] \/ client'[c].pc # "moved"
    BY <1>4, UpdateAnswers
  <2>7. QED
    BY <1>3, <2>1, <2>3, <2>4, <2>5, <2>6
<1>5. CASE cmd.op = "Set" /\ HandleSet(cmd) /\ UNCHANGED got
  <2>1. PICK h \in Blobs : h = cmd.hash
    BY <1>5, CommandFields
  <2>2. Sound(h) /\ cmd.state \in {"partial", CompleteAs(h)} /\ handle[h] = "setting"
        /\ (h \notin raced \cup Small => h \notin marked /\ (cmd.state = "owned" => file[h] = "full"))
    BY <1>2, <1>5, <2>1 DEF FilesInv, SoundCmd, Awaited
  <2>3. db'[h] = cmd.state /\ handle'[h] = "complete"
        /\ \A g \in Blobs : g # h => db'[g] = db[g] /\ handle'[g] = handle[g]
    BY <1>5, <2>1 DEF HandleSet, Types
  <2>4. UNCHANGED <<marked, raced, client, saved, file, got>> /\ txn' = "open"
    BY <1>2, <1>5 DEF HandleSet
  <2>5. Sound(h)'
    BY <2>2, <2>3, <2>4 DEF Sound, CompleteAs
  <2>7. QED
    BY <1>3, <2>1, <2>3, <2>4, <2>5
<1>6. CASE cmd.op = "Get" /\ HandleGet(cmd)
  <2>1. PICK h \in Blobs : h = cmd.hash
    BY <1>6, CommandFields
  <2>2. Sound(h)
    BY DEF FilesInv
  <2>3. got'[h] = db[h] /\ handle'[h] = "opening"
        /\ \A g \in Blobs : g # h => got'[g] = got[g] /\ handle'[g] = handle[g]
    BY <1>6, <2>1 DEF HandleGet, Types
  <2>4. UNCHANGED <<marked, raced, client, saved, file, db, txn>>
    BY <1>2, <1>6 DEF HandleGet
  <2>5. Sound(h)'
    BY <2>2, <2>3, <2>4 DEF Sound
  <2>7. QED
    BY <1>3, <2>1, <2>3, <2>4, <2>5
\* commands that write no entry
<1>7. ASSUME UNCHANGED <<marked, raced, db, handle, got>>, txn' = "open" \/ txn' = txn,
             \A c \in Clients : client'[c] = client[c] \/ client'[c].pc # "moved"
      PROVE  FilesInv'
  <2>1. Calm
    BY <1>2, <1>7 DEF Calm
  <2>2. \A d \in Pending(cmds') : SoundCmd(d)'
    BY <1>2, <2>1, CalmFacts
  <2>3. \A c \in Clients : SoundImport(c)'
    BY <1>7, <2>1, CalmFacts DEF SoundImport
  <2>4. \A g \in Blobs : Sound(g)'
    BY <1>2, <1>7, <2>1, CalmFacts
  <2>5. txn' # "open" => saved'.db = db'
    BY <1>2, <1>7 DEF FilesInv
  <2>6. QED
    BY <2>2, <2>3, <2>4, <2>5 DEF FilesInv
<1>8. CASE cmd.op = "SetTag" /\ HandleSetTag(cmd) /\ UNCHANGED got
  <2>1. PICK c \in Clients : c = cmd.by
    BY <1>8, CommandFields
  <2>2. PICK p \in {"idle", "tagged"} : client' = [client EXCEPT ![c].pc = p]
    BY <1>8, <2>1 DEF HandleSetTag
  <2>3. ClientTo(c, p, client[c].op, client[c].hash)
    BY <2>2, ClientMoves DEF ClientPcs
  <2>4. \A d \in Clients : client'[d] = client[d] \/ client'[d].pc # "moved"
    BY <2>3 DEF ClientTo
  <2>5. QED
    BY <1>7, <1>8, <2>4 DEF HandleSetTag
<1>9. CASE cmd.op = "RenameTag" /\ HandleRenameTag(cmd) /\ UNCHANGED got
  <2>1. PICK c \in Clients : c = cmd.by
    BY <1>9, CommandFields
  <2>3. ClientTo(c, "idle", client[c].op, client[c].hash)
    BY <1>9, <2>1, ClientMoves DEF HandleRenameTag, ClientPcs
  <2>4. \A d \in Clients : client'[d] = client[d] \/ client'[d].pc # "moved"
    BY <2>3 DEF ClientTo
  <2>5. QED
    BY <1>7, <1>9, <2>4 DEF HandleRenameTag
<1>10. CASE \/ cmd.op = "ClearProtected" /\ HandleClearProtected(cmd) /\ UNCHANGED got
            \/ cmd.op = "ListTags" /\ HandleListTags(cmd) /\ UNCHANGED got
            \/ cmd.op = "Snapshot" /\ HandleSnapshot(cmd) /\ UNCHANGED got
            \/ cmd.op = "SyncDb" /\ HandleSyncDb(cmd) /\ UNCHANGED got
  BY <1>7, <1>10 DEF HandleClearProtected, HandleListTags, HandleSnapshot, HandleSyncDb
\* delete: what is marked and not raced has an entity that nobody uses
<1>11. CASE cmd.op = "Delete" /\ HandleDelete(cmd) /\ UNCHANGED got
  <2> DEFINE gone == {h \in cmd.hashes \ protected : db[h] # "none"}
  <2>1. /\ \A h \in Blobs : db'[h] = IF h \in gone THEN "none" ELSE db[h]
        /\ \A h \in marked' : h \in marked \/ h \in gone
        /\ raced \subseteq raced'
        /\ \A h \in gone : h \notin raced' => handle[h] = "initial" /\ ~ UpdatePending(h)
    BY <1>11 DEF HandleDelete
  <2>2. UNCHANGED <<handle, client, got, saved, file>> /\ txn' = "open"
    BY <1>2, <1>11 DEF HandleDelete
  <2> HIDE DEF gone
  <2>3. ASSUME NEW h \in Blobs PROVE Sound(h)'
    <3>1. Sound(h)
      BY DEF FilesInv
    <3>2. CASE h \in gone
      BY <2>1, <2>2, <3>1, <3>2 DEF Sound
    <3>3. CASE h \notin gone
      BY <2>1, <2>2, <3>1, <3>3 DEF Sound
    <3>4. QED
      BY <3>2, <3>3
  <2>4. ASSUME NEW d \in Pending(cmds'), d.op \in {"Update", "Set"} PROVE SoundCmd(d)'
    <3>1. d \in Pending(cmds) /\ d \in Commands /\ SoundCmd(d) /\ Awaited(d)
      BY <1>2, PendingTyped DEF FilesInv, Tidy
    <3>2. CASE d.hash \in gone
      <4>1. d.op = "Update" => UpdatePending(d.hash)
        BY <3>1 DEF UpdatePending, Pending
      <4>2. d.op = "Set" => handle[d.hash] = "setting"
        BY <3>1 DEF Awaited
      <4>3. d.hash \in raced'
        BY <2>1, <2>4, <3>2, <4>1, <4>2
      <4>4. QED
        BY <3>1, <4>3 DEF SoundCmd
    <3>3. CASE d.hash \notin gone
      BY <2>1, <2>2, <3>1, <3>3 DEF SoundCmd
    <3>4. QED
      BY <3>2, <3>3
  <2>5. ASSUME NEW c \in Clients PROVE SoundImport(c)'
    <3>1. SoundImport(c) /\ ClientOk(c)
      BY DEF FilesInv, ClientsOk
    <3>2. CASE client[c].pc = "moved" /\ client[c].hash \in gone
      <4>1. client[c].hash \in raced'
        BY <2>1, <3>1, <3>2 DEF ClientOk, Loaded
      <4>2. QED
        BY <2>2, <4>1 DEF SoundImport
    <3>3. CASE client[c].pc # "moved" \/ client[c].hash \notin gone
      BY <2>1, <2>2, <3>1, <3>3 DEF SoundImport
    <3>4. QED
      BY <3>2, <3>3
  <2>6. \A d \in Pending(cmds') : SoundCmd(d)'
    BY <2>4 DEF SoundCmd
  <2>7. QED
    BY <2>2, <2>3, <2>5, <2>6 DEF FilesInv
<1>12. QED
  BY <1>1, <1>4, <1>5, <1>6, <1>8, <1>9, <1>10, <1>11 DEF HandleCommand

\* The transaction: at its end the entries are those of the database.
LEMMA FilesCommit ==
    ASSUME Types, Tidy, ClientsOk, FilesInv, CommitTxn \/ DeleteFiles \/ Crash
    PROVE  FilesInv'
<1>1. CASE CommitTxn
  <2>1. saved'.db = db
    BY <1>1 DEF CommitTxn
  <2>2. UNCHANGED <<db, marked, file, cmds, handle, got, client, raced>>
    BY <1>1 DEF CommitTxn
  <2>3. \A h \in Blobs : Sound(h)'
    BY <2>1, <2>2 DEF FilesInv, Sound
  <2>4. QED
    BY <2>1, <2>2, <2>3 DEF FilesInv, SoundCmd, SoundImport
<1>2. CASE DeleteFiles
  <2>1. saved.db = db /\ UNCHANGED <<db, saved, cmds, handle, got, client, raced>> /\ marked' = {}
    BY <1>2 DEF DeleteFiles, FilesInv
  <2>2. \A h \in Blobs : h \notin marked => file'[h] = file[h]
    BY <1>2 DEF DeleteFiles
  <2>3. ASSUME NEW h \in Blobs PROVE Sound(h)'
    <3>1. Sound(h)
      BY DEF FilesInv
    <3>2. QED
      BY <2>1, <2>2, <3>1 DEF Sound
  <2>4. ASSUME NEW d \in Pending(cmds), d.op \in {"Update", "Set"} PROVE SoundCmd(d)'
    <3>1. d \in Commands /\ SoundCmd(d)
      BY PendingTyped DEF FilesInv
    <3>2. d.hash \in Blobs
      BY <2>4, <3>1, CommandFields
    <3>3. QED
      BY <2>1, <2>2, <3>1, <3>2 DEF SoundCmd
  <2>5. ASSUME NEW c \in Clients PROVE SoundImport(c)'
    <3>1. SoundImport(c) /\ (client[c].pc = "moved" => client[c].hash \in Blobs)
      BY DEF FilesInv, ClientsOk, ClientOk
    <3>2. QED
      BY <2>1, <2>2, <3>1 DEF SoundImport
  <2>6. \A d \in Pending(cmds') : SoundCmd(d)'
    BY <2>1, <2>4 DEF SoundCmd
  <2>7. QED
    BY <2>1, <2>3, <2>5, <2>6 DEF FilesInv
<1>3. CASE Crash
  <2>1. db' = saved.db /\ UNCHANGED <<saved, file, raced>> /\ marked' = {} /\ cmds' = <<>>
    BY <1>3 DEF Crash
  <2>2. \A h \in Blobs : handle'[h] = "initial" /\ got'[h] = "none"
    BY <1>3 DEF Crash
  <2>3. \A c \in Clients : client'[c].pc # "moved"
    BY <1>3 DEF Crash, Resting
  <2>4. ASSUME NEW h \in Blobs PROVE Sound(h)'
    <3>1. Sound(h)
      BY DEF FilesInv
    <3>2. QED
      BY <2>1, <2>2, <3>1 DEF Sound
  <2>5. Pending(cmds') = {}
    BY <2>1, SMTT(30) DEF Pending
  <2>6. QED
    BY <2>1, <2>3, <2>4, <2>5 DEF FilesInv, SoundImport
<1>4. QED
  BY <1>1, <1>2, <1>3

\* The entities.  One that is recycled is not used by anyone.
LEMMA FilesEntity ==
    ASSUME Types, Tidy, ClientsOk, FilesInv, NEW h \in Blobs, Load(h) \/ Open(h) \/ Recycle(h)
    PROVE  FilesInv'
<1>1. UNCHANGED <<db, saved, txn, marked, client>>
  BY DEF Load, Open, Recycle
<1>2. \A g \in Blobs : g # h => handle'[g] = handle[g] /\ got'[g] = got[g] /\ file'[g] = file[g]
  BY DEF Load, Open, Recycle, Types
<1>3. Sound(h)
  BY DEF FilesInv
<1>4. ASSUME Calm, Sound(h)', \A d \in Pending(cmds') : d \in Pending(cmds) \/ SoundCmd(d)'
      PROVE  FilesInv'
  <2>1. \A g \in Blobs : Sound(g)'
    BY <1>1, <1>2, <1>4, CalmFacts
  <2>2. \A d \in Pending(cmds') : SoundCmd(d)'
    BY <1>4, CalmFacts
  <2>3. \A c \in Clients : SoundImport(c)'
    BY <1>1, <1>4, CalmFacts
  <2>4. QED
    BY <1>1, <2>1, <2>2, <2>3 DEF FilesInv
<1>5. CASE Load(h)
  <2>1. UNCHANGED <<raced, file, got>> /\ handle[h] = "initial" /\ handle'[h] = "loading"
    BY <1>5 DEF Load, Types
  <2>2. Calm
    BY <1>1, <2>1 DEF Calm
  <2>3. Sound(h)'
    BY <1>1, <1>3, <2>1 DEF Sound
  <2> DEFINE cmd == [op |-> "Get", hash |-> h]
  <2>4. cmd \in Commands /\ Send(cmd) /\ cmd.op = "Get"
    BY <1>5, CommandMade DEF Load
  <2> HIDE DEF cmd
  <2>5. Sent(cmd)
    BY <2>4, SendsLast DEF Types, Tidy
  <2>6. SoundCmd(cmd)'
    BY <2>4 DEF SoundCmd
  <2>7. QED
    BY <1>4, <2>2, <2>3, <2>5, <2>6 DEF Sent
<1>6. CASE Open(h)
  <2>1. UNCHANGED raced /\ handle[h] = "opening" /\ got'[h] = "none"
    BY <1>6 DEF Open, Types
  <2>2. file'[h] = file[h] \/ (file[h] = "none" /\ file'[h] = "partial")
    BY <1>6 DEF Open, Types
  <2>3. Calm
    <3>1. ASSUME NEW g \in Blobs
          PROVE  (file[g] = "full" => file'[g] = "full") /\ (file[g] # "none" => file'[g] # "none")
      BY <1>2, <2>2
    <3>2. QED
      BY <1>1, <2>1, <3>1 DEF Calm
  <2>4. \/ handle'[h] \in {"absent", "complete", "poisoned"} /\ UNCHANGED cmds
        \/ handle'[h] = "partial" /\ got[h] = "partial" /\ file'[h] # "none" /\ UNCHANGED cmds
        \/ /\ handle'[h] = "setting" /\ got[h] = "partial" /\ file[h] = "full" /\ UNCHANGED file
           /\ Send([op |-> "Set", hash |-> h, state |-> CompleteAs(h)])
    BY <1>6 DEF Open, Types
  <2>5. Sound(h)'
    BY <1>1, <1>3, <2>1, <2>2, <2>4 DEF Sound
  <2>6. CASE UNCHANGED cmds
    BY <1>4, <2>3, <2>5, <2>6
  <2>7. CASE /\ got[h] = "partial" /\ file[h] = "full" /\ UNCHANGED file
             /\ Send([op |-> "Set", hash |-> h, state |-> CompleteAs(h)])
    <3> DEFINE cmd == [op |-> "Set", hash |-> h, state |-> CompleteAs(h)]
    <3>1. cmd \in Commands /\ Send(cmd) /\ cmd.op = "Set" /\ cmd.hash = h /\ cmd.state = CompleteAs(h)
      BY <2>7, CommandMade, RootFacts
    <3> HIDE DEF cmd
    <3>2. Sent(cmd)
      BY <3>1, SendsLast DEF Types, Tidy
    <3>3. SoundCmd(cmd)'
      BY <1>1, <1>3, <2>1, <2>7, <3>1 DEF SoundCmd, Sound
    <3>4. QED
      BY <1>4, <2>3, <2>5, <3>2, <3>3 DEF Sent
  <2>8. QED
    BY <2>4, <2>6, <2>7
<1>7. CASE Recycle(h)
  <2>1. UNCHANGED <<file, got, cmds>> /\ handle[h] \in LoadedAs /\ handle'[h] = "initial" /\ ~ InUse(h)
    BY <1>7 DEF Recycle, Types, Loaded, LoadedAs
  <2>2. CASE UNCHANGED raced
    <3>1. Calm
      BY <1>1, <2>1, <2>2 DEF Calm
    <3>2. Sound(h)'
      BY <1>1, <1>3, <2>1, <2>2 DEF Sound, LoadedAs
    <3>3. QED
      BY <1>4, <2>1, <3>1, <3>2
  <2>3. CASE raced' = raced \ {h} /\ db[h] = "none" /\ saved.db[h] = "none" /\ ~ UpdatePending(h)
    <3>1. ASSUME NEW g \in Blobs PROVE Sound(g)'
      <4>1. Sound(g)
        BY DEF FilesInv
      <4>2. CASE g = h
        BY <1>1, <2>1, <2>3, <4>1, <4>2 DEF Sound, LoadedAs
      <4>3. CASE g # h
        BY <1>1, <1>2, <2>3, <4>1, <4>3 DEF Sound
      <4>4. QED
        BY <4>2, <4>3
    <3>2. ASSUME NEW d \in Pending(cmds) PROVE SoundCmd(d)'
      <4>1. SoundCmd(d) /\ Awaited(d)
        BY DEF FilesInv, Tidy
      <4>2. d.op = "Update" => d.hash # h
        BY <2>3 DEF UpdatePending, Pending
      <4>3. d.op = "Set" => d.hash # h
        BY <2>1, <4>1 DEF Awaited, LoadedAs
      <4>4. QED
        BY <1>1, <2>1, <2>3, <4>1, <4>2, <4>3 DEF SoundCmd
    <3>3. ASSUME NEW c \in Clients PROVE SoundImport(c)'
      <4>1. SoundImport(c) /\ (client[c].pc = "moved" => client[c].hash # h)
        BY <2>1 DEF FilesInv, InUse
      <4>2. QED
        BY <1>1, <2>1, <2>3, <4>1 DEF SoundImport
    <3>4. QED
      BY <1>1, <2>1, <3>1, <3>2, <3>3 DEF FilesInv
  <2>4. QED
    BY <1>7, <2>2, <2>3 DEF Recycle
<1>8. QED
  BY <1>5, <1>6, <1>7

\* The clients.  What an import moves to its place is not deleted any more, and
\* what a download writes first is not either.
LEMMA FilesClient ==
    ASSUME Types, Tidy, ClientsOk, FilesInv, NEW c \in Clients, ClientStep(c)
    PROVE  FilesInv'
<1>1. UNCHANGED <<db, saved, txn, got, raced>>
  BY DEF ClientStep, BeginImport, BeginDownload, BeginObserve, EndObserve, MoveImported,
       CompleteImport, WriteBatch, AbortDownload, SetTag, DropTempTag, DeleteTag, RenameTag, metaRest
<1>2. \A d \in Clients : d # c => client'[d] = client[d]
  BY DEF ClientStep, BeginImport, BeginDownload, BeginObserve, EndObserve, MoveImported,
       CompleteImport, WriteBatch, AbortDownload, SetTag, DropTempTag, DeleteTag, RenameTag, Types
<1>3. ASSUME Calm, NEW h, \A g \in Blobs : g # h => handle'[g] = handle[g],
             h \in Blobs => Sound(h)', SoundImport(c)',
             \A d \in Pending(cmds') : d \in Pending(cmds) \/ SoundCmd(d)'
      PROVE  FilesInv'
  <2>1. \A g \in Blobs : Sound(g)'
    BY <1>1, <1>3, CalmFacts
  <2>2. \A d \in Pending(cmds') : SoundCmd(d)'
    BY <1>3, CalmFacts
  <2>3. \A d \in Clients : SoundImport(d)'
    BY <1>2, <1>3, CalmFacts
  <2>4. QED
    BY <1>1, <2>1, <2>2, <2>3 DEF FilesInv
<1>4. ASSUME UNCHANGED <<marked, file, handle>>, client'[c].pc # "moved",
             \A d \in Pending(cmds') : d \in Pending(cmds) \/ SoundCmd(d)'
      PROVE  FilesInv'
  <2>1. Calm
    BY <1>1, <1>4 DEF Calm
  <2>2. SoundImport(c)'
    BY <1>4 DEF SoundImport
  <2>3. "none" \notin Blobs
    BY StoreAssumption
  <2>4. QED
    BY <1>3, <1>4, <2>1, <2>2, <2>3
<1>5. ASSUME NEW p \in ClientPcs, NEW o, NEW h, ClientTo(c, p, o, h), p # "moved",
             UNCHANGED <<marked, file, handle, cmds>>
      PROVE  FilesInv'
  BY <1>4, <1>5 DEF ClientTo
<1>6. CASE BeginImport(c)
  <2>1. PICK root \in Roots :
            client' = [client EXCEPT ![c] = [pc |-> "load", op |-> "import", hash |-> root.hash]]
    BY <1>6 DEF BeginImport
  <2>2. ClientTo(c, "load", "import", root.hash)
    BY <2>1, RootFacts, ClientMoves DEF ClientPcs, ClientOps
  <2>3. QED
    BY <1>5, <1>6, <2>2 DEF BeginImport, ClientPcs
<1>7. CASE BeginDownload(c)
  <2>1. PICK h \in Blobs :
            client' = [client EXCEPT ![c] = [pc |-> "load", op |-> "download", hash |-> h]]
    BY <1>7 DEF BeginDownload
  <2>2. ClientTo(c, "load", "download", h)
    BY <2>1, ClientMoves DEF ClientPcs, ClientOps
  <2>3. QED
    BY <1>5, <1>7, <2>2 DEF BeginDownload, ClientPcs
<1>8. CASE BeginObserve(c)
  <2>1. PICK h \in Blobs :
            client' = [client EXCEPT ![c] = [pc |-> "observing", op |-> "observe", hash |-> h]]
    BY <1>8 DEF BeginObserve
  <2>2. ClientTo(c, "observing", "observe", h)
    BY <2>1, ClientMoves DEF ClientPcs, ClientOps
  <2>3. QED
    BY <1>5, <1>8, <2>2 DEF BeginObserve, ClientPcs
<1>9. CASE EndObserve(c) \/ DropTempTag(c)
  <2>1. ClientTo(c, "idle", "none", "none") /\ UNCHANGED <<marked, file, handle, cmds>>
    BY <1>9, ClientMoves DEF EndObserve, DropTempTag
  <2>2. QED
    BY <1>5, <2>1 DEF ClientPcs
<1>10. CASE AbortDownload(c)
  <2>1. ClientTo(c, "got", client[c].op, client[c].hash)
    BY <1>10, ClientMoves DEF AbortDownload, ClientPcs
  <2>2. QED
    BY <1>5, <1>10, <2>1 DEF AbortDownload, ClientPcs
<1>11. CASE SetTag(c) \/ DeleteTag(c) \/ RenameTag(c)
  <2>1. ClientTo(c, "tagging", client[c].op, client[c].hash) /\ UNCHANGED <<marked, file, handle>>
    BY <1>11, ClientMoves DEF SetTag, DeleteTag, RenameTag, ClientPcs
  <2>2. PICK cmd \in Commands : Send(cmd) /\ cmd.op \in {"SetTag", "RenameTag"}
    <3>1. ASSUME NEW n \in Names, NEW root \in MaybeRoots,
                 Send([op |-> "SetTag", name |-> n, root |-> root, by |-> c])
          PROVE  \E cmd \in Commands : Send(cmd) /\ cmd.op \in {"SetTag", "RenameTag"}
      BY <3>1, CommandMade
    <3>2. ASSUME NEW n \in Names, NEW m \in Names,
                 Send([op |-> "RenameTag", name |-> n, new |-> m, by |-> c])
          PROVE  \E cmd \in Commands : Send(cmd) /\ cmd.op \in {"SetTag", "RenameTag"}
      BY <3>2, CommandMade
    <3>3. temp[c] \in MaybeRoots /\ NoRoot \in MaybeRoots
      BY RootFacts DEF Types
    <3>4. QED
      BY <1>11, <3>1, <3>2, <3>3 DEF SetTag, DeleteTag, RenameTag
  <2>3. Sent(cmd)
    BY <2>2, SendsLast DEF Types, Tidy
  <2>4. SoundCmd(cmd)'
    BY <2>2 DEF SoundCmd
  <2>5. QED
    BY <1>4, <2>1, <2>3, <2>4 DEF ClientTo, Sent
<1>12. CASE MoveImported(c)
  <2>0. PICK h \in Blobs : h = client[c].hash
    BY <1>12 DEF MoveImported, ClientsOk, ClientOk
  <2>1. ClientTo(c, "moved", client[c].op, h) /\ UNCHANGED <<handle, cmds>>
    BY <1>12, <2>0, ClientMoves DEF MoveImported, ClientPcs
  <2>2. marked' = marked \ {h} /\ file' = [file EXCEPT ![h] = IF h \in Small THEN @ ELSE "full"]
    BY <1>12, <2>0 DEF MoveImported
  <2>3. (h \notin Small => file'[h] = "full") /\ (h \in Small => file'[h] = file[h])
        /\ \A g \in Blobs : g # h => file'[g] = file[g]
    BY <2>2 DEF Types
  <2>4. Calm
    BY <1>1, <2>2, <2>3 DEF Calm
  <2>5. SoundImport(c)'
    BY <2>1, <2>2, <2>3 DEF SoundImport, ClientTo
  <2>6. Sound(h)'
    BY <1>1, <2>1, <2>4, CalmFacts
  <2>7. QED
    BY <1>3, <2>1, <2>4, <2>5, <2>6
<1>13. CASE CompleteImport(c)
  <2>0. PICK h \in Blobs : h = client[c].hash
    BY <1>13 DEF CompleteImport, ClientsOk, ClientOk
  <2>1. UNCHANGED <<marked, file>> /\ client[c].pc = "moved"
    BY <1>13 DEF CompleteImport
  <2>2. CASE client' = [client EXCEPT ![c] = Resting] /\ UNCHANGED <<cmds, handle>>
    <3>1. ClientTo(c, "idle", "none", "none")
      BY <2>2, ClientMoves
    <3>2. QED
      BY <1>5, <2>1, <2>2, <3>1 DEF ClientPcs
  <2>3. CASE /\ handle' = [handle EXCEPT ![h] = IF @ = "poisoned" THEN @ ELSE "complete"]
             /\ Send([op |-> "Update", hash |-> h, state |-> CompleteAs(h), by |-> c])
             /\ client' = [client EXCEPT ![c].pc = "updating"]
    <3>1. ClientTo(c, "updating", client[c].op, client[c].hash)
      BY <2>3, ClientMoves DEF ClientPcs
    <3>2. handle'[h] \in {"poisoned", "complete"} /\ \A g \in Blobs : g # h => handle'[g] = handle[g]
      BY <2>3 DEF Types
    <3>3. handle[h] \in LoadedAs /\ Sound(h) /\ SoundImport(c)
      BY <2>0, <2>1 DEF ClientsOk, ClientOk, Loaded, LoadedAs, FilesInv
    <3>4. Calm
      BY <1>1, <2>1 DEF Calm
    <3>5. Sound(h)'
      BY <1>1, <2>1, <3>2, <3>3 DEF Sound, LoadedAs
    <3>6. SoundImport(c)'
      BY <3>1 DEF ClientTo, SoundImport
    <3> DEFINE cmd == [op |-> "Update", hash |-> h, state |-> CompleteAs(h), by |-> c]
    <3>7. cmd \in Commands /\ Send(cmd) /\ cmd.op = "Update" /\ cmd.hash = h /\ cmd.state = CompleteAs(h)
      BY <2>3, CommandMade DEF CompleteAs
    <3> HIDE DEF cmd
    <3>8. Sent(cmd)
      BY <3>7, SendsLast DEF Types, Tidy
    <3>9. SoundCmd(cmd)'
      BY <1>1, <2>0, <2>1, <3>3, <3>7 DEF SoundCmd, SoundImport
    <3>10. QED
      BY <1>3, <3>2, <3>4, <3>5, <3>6, <3>8, <3>9 DEF Sent
  <2>4. QED
    BY <1>13, <2>0, <2>2, <2>3 DEF CompleteImport
<1>14. CASE WriteBatch(c)
  <2>0. PICK h \in Blobs : h = client[c].hash
    BY <1>14 DEF WriteBatch, ClientsOk, ClientOk
  <2>1. PICK all \in BOOLEAN, validated \in BOOLEAN :
          LET first == handle[h] = "absent"
              inMemory == first /\ h \in Small /\ all
              written == IF all THEN "full" ELSE "partial" IN
          /\ client' = [client EXCEPT ![c].pc = IF all THEN "got" ELSE @]
          /\ \/ /\ handle[h] \in {"complete", "poisoned"}
                /\ UNCHANGED <<handle, marked, file, cmds>>
             \/ /\ handle[h] \in {"absent", "partial", "sized"}
                /\ handle' = [handle EXCEPT ![h] = IF all THEN "complete"
                                                   ELSE IF validated THEN "sized"
                                                   ELSE IF first THEN "partial" ELSE @]
                /\ marked' = IF first /\ ~inMemory THEN marked \ {h} ELSE marked
                /\ file' = IF inMemory \/ file[h] = "full" \/ (~first /\ file[h] = "none")
                           THEN file ELSE [file EXCEPT ![h] = written]
                /\ IF all \/ first \/ (validated /\ handle[h] = "partial")
                   THEN Send([op |-> "Update", hash |-> h, by |-> "none",
                              state |-> IF all THEN CompleteAs(h) ELSE "partial"])
                   ELSE UNCHANGED cmds
    BY <1>14, <2>0 DEF WriteBatch
  <2>2. client[c].pc = "load" /\ handle[h] \in LoadedAs
    BY <1>14, <2>0 DEF WriteBatch, Loaded, LoadedAs
  <2>3. PICK p \in {"got", "load"} : client' = [client EXCEPT ![c].pc = p]
    BY <2>1, <2>2
  <2>4. ClientTo(c, p, client[c].op, client[c].hash)
    BY <2>3, ClientMoves DEF ClientPcs
  <2>5. SoundImport(c)' /\ client'[c].pc # "moved"
    BY <2>4 DEF ClientTo, SoundImport
  <2>6. CASE UNCHANGED <<handle, marked, file, cmds>>
    BY <1>4, <2>5, <2>6
  <2>7. CASE /\ handle[h] \in {"absent", "partial", "sized"}
             /\ ~ UNCHANGED <<handle, marked, file, cmds>>
    <3> DEFINE first == handle[h] = "absent"
               inMemory == first /\ h \in Small /\ all
    <3>1. /\ handle'[h] = IF all THEN "complete" ELSE IF validated THEN "sized"
                          ELSE IF first THEN "partial" ELSE handle[h]
          /\ \A g \in Blobs : g # h => handle'[g] = handle[g]
      BY <2>1, <2>7 DEF Types
    <3>2. marked' = IF first /\ ~inMemory THEN marked \ {h} ELSE marked
      BY <2>1, <2>7
    <3>3. /\ file'[h] = IF inMemory \/ file[h] = "full" \/ (~first /\ file[h] = "none") THEN file[h]
                        ELSE IF all THEN "full" ELSE "partial"
          /\ \A g \in Blobs : g # h => file'[g] = file[g]
      BY <2>1, <2>7, SMTT(30) DEF Types
    <3>4. \/ UNCHANGED cmds
          \/ Send([op |-> "Update", hash |-> h, by |-> "none",
                   state |-> IF all THEN CompleteAs(h) ELSE "partial"])
      BY <2>1, <2>7
    <3>5. Sound(h)
      BY DEF FilesInv
    <3>6. Calm
      BY <1>1, <3>2, <3>3 DEF Calm
    <3>7. Sound(h)'
      <4>1. (db[h] = "owned" \/ saved.db[h] = "owned") => h \notin Small /\ (h \notin raced => file'[h] = "full")
        BY <3>3, <3>5 DEF Sound
      <4>2. db[h] # "none" /\ h \notin raced \cup Small => h \notin marked'
        BY <3>2, <3>5 DEF Sound
      <4>3. handle'[h] \in {"partial", "sized"} /\ h \notin raced \cup Small =>
                file'[h] # "none" /\ h \notin marked'
        BY <2>7, <3>1, <3>2, <3>3, <3>5 DEF Sound
      <4>4. got[h] = "none"
        BY <2>7, <3>5 DEF Sound
      <4>5. QED
        BY <1>1, <4>1, <4>2, <4>3, <4>4 DEF Sound
    <3>8. CASE UNCHANGED cmds
      BY <1>3, <2>5, <3>1, <3>6, <3>7, <3>8
    <3>9. CASE Send([op |-> "Update", hash |-> h, by |-> "none",
                     state |-> IF all THEN CompleteAs(h) ELSE "partial"])
      <4>0. PICK st \in {"partial", CompleteAs(h)} : st = IF all THEN CompleteAs(h) ELSE "partial"
        OBVIOUS
      <4> DEFINE cmd == [op |-> "Update", hash |-> h, by |-> "none", state |-> st]
      <4>1. cmd \in Commands /\ Send(cmd) /\ cmd.op = "Update" /\ cmd.hash = h /\ cmd.state = st
        BY <3>9, <4>0, CommandMade DEF CompleteAs
      <4> HIDE DEF cmd
      <4>2. Sent(cmd)
        BY <4>1, SendsLast DEF Types, Tidy
      <4>3. h \notin raced \cup Small => h \notin marked' /\ (st = "owned" => file'[h] = "full")
        BY <2>7, <3>2, <3>3, <3>5, <4>0 DEF Sound
      <4>4. SoundCmd(cmd)'
        BY <1>1, <4>1, <4>3 DEF SoundCmd
      <4>5. QED
        BY <1>3, <2>5, <3>1, <3>6, <3>7, <4>2, <4>4 DEF Sent
    <3>10. QED
      BY <3>4, <3>8, <3>9
  <2>8. QED
    BY <2>1, <2>6, <2>7
<1>15. QED
  BY <1>6, <1>7, <1>8, <1>9, <1>10, <1>11, <1>12, <1>13, <1>14 DEF ClientStep

\* The gc task only sends commands.
LEMMA FilesGc ==
    ASSUME Types, Tidy, ClientsOk, FilesInv,
           \/ GcStart \/ GcListTags \/ GcListTempTags \/ GcMark \/ GcReadChildren
           \/ GcList \/ GcSweep \/ GcSync
    PROVE  FilesInv'
<1>1. UNCHANGED <<db, saved, txn, marked, file, handle, got, client, raced>>
  BY DEF GcStart, GcListTags, GcListTempTags, GcMark, GcReadChildren, GcList, GcSweep, GcSync, gcRest
<1>2. Calm
  BY <1>1 DEF Calm
<1>3. ASSUME \A d \in Pending(cmds') : d \in Pending(cmds) \/ SoundCmd(d)' PROVE FilesInv'
  BY <1>1, <1>2, <1>3, CalmFacts DEF FilesInv
<1>4. ASSUME NEW cmd \in Commands, Send(cmd), cmd.op \in GcOps PROVE FilesInv'
  <2>1. Sent(cmd)
    BY <1>4, SendsLast DEF Types, Tidy
  <2>2. SoundCmd(cmd)'
    BY <1>4 DEF SoundCmd, GcOps
  <2>3. QED
    BY <1>3, <2>1, <2>2 DEF Sent
<1>5. gc.todo \ gc.live \in SUBSET Blobs
  BY DEF Types, GcRecs
<1>6. UNCHANGED cmds \/ \E cmd \in Commands : Send(cmd) /\ cmd.op \in GcOps
  BY <1>5, CommandMade
     DEF GcStart, GcListTags, GcListTempTags, GcMark, GcReadChildren, GcList, GcSweep, GcSync, GcOps
<1>7. QED
  BY <1>3, <1>4, <1>6

\* So does every other step.
LEMMA FilesStep ==
    ASSUME Types, Tidy, ClientsOk, FilesInv, [StoreNext]_storeVars
    PROVE  FilesInv'
<1>1. CASE UNCHANGED storeVars
  BY <1>1 DEF storeVars, FilesInv, Sound, SoundCmd, SoundImport
<1>2. QED
  BY <1>1, FilesCommand, FilesCommit, FilesEntity, FilesClient, FilesGc DEF StoreNext

-----------------------------------------------------------------------------
(* What imports have added. *)

\* An entry that is complete stays so when another is merged into it
\* (EntryState::union).
LEMMA UnionComplete ==
    /\ \A old \in Entries : \A new \in {"partial", "inline", "owned"} :
          old \in Complete => Union(old, new) \in Complete
    /\ \A old \in Entries : \A h \in Blobs : Union(old, CompleteAs(h)) \in Complete
BY DEF Union, Entries, Complete, CompleteAs

\* What the gc task knows of a root it does not forget.
Grows ==
    /\ gc.pc \in Marking
    /\ \A root \in Roots : Rooted(root) => root \in gc'.roots \/ root.hash \in gc'.live

\* ImportInv for one client
HeldOk(c) ==
    Imported(c) =>
        /\ db[client[c].hash] \in Complete
        /\ gc.pc \in Marking => client[c].hash \in protected \/ Rooted(temp[c])

\* ImportInv, client by client.
LEMMA HeldOks ==
    ASSUME Types, ClientsOk
    PROVE  ImportInv <=> /\ \A c \in Clients : HeldOk(c)
                         /\ gc.pc \in {"snapshot", "sweep", "deleting"} => gc.roots = {}
BY DEF ImportInv, EntryKept, HeldOk, Imported

\* The temp tag of an import is about the blob that is imported.
LEMMA ImportHash ==
    ASSUME ClientsOk, NEW c \in Clients, Imported(c)
    PROVE  /\ temp[c] \in Roots /\ temp[c].hash = client[c].hash /\ client[c].hash \in Blobs
BY RootFacts DEF ClientsOk, ClientOk, Imported

\* The command actor: an update protects what it writes; what is protected, live
\* or a root to be marked is not deleted.
LEMMA ImportCommand ==
    ASSUME Types, Tidy, ClientsOk, FilesInv, ImportInv, HandleCommand
    PROVE  ImportInv'
<1>1. PICK cmd \in Commands : cmd = Head(cmds) /\ Taken(cmd)
  <2>1. Taken(Head(cmds))
    BY TakesHead DEF HandleCommand, Types, Tidy
  <2>2. QED
    BY <2>1 DEF Taken
<1>2. Awaited(cmd) /\ SoundCmd(cmd) /\ UNCHANGED temp
  BY <1>1 DEF Taken, Tidy, FilesInv, HandleCommand
<1>3. (\A c \in Clients : HeldOk(c)) /\ (gc.pc \in {"snapshot", "sweep", "deleting"} => gc.roots = {})
  BY HeldOks
<1>4. Types' /\ ClientsOk'
  BY TypesStep, ClientsStep DEF StoreNext
<1>5. ASSUME \A c \in Clients : HeldOk(c)', gc'.pc \in {"snapshot", "sweep", "deleting"} => gc'.roots = {}
      PROVE  ImportInv'
  BY <1>5 DEF ImportInv, EntryKept, HeldOk, Imported
<1>6. CASE cmd.op = "Update" /\ HandleUpdate(cmd)
  <2>1. PICK h \in Blobs : h = cmd.hash
    BY <1>6, CommandFields
  <2>2. cmd.state \in {"partial", "inline", "owned"}
    BY <1>6, CommandFields
  <2>3. db'[h] = Union(db[h], cmd.state) /\ \A g \in Blobs : g # h => db'[g] = db[g]
    BY <1>6, <2>1 DEF HandleUpdate, Types
  <2>4. protected' = protected \cup {h} /\ UNCHANGED <<gc, temp>>
    BY <1>2, <1>6, <2>1 DEF HandleUpdate
  <2>7. \A g \in Blobs : db[g] \in Entries
    BY DEF Types
  <2>5. ASSUME NEW c \in Clients PROVE HeldOk(c)'
    <3>1. CASE c = cmd.by
      <4>1. client'[c].hash = client[c].hash /\ client[c].hash = h /\ cmd.state = CompleteAs(h)
        BY <1>2, <1>6, <2>1, <3>1, UpdateAnswers DEF Awaited
      <4>2. db'[h] \in Complete
        BY <2>3, <2>7, <4>1, UnionComplete
      <4>3. QED
        BY <2>4, <4>1, <4>2 DEF HeldOk
    <3>2. CASE c # cmd.by
      <4>1. client'[c] = client[c]
        BY <1>6, <3>2, UpdateAnswers
      <4>2. CASE Imported(c)
        <5>1. client[c].hash \in Blobs /\ HeldOk(c)
          BY <1>3, <4>2, ImportHash
        <5>2. db'[client[c].hash] \in Complete
          BY <2>2, <2>3, <2>7, <4>2, <5>1, UnionComplete DEF HeldOk
        <5>3. QED
          BY <2>4, <4>1, <4>2, <5>1, <5>2 DEF HeldOk, Rooted
      <4>3. CASE ~ Imported(c)
        BY <4>1, <4>3 DEF HeldOk, Imported
      <4>4. QED
        BY <4>2, <4>3
    <3>3. QED
      BY <3>1, <3>2
  <2>6. QED
    BY <1>3, <1>5, <2>4, <2>5
\* the others leave the entries or make one complete
<1>7. ASSUME protected \subseteq protected', UNCHANGED gc,
             \A h \in Blobs : db[h] \in Complete => db'[h] \in Complete,
             \A c \in Clients : Imported(c)' => Imported(c) /\ client'[c].hash = client[c].hash
      PROVE  ImportInv'
  <2>1. ASSUME NEW c \in Clients, Imported(c)' PROVE HeldOk(c)'
    <3>1. HeldOk(c) /\ Imported(c) /\ client'[c].hash = client[c].hash /\ client[c].hash \in Blobs
      BY <1>3, <1>7, <2>1, ImportHash
    <3>2. QED
      BY <1>2, <1>7, <3>1 DEF HeldOk, Rooted
  <2>2. \A c \in Clients : HeldOk(c)'
    BY <2>1 DEF HeldOk
  <2>3. QED
    BY <1>3, <1>5, <1>7, <2>2
<1>8. CASE cmd.op = "Set" /\ HandleSet(cmd)
  <2>1. cmd.hash \in Blobs /\ cmd.state \in Complete
    BY <1>8, CommandFields
  <2>2. UNCHANGED <<gc, client>> /\ protected \subseteq protected'
        /\ \A h \in Blobs : db[h] \in Complete => db'[h] \in Complete
    BY <1>8, <2>1 DEF HandleSet, Types
  <2>3. QED
    BY <1>7, <2>2 DEF Imported
<1>9. CASE cmd.op = "Get" /\ HandleGet(cmd)
  BY <1>7, <1>9 DEF HandleGet, Imported
<1>10. ASSUME NEW p \in {"idle", "tagged"}, NEW c \in Clients, client' = [client EXCEPT ![c].pc = p],
              client[c].pc = "tagging", UNCHANGED <<db, gc, protected>>
       PROVE  ImportInv'
  <2>1. ClientTo(c, p, client[c].op, client[c].hash)
    BY <1>10, ClientMoves DEF ClientPcs
  <2>2. \A d \in Clients : Imported(d)' => Imported(d) /\ client'[d].hash = client[d].hash
    BY <1>10, <2>1 DEF ClientTo, Imported
  <2>3. QED
    BY <1>7, <1>10, <2>2
<1>11. CASE cmd.op = "SetTag" /\ HandleSetTag(cmd)
  <2>1. cmd.by \in Clients /\ client[cmd.by].pc = "tagging"
    BY <1>2, <1>11, CommandFields DEF Awaited
  <2>2. QED
    BY <1>10, <1>11, <2>1 DEF HandleSetTag
<1>12. CASE cmd.op = "RenameTag" /\ HandleRenameTag(cmd)
  <2>1. cmd.by \in Clients /\ client[cmd.by].pc = "tagging"
    BY <1>2, <1>12, CommandFields DEF Awaited
  <2>2. QED
    BY <1>10, <1>12, <2>1 DEF HandleRenameTag
\* the commands of the gc task
<1>13. ASSUME UNCHANGED <<db, client>>, gc'.pc \notin Marking PROVE ImportInv'
  <2>1. \A c \in Clients : HeldOk(c)'
    BY <1>3, <1>13 DEF HeldOk, Imported
  <2>2. QED
    BY <1>5, <1>13, <2>1 DEF Marking
<1>14. CASE cmd.op = "ClearProtected" /\ HandleClearProtected(cmd)
  <2>1. gc'.pc = "cleared" /\ UNCHANGED <<db, client>>
    BY <1>14 DEF HandleClearProtected, Types, GcRecs
  <2>2. QED
    BY <1>13, <2>1 DEF Marking
<1>15. CASE cmd.op = "ListTags" /\ HandleListTags(cmd)
  <2>1. gc'.pc = "tags" /\ UNCHANGED <<db, client>>
    BY <1>15 DEF HandleListTags, Types, GcRecs
  <2>2. QED
    BY <1>13, <2>1 DEF Marking
<1>16. CASE cmd.op = "SyncDb" /\ HandleSyncDb(cmd)
  <2>1. gc'.pc = "idle" /\ UNCHANGED <<db, client>>
    BY <1>16 DEF HandleSyncDb, NoGc
  <2>2. QED
    BY <1>13, <2>1 DEF Marking
<1>17. CASE cmd.op = "Snapshot" /\ HandleSnapshot(cmd)
  <2>1. gc.pc = "snapshot" /\ gc'.pc = "sweep" /\ gc'.roots = gc.roots /\ gc'.live = gc.live
        /\ UNCHANGED <<db, client, protected>>
    BY <1>2, <1>17 DEF HandleSnapshot, Types, GcRecs, Awaited
  <2>2. \A c \in Clients : HeldOk(c)'
    BY <1>2, <1>3, <2>1 DEF HeldOk, Imported, Rooted, Marking
  <2>3. QED
    BY <1>3, <1>5, <2>1, <2>2
<1>18. CASE cmd.op = "Delete" /\ HandleDelete(cmd)
  <2>1. gc.pc = "deleting" /\ cmd.hashes \cap gc.live = {} /\ gc.roots = {}
    BY <1>2, <1>3, <1>18 DEF Awaited
  <2>2. gc'.pc = "deleted" /\ UNCHANGED client
    BY <1>18 DEF HandleDelete, Types, GcRecs
  <2>3. \A h \in Blobs : h \in gc.live \cup protected => db'[h] = db[h]
    BY <1>18, <2>1 DEF HandleDelete
  <2>4. ASSUME NEW c \in Clients, Imported(c) PROVE db'[client[c].hash] \in Complete
    <3>1. HeldOk(c) /\ client[c].hash \in Blobs /\ temp[c].hash = client[c].hash
      BY <1>3, <2>4, ImportHash
    <3>2. client[c].hash \in gc.live \cup protected
      BY <2>1, <2>4, <3>1 DEF HeldOk, Rooted, Marking
    <3>3. QED
      BY <2>3, <2>4, <3>1, <3>2 DEF HeldOk
  <2>5. \A c \in Clients : HeldOk(c)'
    BY <2>2, <2>4 DEF HeldOk, Imported, Marking
  <2>6. QED
    BY <1>5, <2>2, <2>5
<1>19. QED
  BY <1>1, <1>6, <1>8, <1>9, <1>11, <1>12, <1>14, <1>15, <1>16, <1>17, <1>18 DEF HandleCommand

\* The gc task marks what an import holds, or finds it protected.
LEMMA ImportGc ==
    ASSUME Types, Tidy, ClientsOk, ImportInv,
           \/ GcStart \/ GcListTags \/ GcListTempTags \/ GcMark \/ GcReadChildren
           \/ GcList \/ GcSweep \/ GcSync
    PROVE  ImportInv'
<1>1. UNCHANGED <<db, client, temp, protected>>
  BY DEF GcStart, GcListTags, GcListTempTags, GcMark, GcReadChildren, GcList, GcSweep, GcSync, gcRest
<1>2. (\A c \in Clients : HeldOk(c)) /\ (gc.pc \in {"snapshot", "sweep", "deleting"} => gc.roots = {})
  BY HeldOks
<1>3. ASSUME \A c \in Clients : HeldOk(c)', gc'.pc \in {"snapshot", "sweep", "deleting"} => gc'.roots = {}
      PROVE  ImportInv'
  BY <1>3 DEF ImportInv, EntryKept, HeldOk, Imported
<1>4. ASSUME Grows, gc'.pc \in {"snapshot", "sweep", "deleting"} => gc'.roots = {} PROVE ImportInv'
  <2>1. ASSUME NEW c \in Clients, Imported(c) PROVE HeldOk(c)'
    <3>1. HeldOk(c) /\ temp[c] \in Roots
      BY <1>2, <2>1, ImportHash
    <3>2. QED
      BY <1>1, <1>4, <2>1, <3>1 DEF HeldOk, Grows, Rooted
  <2>2. \A c \in Clients : HeldOk(c)'
    BY <1>1, <2>1 DEF HeldOk, Imported
  <2>3. QED
    BY <1>3, <1>4, <2>2
<1>5. ASSUME gc'.pc \notin Marking PROVE ImportInv'
  <2>1. \A c \in Clients : HeldOk(c)'
    BY <1>1, <1>2, <1>5 DEF HeldOk, Imported
  <2>2. QED
    BY <1>3, <1>5, <2>1 DEF Marking
<1>6. CASE GcStart \/ GcListTags \/ GcSync
  BY <1>5, <1>6, GcMoves DEF GcTo, Marking
<1>7. CASE GcListTempTags
  <2>1. gc'.pc = "mark" /\ \A c \in Clients : temp[c] # NoRoot => temp[c] \in gc'.roots
    BY <1>7, GcMoves DEF GcTo
  <2>2. ASSUME NEW c \in Clients, Imported(c) PROVE HeldOk(c)'
    <3>1. temp[c] \in gc'.roots /\ HeldOk(c)
      BY <1>2, <2>1, <2>2, ImportHash, RootFacts
    <3>2. QED
      BY <1>1, <2>2, <3>1 DEF HeldOk, Rooted
  <2>3. \A c \in Clients : HeldOk(c)'
    BY <1>1, <2>2 DEF HeldOk, Imported
  <2>4. QED
    BY <1>3, <2>1, <2>3
<1>8. CASE GcMark
  <2>1. gc.pc = "mark"
    BY <1>8 DEF GcMark
  <2>2. PICK root \in gc.roots : gc'.pc \in {"mark", "reading"} /\ gc'.roots = gc.roots \ {root}
            /\ gc'.live = gc.live \cup {root.hash}
    BY <1>8, GcMoves DEF GcTo
  <2>3. Grows
    BY <2>1, <2>2 DEF Grows, Rooted, Marking
  <2>4. QED
    BY <1>4, <2>2, <2>3
<1>9. CASE GcReadChildren
  <2>1. gc.pc = "reading"
    BY <1>9 DEF GcReadChildren
  <2>2. gc'.pc = "mark" /\ gc'.roots = gc.roots /\ gc.live \subseteq gc'.live
    BY <1>9, GcMoves DEF GcTo
  <2>3. Grows
    BY <2>1, <2>2 DEF Grows, Rooted, Marking
  <2>4. QED
    BY <1>4, <2>2, <2>3
<1>10. CASE GcList \/ GcSweep
  <2>1. gc.pc \in {"mark", "sweep"} /\ gc.roots = {}
    BY <1>2, <1>10 DEF GcList, GcSweep
  <2>2. gc'.roots = gc.roots /\ gc'.live = gc.live
    BY <1>10, GcMoves DEF GcTo
  <2>3. Grows
    BY <2>1, <2>2 DEF Grows, Rooted, Marking
  <2>4. QED
    BY <1>4, <2>1, <2>2, <2>3
<1>11. QED
  BY <1>6, <1>7, <1>8, <1>9, <1>10

\* The clients: an import is held only when its update is answered.
LEMMA ImportClient ==
    ASSUME Types, ClientsOk, ImportInv, NEW c \in Clients, ClientStep(c)
    PROVE  ImportInv'
<1>1. UNCHANGED <<db, gc, protected>>
  BY DEF ClientStep, BeginImport, BeginDownload, BeginObserve, EndObserve, MoveImported,
       CompleteImport, WriteBatch, AbortDownload, SetTag, DropTempTag, DeleteTag, RenameTag, metaRest
<1>2. \A d \in Clients : d # c => client'[d] = client[d] /\ temp'[d] = temp[d]
  BY DEF ClientStep, BeginImport, BeginDownload, BeginObserve, EndObserve, MoveImported,
       CompleteImport, WriteBatch, AbortDownload, SetTag, DropTempTag, DeleteTag, RenameTag, Types
<1>3. Imported(c)' => Imported(c) /\ client'[c].hash = client[c].hash /\ temp'[c] = temp[c]
  <2>1. ASSUME NEW p \in {"idle", "load", "observing", "moved", "updating", "got"}, NEW o, NEW h,
               ClientTo(c, p, o, h)
        PROVE  ~ Imported(c)'
    BY <2>1 DEF ClientTo, Imported
  <2>2. CASE SetTag(c)
    <3>1. ClientTo(c, "tagging", client[c].op, client[c].hash) /\ UNCHANGED temp /\ client[c].pc = "held"
      BY <2>2, ClientMoves DEF SetTag, ClientPcs
    <3>2. QED
      BY <3>1 DEF ClientTo, Imported
  <2>3. CASE DeleteTag(c) \/ RenameTag(c)
    <3>1. ClientTo(c, "tagging", client[c].op, client[c].hash) /\ client[c].pc = "idle"
      BY <2>3, ClientMoves DEF DeleteTag, RenameTag, Begins, ClientPcs
    <3>2. client[c].op = "none"
      BY <3>1 DEF ClientsOk, ClientOk
    <3>3. QED
      BY <3>1, <3>2 DEF ClientTo, Imported
  <2>4. CASE BeginImport(c)
    <3>1. \E root \in Roots : ClientTo(c, "load", "import", root.hash)
      BY <2>4, ClientMoves, RootFacts DEF BeginImport, ClientPcs, ClientOps
    <3>2. QED
      BY <2>1, <3>1
  <2>5. CASE BeginDownload(c)
    <3>1. \E h \in Blobs : ClientTo(c, "load", "download", h)
      BY <2>5, ClientMoves DEF BeginDownload, ClientPcs, ClientOps
    <3>2. QED
      BY <2>1, <3>1
  <2>6. CASE BeginObserve(c)
    <3>1. \E h \in Blobs : ClientTo(c, "observing", "observe", h)
      BY <2>6, ClientMoves DEF BeginObserve, ClientPcs, ClientOps
    <3>2. QED
      BY <2>1, <3>1
  <2>7. CASE EndObserve(c) \/ DropTempTag(c)
    <3>1. ClientTo(c, "idle", "none", "none")
      BY <2>7, ClientMoves DEF EndObserve, DropTempTag
    <3>2. QED
      BY <2>1, <3>1
  <2>8. CASE MoveImported(c)
    <3>1. ClientTo(c, "moved", client[c].op, client[c].hash)
      BY <2>8, ClientMoves DEF MoveImported, ClientPcs
    <3>2. QED
      BY <2>1, <3>1
  <2>9. CASE CompleteImport(c)
    <3>1. ClientTo(c, "idle", "none", "none") \/ ClientTo(c, "updating", client[c].op, client[c].hash)
      BY <2>9, ClientMoves DEF CompleteImport, ClientPcs
    <3>2. QED
      BY <2>1, <3>1
  <2>10. CASE WriteBatch(c) \/ AbortDownload(c)
    <3>1. PICK p \in {"got", "load"} : client' = [client EXCEPT ![c].pc = p]
      BY <2>10 DEF WriteBatch, AbortDownload
    <3>2. ClientTo(c, p, client[c].op, client[c].hash)
      BY <3>1, ClientMoves DEF ClientPcs
    <3>3. QED
      BY <2>1, <3>2
  <2>11. QED
    BY <2>2, <2>3, <2>4, <2>5, <2>6, <2>7, <2>8, <2>9, <2>10 DEF ClientStep
<1>4. (\A d \in Clients : HeldOk(d)) /\ (gc.pc \in {"snapshot", "sweep", "deleting"} => gc.roots = {})
  BY HeldOks
<1>5. ASSUME NEW d \in Clients PROVE HeldOk(d)'
  <2>1. CASE d = c
    BY <1>1, <1>3, <1>4, <2>1 DEF HeldOk, Rooted
  <2>2. CASE d # c
    BY <1>1, <1>2, <1>4, <2>2 DEF HeldOk, Rooted, Imported
  <2>3. QED
    BY <2>1, <2>2
<1>6. QED
  BY <1>1, <1>4, <1>5 DEF ImportInv, EntryKept, HeldOk, Imported

\* No step loses what an import holds.
LEMMA ImportStep ==
    ASSUME Types, Tidy, ClientsOk, FilesInv, ImportInv, [StoreNext]_storeVars
    PROVE  ImportInv'
<1>1. CASE UNCHANGED <<db, client, temp, gc, protected>>
  BY <1>1 DEF ImportInv, EntryKept, Imported, Rooted
<1>2. CASE Crash
  <2>1. gc'.pc = "idle" /\ \A c \in Clients : client'[c].op = "none"
    BY <1>2 DEF Crash, NoGc, Resting
  <2>2. QED
    BY <2>1 DEF ImportInv, EntryKept, Imported, Marking
<1>3. QED
  BY <1>1, <1>2, ImportCommand, ImportGc, ImportClient
     DEF StoreNext, storeVars, CommitTxn, DeleteFiles, Load, Open, Recycle

-----------------------------------------------------------------------------
(* The tags and temp tags that stand. *)

\* What a tag or a temp tag holds is a root, if anything.
LEMMA HoldsFacts ==
    ASSUME Types
    PROVE  \A hd \in Names \cup Clients : Holds(hd) \in MaybeRoots
BY DEF Types, Holds

\* What stands is held as before, and the gc task knows of it what it did.
LEMMA SteadyKeeps ==
    ASSUME SteadyInv, steady' \subseteq steady, \A hd \in steady' : Holds(hd)' = Holds(hd),
           \/ gc' = gc
           \/ gc'.pc \notin Marking \cup {"tags"}
           \/ Grows /\ gc'.pc # "tags"
    PROVE  SteadyInv'
<1> SUFFICES ASSUME NEW hd \in steady'
             PROVE  /\ Holds(hd)' \in Roots
                    /\ gc'.pc \in Marking \/ (gc'.pc = "tags" /\ hd \in Names) => Rooted(Holds(hd))'
  BY DEF SteadyInv
<1>1. /\ Holds(hd) \in Roots
      /\ gc.pc \in Marking \/ (gc.pc = "tags" /\ hd \in Names) => Rooted(Holds(hd))
  BY DEF SteadyInv
<1>2. PICK root \in Roots : root = Holds(hd)
  BY <1>1
<1>3. Holds(hd)' = root
  BY <1>2
<1>4. gc'.pc \in Marking \/ (gc'.pc = "tags" /\ hd \in Names) => Rooted(root)'
  BY <1>1, <1>2 DEF Grows, Rooted
<1>5. QED
  BY <1>3, <1>4

\* No command deletes what a steady root holds,
LEMMA SteadyCommand ==
    ASSUME Types, Tidy, ImportInv, SteadyInv, HandleCommand
    PROVE  SteadyInv'
<1>1. PICK cmd \in Commands : cmd = Head(cmds) /\ Taken(cmd)
  <2>1. Taken(Head(cmds))
    BY TakesHead DEF HandleCommand, Types, Tidy
  <2>2. QED
    BY <2>1 DEF Taken
<1>2. Awaited(cmd) /\ UNCHANGED temp
  BY <1>1 DEF Taken, Tidy, HandleCommand
<1>3. CASE UNCHANGED <<tags, steady, gc>>
  BY <1>2, <1>3, SteadyKeeps DEF Holds
<1>4. ASSUME UNCHANGED <<tags, steady>>, gc'.pc \notin Marking \cup {"tags"} PROVE SteadyInv'
  BY <1>2, <1>4, SteadyKeeps DEF Holds
<1>5. CASE cmd.op = "ClearProtected" /\ HandleClearProtected(cmd)
  <2>1. gc'.pc = "cleared" /\ UNCHANGED <<tags, steady>>
    BY <1>5 DEF HandleClearProtected, Types, GcRecs
  <2>2. QED
    BY <1>4, <2>1 DEF Marking
<1>6. CASE cmd.op = "SyncDb" /\ HandleSyncDb(cmd)
  <2>1. gc'.pc = "idle" /\ UNCHANGED <<tags, steady>>
    BY <1>6 DEF HandleSyncDb, NoGc
  <2>2. QED
    BY <1>4, <2>1 DEF Marking
<1>7. CASE cmd.op = "Delete" /\ HandleDelete(cmd)
  <2>1. gc'.pc = "deleted" /\ UNCHANGED <<tags, steady>>
    BY <1>7 DEF HandleDelete, Types, GcRecs
  <2>2. QED
    BY <1>4, <2>1 DEF Marking
<1>8. CASE cmd.op = "Snapshot" /\ HandleSnapshot(cmd)
  <2>1. gc.pc = "snapshot" /\ gc'.pc = "sweep" /\ gc'.roots = gc.roots /\ gc'.live = gc.live
        /\ UNCHANGED <<tags, steady>>
    BY <1>2, <1>8 DEF HandleSnapshot, Types, GcRecs, Awaited
  <2>2. Grows /\ gc'.pc # "tags"
    BY <2>1 DEF Grows, Rooted, Marking
  <2>3. \A hd \in steady' : Holds(hd)' = Holds(hd)
    BY <1>2, <2>1 DEF Holds
  <2>4. QED
    BY <2>1, <2>2, <2>3, SteadyKeeps
<1>9. CASE cmd.op = "ListTags" /\ HandleListTags(cmd)
  <2>1. gc'.pc = "tags" /\ gc'.roots = {tags[n] : n \in Names} \ {NoRoot} /\ UNCHANGED <<tags, steady>>
    BY <1>9 DEF HandleListTags, Types, GcRecs
  <2>2. ASSUME NEW hd \in steady
        PROVE  /\ Holds(hd)' \in Roots
               /\ hd \in Names => Rooted(Holds(hd))'
    <3>1. Holds(hd)' = Holds(hd) /\ Holds(hd) \in Roots
      BY <1>2, <2>1 DEF Holds, SteadyInv
    <3>2. ASSUME hd \in Names PROVE Rooted(Holds(hd))'
      BY <2>1, <3>1, <3>2, RootFacts DEF Holds, Rooted
    <3>3. QED
      BY <3>1, <3>2
  <2>3. "tags" \notin Marking
    BY DEF Marking
  <2>4. QED
    BY <2>1, <2>2, <2>3 DEF SteadyInv
<1>10. CASE cmd.op = "SetTag" /\ HandleSetTag(cmd)
  <2>1. steady' = steady \ {cmd.name} /\ UNCHANGED gc
        /\ \A n \in Names : n # cmd.name => tags'[n] = tags[n]
    BY <1>10 DEF HandleSetTag, Types
  <2>2. \A hd \in steady' : Holds(hd)' = Holds(hd)
    BY <1>2, <2>1 DEF Holds
  <2>3. QED
    BY <2>1, <2>2, SteadyKeeps
<1>11. CASE cmd.op = "RenameTag" /\ HandleRenameTag(cmd)
  <2>0. PICK n \in Names, m \in Names : n = cmd.name /\ m = cmd.new
    BY <1>11, CommandFields
  <2>1. CASE n \notin steady
    <3>1. UNCHANGED gc /\ steady' \subseteq steady
          /\ (tags[n] # NoRoot => m \notin steady')
          /\ (tags[n] = NoRoot => tags' = tags)
          /\ (tags[n] # NoRoot => \A k \in Names : k # n /\ k # m => tags'[k] = tags[k])
      BY <1>11, <2>0, <2>1 DEF HandleRenameTag, Types
    <3>2. \A hd \in steady' : Holds(hd)' = Holds(hd)
      BY <1>2, <2>1, <3>1 DEF Holds
    <3>3. QED
      BY <3>1, <3>2, SteadyKeeps
  <2>2. CASE n \in steady
    <3>1. Holds(n) = tags[n] /\ tags[n] \in Roots /\ tags[n] # NoRoot
      BY <2>2, RootFacts DEF SteadyInv, Holds
    <3>2. UNCHANGED gc /\ steady' = (steady \ {n}) \cup {m}
          /\ tags'[m] = tags[n] /\ \A k \in Names : k # n /\ k # m => tags'[k] = tags[k]
      BY <1>11, <2>0, <2>2, <3>1 DEF HandleRenameTag, Types
    <3>3. ASSUME NEW hd \in steady'
          PROVE  /\ Holds(hd)' \in Roots
                 /\ gc'.pc \in Marking \/ (gc'.pc = "tags" /\ hd \in Names) => Rooted(Holds(hd))'
      <4>1. PICK old \in steady : Holds(hd)' = Holds(old) /\ (hd \in Names => old \in Names)
        <5>1. CASE hd = m
          <6>1. Holds(hd)' = Holds(n)
            BY <3>1, <3>2, <5>1 DEF Holds
          <6>2. QED
            BY <2>2, <6>1
        <5>2. CASE hd # m
          <6>1. hd \in steady /\ hd # n
            BY <3>2, <5>2
          <6>2. Holds(hd)' = Holds(hd)
            BY <1>2, <3>2, <5>2, <6>1 DEF Holds
          <6>3. QED
            BY <6>1, <6>2
        <5>3. QED
          BY <5>1, <5>2
      <4>2. PICK root \in Roots : root = Holds(old)
        BY DEF SteadyInv
      <4>3. gc.pc \in Marking \/ (gc.pc = "tags" /\ hd \in Names) => Rooted(root)
        BY <4>1, <4>2 DEF SteadyInv
      <4>4. Holds(hd)' = root
        BY <4>1, <4>2
      <4>5. Rooted(root)' <=> Rooted(root)
        BY <3>2 DEF Rooted
      <4>6. QED
        BY <3>2, <4>3, <4>4, <4>5
    <3>4. QED
      BY <3>3 DEF SteadyInv
  <2>3. QED
    BY <2>1, <2>2
<1>12. QED
  BY <1>1, <1>3, <1>5, <1>6, <1>7, <1>8, <1>9, <1>10, <1>11
     DEF HandleCommand, HandleUpdate, HandleSet, HandleGet

\* no step of the gc task makes it ready to,
LEMMA SteadyGc ==
    ASSUME Types, ImportInv, SteadyInv,
           \/ GcStart \/ GcListTags \/ GcListTempTags \/ GcMark \/ GcReadChildren
           \/ GcList \/ GcSweep \/ GcSync
    PROVE  SteadyInv'
<1>1. UNCHANGED <<tags, temp>>
  BY DEF GcStart, GcListTags, GcListTempTags, GcMark, GcReadChildren, GcList, GcSweep, GcSync, gcRest
<1>2. \A hd : Holds(hd)' = Holds(hd)
  BY <1>1 DEF Holds
<1>3. CASE GcStart
  <2>1. gc'.pc = "clearing"
    BY <1>3, GcMoves DEF GcTo
  <2>2. steady' = {hd \in Names \cup Clients : Holds(hd) # NoRoot}
    BY <1>3 DEF GcStart
  <2>3. \A hd \in steady' : Holds(hd)' \in Roots
    BY <1>2, <2>2, HoldsFacts DEF MaybeRoots
  <2>4. QED
    BY <2>1, <2>3 DEF SteadyInv, Marking
<1>4. CASE GcListTags \/ GcSync
  <2>1. gc'.pc \in {"listing", "syncing"} /\ UNCHANGED steady
    BY <1>4, GcMoves DEF GcTo, GcListTags, GcSync
  <2>2. QED
    BY <1>2, <2>1, SteadyKeeps DEF Marking
<1>5. CASE GcListTempTags
  <2>1. gc'.pc = "mark" /\ gc.pc = "tags" /\ gc.roots \subseteq gc'.roots /\ gc'.live = gc.live
        /\ UNCHANGED steady /\ \A c \in Clients : temp[c] # NoRoot => temp[c] \in gc'.roots
    BY <1>5, GcMoves DEF GcTo, GcListTempTags
  <2>2. ASSUME NEW hd \in steady PROVE Holds(hd)' \in Roots /\ Rooted(Holds(hd))'
    <3>1. PICK root \in Roots : root = Holds(hd)
      BY DEF SteadyInv
    <3>2. hd \in Names => Rooted(root)
      BY <2>1, <3>1 DEF SteadyInv
    <3>3. hd \notin Names => hd \in Clients /\ root = temp[hd] /\ root # NoRoot
      BY <3>1, RootFacts DEF Types, Holds
    <3>4. Rooted(root)'
      BY <2>1, <3>2, <3>3 DEF Rooted
    <3>5. Holds(hd)' = root
      BY <1>2, <3>1
    <3>6. QED
      BY <3>4, <3>5
  <2>3. QED
    BY <2>1, <2>2 DEF SteadyInv
<1>6. CASE GcMark
  <2>1. gc.pc = "mark" /\ UNCHANGED steady
    BY <1>6 DEF GcMark
  <2>2. PICK root \in gc.roots : gc'.pc \in {"mark", "reading"} /\ gc'.roots = gc.roots \ {root}
            /\ gc'.live = gc.live \cup {root.hash}
    BY <1>6, GcMoves DEF GcTo
  <2>3. Grows /\ gc'.pc # "tags"
    BY <2>1, <2>2 DEF Grows, Rooted, Marking
  <2>4. QED
    BY <1>2, <2>1, <2>3, SteadyKeeps
<1>7. CASE GcReadChildren \/ GcList \/ GcSweep
  <2>1. gc.pc \in {"mark", "reading", "sweep"} /\ UNCHANGED steady
    BY <1>7 DEF GcReadChildren, GcList, GcSweep
  <2>2. gc'.pc # "tags" /\ gc'.roots = gc.roots /\ gc.live \subseteq gc'.live
    BY <1>7, GcMoves DEF GcTo
  <2>3. Grows
    BY <2>1, <2>2 DEF Grows, Rooted, Marking
  <2>4. QED
    BY <1>2, <2>1, <2>2, <2>3, SteadyKeeps
<1>8. QED
  BY <1>3, <1>4, <1>5, <1>6, <1>7

\* and neither does a client.
LEMMA SteadyClient ==
    ASSUME Types, ClientsOk, SteadyInv, NEW c \in Clients, ClientStep(c)
    PROVE  SteadyInv'
<1>1. UNCHANGED <<tags, gc>> /\ steady' \subseteq steady
  BY DEF ClientStep, BeginImport, BeginDownload, BeginObserve, EndObserve, MoveImported,
       CompleteImport, WriteBatch, AbortDownload, SetTag, DropTempTag, DeleteTag, RenameTag, metaRest
<1>2. \A d \in Clients : d # c => temp'[d] = temp[d]
  BY DEF ClientStep, BeginImport, BeginDownload, BeginObserve, EndObserve, MoveImported,
       CompleteImport, WriteBatch, AbortDownload, SetTag, DropTempTag, DeleteTag, RenameTag, Types
<1>3. c \in steady' => temp'[c] = temp[c]
  <2>1. CASE BeginImport(c) \/ BeginDownload(c)
    <3>1. temp[c] = NoRoot
      BY <2>1 DEF BeginImport, BeginDownload, Begins, ClientsOk, ClientOk
    <3>2. c \notin Names
      BY StoreAssumption
    <3>3. c \notin steady
      BY <3>1, <3>2, RootFacts DEF SteadyInv, Holds
    <3>4. QED
      BY <1>1, <3>3
  <2>2. QED
    BY <2>1
       DEF ClientStep, BeginObserve, EndObserve, MoveImported, CompleteImport, WriteBatch,
           AbortDownload, SetTag, DropTempTag, DeleteTag, RenameTag
<1>4. \A hd \in steady' : hd \in Names \cup Clients
  BY <1>1 DEF Types
<1>5. \A hd \in steady' : Holds(hd)' = Holds(hd)
  BY <1>1, <1>2, <1>3, <1>4 DEF Holds
<1>6. QED
  BY <1>1, <1>5, SteadyKeeps

\* Every step keeps what stands.
LEMMA SteadyStep ==
    ASSUME Types, Tidy, ClientsOk, ImportInv, SteadyInv, [StoreNext]_storeVars
    PROVE  SteadyInv'
<1>1. CASE UNCHANGED <<tags, temp, gc, steady>>
  BY <1>1, SteadyKeeps DEF Holds
<1>2. CASE Crash
  BY <1>2 DEF Crash, SteadyInv
<1>3. QED
  BY <1>1, <1>2, SteadyCommand, SteadyGc, SteadyClient
     DEF StoreNext, storeVars, CommitTxn, DeleteFiles, Load, Open, Recycle

-----------------------------------------------------------------------------
(* The theorems. *)

\* The invariant holds in the store that was found on disk,
LEMMA StoreInitInv == StoreInit => BInv
<1> SUFFICES ASSUME StoreInit PROVE BInv
  OBVIOUS
<1>1. Types
  <2>1. db \in [Blobs -> Entries]
    BY RootFacts DEF StoreInit, Entries
  <2>2. tags \in [Names -> MaybeRoots]
    BY StoreAssumption DEF StoreInit, MaybeRoots
  <2>3. saved \in [db : [Blobs -> Entries], tags : [Names -> MaybeRoots]]
    BY <2>1, <2>2 DEF StoreInit
  <2>4. client \in [Clients -> ClientRecs]
    BY DEF StoreInit, Resting, ClientRecs, ClientPcs, ClientOps
  <2>5. gc \in GcRecs
    BY DEF StoreInit, NoGc, GcRecs, GcPcs
  <2>6. file \in [Blobs -> {"none", "partial", "full"}] /\ handle \in [Blobs -> Handles]
        /\ got \in [Blobs -> Entries]
    BY DEF StoreInit, Handles, Entries
  <2>7. temp \in [Clients -> MaybeRoots] /\ cmds \in Seq(Commands)
    BY RootFacts, SMTT(30) DEF StoreInit
  <2>8. QED
    BY <2>1, <2>2, <2>3, <2>4, <2>5, <2>6, <2>7 DEF StoreInit, Types
<1>2. Pending(cmds) = {} /\ OneEach(cmds)
  BY SMTT(30) DEF StoreInit, Pending, OneEach
<1>3. \A c \in Clients : client[c].pc = "idle" /\ client[c].op = "none" /\ temp[c] = NoRoot
  BY DEF StoreInit, Resting
<1>4. gc.pc = "idle" /\ steady = {}
  BY DEF StoreInit, NoGc
<1>5. \A h \in Blobs : /\ db[h] = "owned" => h \notin Small /\ file[h] = "full"
                       /\ saved.db[h] = db[h] /\ h \notin marked
                       /\ handle[h] = "initial" /\ got[h] = "none"
  BY DEF StoreInit, CompleteAs
<1>6. saved.db = db
  BY DEF StoreInit
<1>7. Tidy
  BY <1>2 DEF Tidy
<1>8. ClientsOk
  BY <1>3 DEF ClientsOk, ClientOk
<1>9. FilesInv
  BY <1>2, <1>3, <1>5, <1>6 DEF FilesInv, Sound, SoundImport
<1>10. ImportInv
  BY <1>3, <1>4 DEF ImportInv, EntryKept, Imported, Marking
<1>11. SteadyInv
  BY <1>4 DEF SteadyInv
<1>12. QED
  BY <1>1, <1>7, <1>8, <1>9, <1>10, <1>11 DEF BInv

\* and every step keeps it.
LEMMA StoreStepInv == BInv /\ [StoreNext]_storeVars => BInv'
BY TypesStep, TidyStep, ClientsStep, FilesStep, ImportStep, SteadyStep DEF BInv

\* An entry that says the store owns its data file has that file, whatever is
\* imported, downloaded and collected and whenever the process dies, unless its
\* hash was deleted while its entity was in use (FileTransaction::commit).
THEOREM OwnedFilesStay == StoreSpec => []FilesKept
<1>1. BInv => FilesKept
  BY DEF BInv, FilesInv, Sound, FilesKept
<1>2. QED
  BY <1>1, StoreInitInv, StoreStepInv, PTL DEF StoreSpec

\* What an import has added keeps its complete entry while its client holds the
\* temp tag, whatever the gc task has listed when (finish_import, handle_update),
\* and its data file, unless a gc run deleted the blob in the middle of the import.
THEOREM ImportsStay == StoreSpec => []ImportKept
<1>1. BInv => ImportKept
  <2> SUFFICES ASSUME BInv, NEW c \in Clients, Imported(c)
               PROVE  LET h == client[c].hash IN
                      db[h] \in Complete /\ (db[h] = "owned" /\ h \notin raced => file[h] = "full")
    BY DEF ImportKept, Imported
  <2>1. client[c].hash \in Blobs
    BY ImportHash DEF BInv
  <2> QED
    BY <2>1 DEF BInv, ImportInv, EntryKept, FilesInv, Sound
<1>2. QED
  BY <1>1, StoreInitInv, StoreStepInv, PTL DEF StoreSpec

\* A gc run deletes no blob under a tag or temp tag that stands since the run
\* began, renamed tags included (gc_mark_task, rename_tag).
THEOREM SteadyStay == StoreSpec => SteadyKept
<1> DEFINE Kept(h) ==
        gc.pc = "deleting" /\ gc'.pc = "deleted" /\ db[h] # "none" => db'[h] # "none"
<1>1. ASSUME BInv, StoreNext, NEW hd \in steady PROVE Kept(Holds(hd).hash)
  <2> SUFFICES ASSUME gc.pc = "deleting", gc'.pc = "deleted", db[Holds(hd).hash] # "none"
               PROVE  db'[Holds(hd).hash] # "none"
    OBVIOUS
  <2>1. Holds(hd).hash \in gc.live /\ Holds(hd).hash \in Blobs
    BY <1>1, RootFacts DEF BInv, SteadyInv, ImportInv, Rooted, Marking
  <2>2. PICK cmd \in Commands : cmd = Head(cmds) /\ Taken(cmd) /\ HandleCommand
    <3>1. HandleCommand
      <4>1. gc' # gc
        OBVIOUS
      <4>2. ~ Crash
        BY SMTT(30) DEF Crash, NoGc
      <4>3. ~ (GcStart \/ GcListTags \/ GcListTempTags \/ GcMark \/ GcReadChildren \/ GcList
               \/ GcSweep \/ GcSync)
        BY DEF GcStart, GcListTags, GcListTempTags, GcMark, GcReadChildren, GcList, GcSweep, GcSync
      <4>4. QED
        BY <1>1, <4>1, <4>2, <4>3, ClientLeaves
           DEF StoreNext, CommitTxn, DeleteFiles, Load, Open, Recycle, BInv
    <3>2. Taken(Head(cmds))
      BY <1>1, <3>1, TakesHead DEF HandleCommand, BInv, Types, Tidy
    <3>3. QED
      BY <3>1, <3>2 DEF Taken
  <2>3. Awaited(cmd)
    BY <1>1, <2>2 DEF Taken, BInv, Tidy
  <2>4. cmd.op = "Delete" /\ HandleDelete(cmd)
    <3>1. cmd.op \notin {"ClearProtected", "ListTags", "Snapshot", "SyncDb"}
      BY <2>3 DEF Awaited
    <3>2. gc' # gc
      OBVIOUS
    <3>3. QED
      BY <2>2, <3>1, <3>2
         DEF HandleCommand, HandleUpdate, HandleSet, HandleGet, HandleSetTag, HandleRenameTag
  <2>5. cmd.hashes \cap gc.live = {}
    BY <2>3, <2>4 DEF Awaited
  <2>6. QED
    BY <2>1, <2>4, <2>5 DEF HandleDelete
<1>2. ASSUME BInv, [StoreNext]_storeVars
      PROVE  [\A hd \in steady :
                 LET h == Holds(hd).hash IN
                 gc.pc = "deleting" /\ gc'.pc = "deleted" /\ db[h] # "none" => db'[h] # "none"]_storeVars
  BY <1>1, <1>2
<1>3. QED
  BY <1>2, StoreInitInv, StoreStepInv, PTL DEF StoreSpec, SteadyKept

=============================================================================
