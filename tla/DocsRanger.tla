----------------------------- MODULE DocsRanger -----------------------------
(***************************************************************************)
(* The reconciliation of a document between two replicas: range-based set  *)
(* reconciliation (ranger.rs) over the records of the document             *)
(* (store/fs.rs), driven by the message loops of the two peers             *)
(* (net/codec.rs), while entries also come in by other ways (sync.rs).     *)
(*                                                                         *)
(* A key stands for an author and a path.  It is a number, in the order of *)
(* the records table, and ProperPrefixes says which keys are prefixes of   *)
(* which.  A value stands for a timestamp and a hash, in the order of      *)
(* Record; if the hash is that of nothing, the entry is a deletion marker. *)
(* A replica maps a key to its value, or to 0 if it has no entry.  Entries *)
(* on their own are functions from keys to values, and a fingerprint is    *)
(* the entries it is computed from.                                        *)
(***************************************************************************)
EXTENDS Naturals, Sequences, FiniteSets, SequencesExt

CONSTANTS
    KeyCount,        \* the number of keys
    ProperPrefixes,  \* for every key, the keys that are proper prefixes of it
    EmptyKeys,       \* the keys of which the path is empty
    MaxValue,        \* bound on the values
    EmptyValues,     \* the values of deletion markers
    SplitFactor,     \* SyncConfig::split_factor
    MaxSetSize,      \* SyncConfig::max_set_size
    MaxEntries,      \* MAX_ENTRIES_PER_SYNC_MESSAGE
    MaxParts,        \* MAX_SYNC_MESSAGE_PARTS
    Insertions,      \* the keys and values that may be inserted during a session
    MaxInserts,      \* bound on the inserts
    Beginnings       \* sets of the pairs of replicas that a session may begin with

VARIABLES
    replica,  \* replica[e][k]: the value of k at end e
    horizon,  \* horizon[e]: the latest value that the clock of e lets it accept
    phase,    \* phase[e]: "idle", "running", "ok", "failed" or "panicked"
    message,  \* the message under way and the end it goes to
    sent,     \* the number of messages sent
    began,    \* the replicas when the session began
    inserts   \* the keys and values inserted since then

rangerVars == <<replica, horizon, phase, message, sent, began, inserts>>

Keys == 1..KeyCount
Ends == {"alice", "bob"}
OtherEnd(e) == IF e = "alice" THEN "bob" ELSE "alice"
NoMessage == [to |-> "nobody", parts |-> <<>>]

\* F of x.  TLC evaluates x once.
With(x, F(_)) == CHOOSE y \in {F(z) : z \in {x}} : TRUE

-----------------------------------------------------------------------------
(* The records. *)

\* The keys looked up to see whether an entry of k is outdated: the path is
\* shortened until it is empty, and deletion markers are passed over.
PrefixesOf(rep, k) ==
    {p \in (ProperPrefixes[k] \cup {k}) \ EmptyKeys : rep[p] \notin EmptyValues}

\* The keys that start with k.
PrefixedBy(k) == {j \in Keys : j = k \/ k \in ProperPrefixes[j]}

\* Mutated form of Put: the entries below the key stay.
PutAlone(rep, k, v) ==
    IF \E p \in PrefixesOf(rep, k) : rep[p] >= v THEN rep ELSE [rep EXCEPT ![k] = v]

\* The entry takes the place of one that was there, a newer deletion marker too.
Put(rep, k, v) ==
    IF \E p \in PrefixesOf(rep, k) : rep[p] >= v
    THEN rep
    ELSE [j \in Keys |-> CASE j = k -> v
                           [] j # k /\ j \in PrefixedBy(k) /\ rep[j] <= v -> 0
                           [] OTHER -> rep[j]]

\* A range from a key to itself is everything, and ranges wrap around.
InRange(r, k) ==
    CASE r.x = r.y -> TRUE
      [] r.x < r.y -> r.x <= k /\ k < r.y
      [] r.x > r.y -> r.x <= k \/ k < r.y

GetRange(rep, r) == [k \in {j \in Keys : rep[j] # 0 /\ InRange(r, j)} |-> rep[k]]

\* Ranges are read in the order of the keys.
Nth(ks, i) == CHOOSE k \in ks : Cardinality({j \in ks : j < k}) = i
InOrder(ks) == [i \in 1..Cardinality(ks) |-> Nth(ks, i - 1)]

\* The default key is less than every other.
GetFirst(rep) ==
    LET ks == {k \in Keys : rep[k] # 0} IN IF ks = {} THEN 0 ELSE Nth(ks, 0)

-----------------------------------------------------------------------------
(* The messages. *)

Size(es) == Cardinality(DOMAIN es)

RangeFingerprint(r, es) ==
    [kind |-> "fingerprint", range |-> r, entries |-> es, haveLocal |-> FALSE]
RangeItem(r, es, haveLocal) ==
    [kind |-> "item", range |-> r, entries |-> es, haveLocal |-> haveLocal]

InitialMessage(rep) ==
    LET all == [x |-> GetFirst(rep), y |-> GetFirst(rep)] IN
    <<RangeFingerprint(all, GetRange(rep, all))>>

\* Mutated form of Diff: only the missing keys count, not the newer values.
DiffOfKeys(rep, item) ==
    LET mine == GetRange(rep, item.range) IN
    [k \in DOMAIN mine \ DOMAIN item.entries |-> mine[k]]

\* What a replica has in the range of an item that the sender lacks or has an
\* older value of.
Diff(rep, item) ==
    LET mine == GetRange(rep, item.range)
        known == {k \in DOMAIN mine \cap DOMAIN item.entries : item.entries[k] >= mine[k]} IN
    [k \in DOMAIN mine \ known |-> mine[k]]

\* The entries that the clock lets pass are put one by one.
StoreValues(rep, es, latest) ==
    LET valid == {k \in DOMAIN es : es[k] <= latest} IN
    FoldLeft(LAMBDA acc, k : With(acc, LAMBDA r : Put(r, k, es[k])), rep, InOrder(valid))

\* The diff is taken before the values are stored.
ProcessItem(rep, out, item, latest) ==
    LET diff == Diff(rep, item) IN
    [rep |-> StoreValues(rep, item.entries, latest),
     out |-> IF item.haveLocal \/ Size(diff) = 0
             THEN out
             ELSE Append(out, RangeItem(item.range, diff, TRUE))]

\* Mutated form of Pivot: the key that is i parts into them, the first for i = 0.
PivotFrom(ks, r, i) ==
    LET first == Cardinality({k \in ks : k < r.x})
        offset == (Cardinality(ks) * (i % SplitFactor)) \div SplitFactor IN
    Nth(ks, (first + offset) % Cardinality(ks))

\* The key that is i + 1 parts of SplitFactor into the keys of a range.
Pivot(ks, r, i) ==
    LET first == Cardinality({k \in ks : k < r.x})
        offset == (Cardinality(ks) * ((i % SplitFactor) + 1)) \div SplitFactor IN
    Nth(ks, (first + offset) % Cardinality(ks))

\* The first n ranges between pivots, without the empty ones.
Between(ks, r, n) ==
    LET nonempty(q) == q.x # q.y IN
    SelectSeq([i \in 1..n |-> [x |-> Pivot(ks, r, i - 1), y |-> Pivot(ks, r, i)]], nonempty)

Partition(ks, r) ==
    IF r.x = r.y
    THEN Between(ks, r, SplitFactor)
    ELSE <<[x |-> r.x, y |-> Pivot(ks, r, 0)]>>
         \o Between(ks, r, SplitFactor - 2)
         \o <<[x |-> Pivot(ks, r, SplitFactor - 2), y |-> r.y]>>

\* Fingerprints of the large parts of a range, and the entries of the small.
Recurse(mine, r) ==
    LET within(q) == [k \in {j \in DOMAIN mine : InRange(q, j)} |-> mine[k]]
        part(q, es) == IF Size(es) > MaxSetSize
                       THEN RangeFingerprint(q, es)
                       ELSE RangeItem(q, es, FALSE) IN
    With(Partition(DOMAIN mine, r),
         LAMBDA qs : [i \in 1..Len(qs) |-> part(qs[i], within(qs[i]))])

\* Mutated form of ProcessFingerprint: the items are not asked back.
ProcessFingerprintTold(mine, fp) ==
    CASE mine = fp.entries -> <<>>
      [] mine # fp.entries /\ (Size(mine) <= 1 \/ Size(fp.entries) = 0) ->
            <<RangeItem(fp.range, mine, TRUE)>>
      [] OTHER -> Recurse(mine, fp.range)

\* The answer to a fingerprint of a range in which the replica has `mine`.
ProcessFingerprint(mine, fp) ==
    CASE mine = fp.entries -> <<>>
      [] mine # fp.entries /\ (Size(mine) <= 1 \/ Size(fp.entries) = 0) ->
            <<RangeItem(fp.range, mine, FALSE)>>
      [] OTHER -> Recurse(mine, fp.range)

IsItem(part) == part.kind = "item"
IsFingerprint(part) == part.kind = "fingerprint"

\* The items come first: the fingerprints are compared with what they left.
ProcessMessage(rep, parts, latest) ==
    With(FoldLeft(LAMBDA acc, item : With(acc, LAMBDA a : ProcessItem(a.rep, a.out, item, latest)),
                  [rep |-> rep, out |-> <<>>], SelectSeq(parts, IsItem)),
         LAMBDA done :
            [done EXCEPT !.out = FoldLeft(
                LAMBDA out, fp :
                    out \o With(GetRange(done.rep, fp.range), LAMBDA mine : ProcessFingerprint(mine, fp)),
                @, SelectSeq(parts, IsFingerprint))])

ValidateLimits(parts) ==
    LET count(n, part) == n + (IF IsItem(part) THEN Size(part.entries) ELSE 0) IN
    Len(parts) <= MaxParts /\ FoldLeft(count, 0, parts) <= MaxEntries

-----------------------------------------------------------------------------
(* The session. *)

\* No entry is outdated by another that Put looks up.  Every such replica can
\* come about: by puts of each key after its prefixes.
Accepted(rep) ==
    \A k \in Keys : rep[k] # 0 => \A p \in PrefixesOf(rep, k) \ {k} : rep[p] < rep[k]

RangerInit ==
    /\ horizon \in [Ends -> {MaxValue - 1, MaxValue}]
    /\ \E i \in DOMAIN Beginnings : replica \in Beginnings[i]
    /\ \A e \in Ends : Accepted(replica[e])
    /\ \A e \in Ends, k \in Keys : replica[e][k] <= horizon[e]
    /\ phase = [e \in Ends |-> "idle"]
    /\ message = NoMessage
    /\ sent = 0
    /\ began = replica
    /\ inserts = {}

Running(e) == phase[e] = "running"

\* Alice has connected and sends the Init message, which bob allows.
SendInit ==
    /\ \A e \in Ends : phase[e] = "idle"
    /\ phase' = [e \in Ends |-> "running"]
    /\ message' = [to |-> "bob", parts |-> InitialMessage(replica["alice"])]
    /\ sent' = 1
    /\ UNCHANGED <<replica, horizon, began, inserts>>

\* An end has read a message.  It replies, or ends for lack of anything to say
\* or because its reply is beyond the limits.
RecvSync(e) ==
    /\ Running(e) /\ message.to = e
    /\ \E done \in {ProcessMessage(replica[e], message.parts, horizon[e])} :
        /\ replica' = [replica EXCEPT ![e] = done.rep]
        /\ \/ /\ done.out = <<>>
              /\ message' = NoMessage
              /\ phase' = [phase EXCEPT ![e] = "ok"]
              /\ UNCHANGED sent
           \/ /\ done.out # <<>> /\ ValidateLimits(done.out)
              /\ message' = [to |-> OtherEnd(e), parts |-> done.out]
              /\ sent' = sent + 1
              /\ UNCHANGED phase
           \/ /\ ~ValidateLimits(done.out)
              /\ message' = NoMessage
              /\ phase' = [phase EXCEPT ![e] = "failed"]
              /\ UNCHANGED sent
    /\ UNCHANGED <<horizon, began, inserts>>

\* The replica has been closed, or its store fails.  BobState has given away its
\* progress for the call, and his task panics when it asks for the outcome.
RecvFails(e) ==
    /\ Running(e) /\ message.to = e
    /\ phase' = [phase EXCEPT ![e] = IF e = "bob" THEN "panicked" ELSE "failed"]
    /\ message' = NoMessage
    /\ UNCHANGED <<replica, horizon, sent, began, inserts>>

\* An end has read the end of the stream: the other has finished it, whether it
\* ended well or not.
RecvEnd(e) ==
    /\ Running(e) /\ message = NoMessage
    /\ phase' = [phase EXCEPT ![e] = "ok"]
    /\ UNCHANGED <<replica, horizon, message, sent, began, inserts>>

ConnectionLost ==
    /\ \E e \in Ends : Running(e)
    /\ phase' = [e \in Ends |-> IF Running(e) THEN "failed" ELSE phase[e]]
    /\ message' = NoMessage
    /\ UNCHANGED <<replica, horizon, sent, began, inserts>>

\* An entry that the user inserts, a deletion, or an entry that gossip brings,
\* while the session runs.
InsertEntry(e, k, v) ==
    /\ Running(e) /\ Cardinality(inserts) < MaxInserts
    /\ v <= horizon[e]
    /\ Put(replica[e], k, v) # replica[e]
    /\ replica' = [replica EXCEPT ![e] = Put(@, k, v)]
    /\ inserts' = inserts \cup {<<k, v>>}
    /\ UNCHANGED <<horizon, phase, message, sent, began>>

RangerNext ==
    \/ SendInit
    \/ \E e \in Ends : RecvSync(e) \/ RecvFails(e) \/ RecvEnd(e)
    \/ ConnectionLost
    \/ \E e \in Ends, i \in Insertions : InsertEntry(e, i[1], i[2])

RangerSpec == RangerInit /\ [][RangerNext]_rangerVars

-----------------------------------------------------------------------------
EndedWell == \A e \in Ends : phase[e] = "ok"

\* An entry of k with value v is covered if there is one of k or of a prefix of
\* it that is at least as new.
Covered(rep, k, v) == \E p \in ProperPrefixes[k] \cup {k} : rep[p] >= v

\* There was another deletion marker, at an end or inserted, that is at least as
\* new as an entry of k with value v and deletes it.
Deleted(k, v) ==
    \E p \in ProperPrefixes[k] \cup {k}, t \in EmptyValues :
        /\ t >= v /\ <<p, t>> # <<k, v>>
        /\ <<p, t>> \in inserts \/ \E e \in Ends : began[e][p] = t

\* What two replicas come to: the newest value of every key, unless a prefix has
\* one at least as new.
Merge(a, b) ==
    LET newest(k) == IF a[k] >= b[k] THEN a[k] ELSE b[k] IN
    [k \in Keys |-> IF \E p \in ProperPrefixes[k] : newest(p) >= newest(k) THEN 0 ELSE newest(k)]

\* A session that both ends end well, in which nothing was inserted and no clock
\* refused anything, leaves both replicas with the merge of what they had, unless
\* one has a deletion marker for what it or the other still has: no range is left
\* out between the pivots, and what an entry with content takes away from below
\* its key while the ranges are narrowed down is missing on neither side.
Merged ==
    /\ EndedWell
    /\ inserts = {}
    /\ \A e \in Ends, k \in Keys : began[e][k] <= horizon[OtherEnd(e)]
    /\ \A e \in Ends, k \in Keys : began[e][k] # 0 => ~Deleted(k, began[e][k])
    => \A e \in Ends : replica[e] = Merge(began["alice"], began["bob"])

\* Whatever is inserted during a session that both ends end well, an entry with
\* content that one end held from the beginning to the end of it is covered at the
\* other, unless a deletion crossed with it or the clock of the other refuses it.
Reconciled ==
    EndedWell =>
        \A e \in Ends, k \in Keys :
            /\ began[e][k] \notin EmptyValues \cup {0} /\ replica[e][k] = began[e][k]
            /\ began[e][k] <= horizon[OtherEnd(e)]
            /\ ~Deleted(k, began[e][k])
            => Covered(replica[OtherEnd(e)], k, began[e][k])

\* Whatever the order in which entries and deletions arrive, none is kept beside
\* an entry with content, of a path that starts its own and is not empty, that is
\* as new (put, parents, remove_prefix_filtered).
NoneUnderContent == \A e \in Ends : Accepted(replica[e])

\* ranger.rs: "Entries are inserted if they compare strictly greater than all
\* entries in the set of entries which have the same key as `entry` or have a
\* key which is a prefix of `entry`": none is kept beside an entry of a prefix
\* that is as new, be it a deletion marker.
NoneOutdated ==
    \A e \in Ends, k \in Keys :
        replica[e][k] # 0 => \A p \in ProperPrefixes[k] : replica[e][p] < replica[e][k]

\* Every session ends, after a number of messages that is logarithmic in the
\* number of keys that the ends have, also if entries come in during the session:
\* every answer to a fingerprint halves what the answering end has in the range.
Logarithmic ==
    LET keys == Cardinality({k \in Keys : \E e \in Ends : began[e][k] # 0}) + Cardinality(inserts) IN
    \A j \in 1..KeyCount : 2^j >= keys => sent <= 2 * j + 1

=============================================================================
