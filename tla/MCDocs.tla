------------------------------- MODULE MCDocs -------------------------------
(***************************************************************************)
(* Two docs peers: the sync sessions that they start, refuse and end       *)
(* (DocsSync), and what the replicas exchange in one of them (DocsRanger); *)
(* `part` says which of them moves.                                        *)
(***************************************************************************)
EXTENDS DocsSync, DocsRanger

\* A path, one that starts with it, one that starts with both, and one apart.
Paths == [k \in 1..KeyCount |-> IF k \in {2, 3} THEN 1..(k - 1) ELSE {}]

\* All replicas with entries of the keys ks and the values vs.
Over(ks, vs) ==
    {[k \in Keys |-> IF k \in ks THEN f[k] ELSE 0] : f \in [ks -> {0} \cup vs]}

\* A replica with an entry of every key, one of them a deletion marker, and what
\* another may have of it: all but a few, or only a few.
Full == [k \in Keys |-> IF k \in {2, 3} THEN k ELSE 1]
PartsOf(rep) ==
    LET few == {ks \in SUBSET Keys : Cardinality(ks) <= 2} IN
    {[k \in Keys |-> IF k \in ks THEN rep[k] ELSE 0] : ks \in few \cup {Keys \ ks : ks \in few}}

\* One end has all of a long document; two ends have whatever of a short one,
\* without deletions, and with them beside an entry apart.
MCBeginnings ==
    <<{b \in [Ends -> PartsOf(Full)] : Full \in {b[e] : e \in Ends}},
      [Ends -> Over(1..3, {1, 3})],
      [Ends -> {rep \in Over({1, 2, 4}, 1..3) : rep[4] = 1}]>>

\* A deletion of the path, an older and a newer entry below it, an entry apart.
MCInsertions == {<<1, 2>>, <<2, 1>>, <<2, 3>>, <<4, 3>>}

\* An entry and the deletion of a path that starts its own; then the same with the
\* empty path, of which the entry need not be a deletion.
MCDeletions == <<[Ends -> Over({2, 3}, {1, 2})], [Ends -> Over({1, 2}, {1, 2})]>>

VARIABLE part

docsVars == <<syncVars, rangerVars, part>>

DocsParts == {"sync", "ranger"}

DocsInit ==
    /\ SyncInit /\ RangerInit
    /\ part # "ranger" => \A e \in Ends : horizon[e] = MaxValue /\ replica[e] = [k \in Keys |-> 0]

SyncStep(step) == part = "sync" /\ step /\ UNCHANGED <<rangerVars, part>>
RangerStep(step) == part = "ranger" /\ step /\ UNCHANGED <<syncVars, part>>

DocsNext == SyncStep(SyncNext) \/ RangerStep(RangerNext)

\* At first each end has taken its entries in an order that leaves none outdated.
DocsSpec == part \in DocsParts /\ DocsInit /\ NoneOutdated /\ [][DocsNext]_docsVars

=============================================================================
