---------------------------- MODULE AccountState ----------------------------
(***************************************************************************)
(* The account history of krikos-identity: replicas of one account that    *)
(* validate, order and exchange authorized account events.  An event names *)
(* its predecessors, so the events of an account form a graph; a replica   *)
(* projects the events it has committed onto one AccountState, keeps       *)
(* competing histories side by side as a fork, and goes on from the branch *)
(* that a later event selects.  Modelled: every operation of               *)
(* AccountState::apply_operation but the changes of the recovery and of    *)
(* the provider policy, the fork machinery, the bounded lineage with the   *)
(* store's recovery of evicted pre-states, and the two commit entry points *)
(* of the store.                                                           *)
(*                                                                         *)
(* Abstracted: an event identifier is the event's place in `pool` (events  *)
(* carry a nonce, so no two are the same); a control policy is its place   *)
(* in Policies; every controller weighs one and is eligible for every      *)
(* rule, and the guardians approve a recovery; signatures, keys, provider  *)
(* receipts and deadlines are taken to be in order in every event that is  *)
(* submitted.                                                              *)
(***************************************************************************)
EXTENDS Integers, FiniteSets, FiniteSetsExt, Sequences, SequencesExt

CONSTANTS
    Replicas,       \* The stores that hold the account.
    Founders,       \* The controllers of the account's genesis.
    Devices,
    Suites,         \* Cryptographic suites, 1 the suite of protocol version 1.
    Policies,       \* The control policies, the first that of the genesis: for
                    \* each kind of operation the weight its rule requires, 0
                    \* if there is no rule for it; there is one at least.
    Scenarios,      \* What the holders submit: the kinds of operations, the
                    \* controllers, devices and policies they name, how many
                    \* events there are in all and how many replicas take part.
    MaxLineage,     \* limits::MAX_HISTORY_PAGE_EVENTS, the retained lineage.
    MaxForkHeads    \* limits::MAX_FORK_HEADS

VARIABLES
    scenario,   \* The one of Scenarios that is played.
    pool,       \* The events, in the order in which they were authored.
    accepted,   \* replica -> StoredAccount::events, by identifier.
    account     \* replica -> StoredAccount::projection

accountVars == <<scenario, pool, accepted, account>>

NoFork == [branches |-> {}]
NoPlan == [controllers |-> {}, devices |-> {}, policy |-> 0]
Stable == [phase |-> "stable", suite |-> 1, next |-> 0, successor |-> FALSE,
           event |-> 0, retired |-> {}]

FromGenesis ==
    [seq |-> 0, epoch |-> 0, heads |-> {}, active |-> Founders, revoked |-> {},
     policy |-> 1, devices |-> [d \in Devices |-> "unknown"], pending |-> NoPlan,
     crypto |-> Stable, lifecycle |-> "active",
     lineage |-> <<>>, through |-> 0, fork |-> NoFork]

Detached(s) == [s EXCEPT !.lineage = <<>>, !.fork = NoFork]

Only(t, allowed) == IF allowed THEN {t} ELSE {}

-----------------------------------------------------------------------------
(* The operations.  Each gives the state it leads to, or none if refused. *)

DeviceKinds == {"authorize", "update", "metadata", "suspend", "reinstate", "revoke"}
GuardianKinds == {"begin", "cancel", "finalize"}
OperationKinds ==
    DeviceKinds \cup GuardianKinds \cup
    {"rotate", "add", "remove", "policy", "veto", "resolve", "migrate", "activate",
     "retireSuite", "upgrade", "retire"}

\* A candidate suite is aborted under the rule for retiring a suite.
OperationKind(op) == IF op.kind = "abort" THEN "retireSuite" ELSE op.kind

RuleFor(policy, kind) == Policies[policy][kind]

\* policy -> the weight that the most demanding of its rules requires of the
\* controllers; the rules for the guardians' operations require none.
Demand == [p \in DOMAIN Policies |-> Max({RuleFor(p, k) : k \in OperationKinds \ GuardianKinds})]

\* validate_satisfiable: the controllers can meet every rule that there is.
Satisfiable(policy, controllers) ==
    controllers # {} /\ Demand[policy] <= Cardinality(controllers)

DeviceMoves(kind, lifecycle) ==
    CASE kind = "authorize" -> Only("active", lifecycle = "unknown")
      [] kind = "update"    -> Only(lifecycle, lifecycle \in {"active", "suspended"})
      [] kind = "metadata"  -> Only(lifecycle, lifecycle # "unknown")
      [] kind = "suspend"   -> Only("suspended", lifecycle = "active")
      [] kind = "reinstate" -> Only("active", lifecycle = "suspended")
      [] kind = "revoke"    -> Only("revoked", lifecycle \in {"active", "suspended"})

DeviceOperation(s, kind, d) ==
    {[s EXCEPT !.devices[d] = to] : to \in DeviceMoves(kind, s.devices[d])}

RotateDeviceKeys(s, old, new) ==
    UNION {DeviceOperation(t, "authorize", new) : t \in DeviceOperation(s, "revoke", old)}

\* Mutated form of AddController: tombstones are not looked up.
AddControllerAgain(s, c) == Only([s EXCEPT !.active = @ \cup {c}], c \notin s.active)

AddController(s, c) ==
    Only([s EXCEPT !.active = @ \cup {c}], c \notin s.active \cup s.revoked)

\* Mutated form of RemoveController: the policy is not checked against the rest.
RemoveControllerAny(s, c) ==
    Only([s EXCEPT !.active = @ \ {c}, !.revoked = @ \cup {c}], c \in s.active /\ s.active # {c})

RemoveController(s, c) ==
    LET t == [s EXCEPT !.active = @ \ {c}, !.revoked = @ \cup {c}]
    IN  Only(t, c \in s.active /\ Satisfiable(t.policy, t.active))

ChangeControlPolicy(s, policy) ==
    Only([s EXCEPT !.policy = policy], Satisfiable(policy, s.active))

V1Crypto(s) == s.crypto.phase = "stable" /\ s.crypto.suite = 1

BeginRecovery(s, plan) ==
    Only([s EXCEPT !.pending = plan, !.lifecycle = "recovery"],
         V1Crypto(s) /\ s.pending = NoPlan /\ s.heads # {})

\* VetoRecovery and CancelRecovery: the pending recovery is the one they name.
DropRecovery(s, plan) ==
    Only([s EXCEPT !.pending = NoPlan, !.lifecycle = "active"],
         s.pending # NoPlan /\ s.pending = plan)

InstallRecoveryPlan(s, plan) ==
    Only([s EXCEPT !.active = plan.controllers,
                   !.revoked = @ \cup (s.active \ plan.controllers),
                   !.policy = plan.policy,
                   !.devices = [d \in Devices |->
                                  IF d \in plan.devices \/ s.devices[d] = "unknown"
                                  THEN s.devices[d] ELSE "revoked"]],
         /\ plan.controllers \cap s.revoked = {}
         /\ \A d \in plan.devices : s.devices[d] \in {"active", "suspended"})

FinalizeRecovery(s, plan) ==
    UNION {InstallRecoveryPlan(t, plan) : t \in IF V1Crypto(s) THEN DropRecovery(s, plan) ELSE {}}

BeginCryptoMigration(s, id, next, successor) ==
    Only([s EXCEPT !.crypto = [@ EXCEPT !.phase = "candidate", !.next = next,
                                        !.successor = successor, !.event = id],
                   !.lifecycle = "migration"],
         s.crypto.phase = "stable" /\ next \notin s.crypto.retired)

ActivateCryptoMigration(s, id, begun) ==
    Only([s EXCEPT !.crypto = [@ EXCEPT !.phase = "dual", !.event = id], !.lifecycle = "dual"],
         s.crypto.phase = "candidate" /\ s.crypto.event = begun)

AbortCandidate(s, begun) ==
    Only([s EXCEPT !.crypto = [Stable EXCEPT !.suite = s.crypto.suite,
                                             !.retired = s.crypto.retired],
                   !.lifecycle = "active"],
         s.crypto.phase = "candidate" /\ s.crypto.event = begun)

RetirePrevious(s, activated) ==
    Only([s EXCEPT !.crypto = [Stable EXCEPT !.suite = s.crypto.next,
                                             !.retired = s.crypto.retired \cup {s.crypto.suite}],
                   !.lifecycle = IF s.crypto.successor THEN "retired" ELSE "active"],
         s.crypto.phase = "dual" /\ s.crypto.event = activated)

ApplyOperation(s, id, op) ==
    CASE op.kind \in DeviceKinds -> DeviceOperation(s, op.kind, op.device)
      [] op.kind = "rotate"   -> RotateDeviceKeys(s, op.device, op.by)
      [] op.kind = "add"      -> AddController(s, op.controller)
      [] op.kind = "remove"   -> RemoveController(s, op.controller)
      [] op.kind = "policy"   -> ChangeControlPolicy(s, op.policy)
      [] op.kind = "begin"    -> BeginRecovery(s, op.plan)
      [] op.kind \in {"veto", "cancel"} -> DropRecovery(s, op.plan)
      [] op.kind = "finalize" -> FinalizeRecovery(s, op.plan)
      [] op.kind = "migrate"  -> BeginCryptoMigration(s, id, op.next, op.successor)
      [] op.kind = "activate" -> ActivateCryptoMigration(s, id, op.event)
      [] op.kind = "abort"    -> AbortCandidate(s, op.event)
      [] op.kind = "retireSuite" -> RetirePrevious(s, op.event)
      [] op.kind = "upgrade"  -> {[s EXCEPT !.lifecycle = "upgrade"]}
      [] op.kind = "retire"   -> {[s EXCEPT !.lifecycle = "retired"]}
      [] op.kind = "resolve"  -> {}

\* What may follow in a lifecycle that is not "active".
LifecycleGate(s, kind) ==
    CASE s.lifecycle = "active"    -> TRUE
      [] s.lifecycle = "recovery"  -> kind \in {"veto", "cancel", "finalize"}
      [] s.lifecycle = "migration" -> kind \in {"activate", "abort", "retireSuite"}
      [] s.lifecycle = "dual"      -> kind \in {"abort", "retireSuite"}
      [] OTHER                     -> FALSE

-----------------------------------------------------------------------------
(* Validation and the linear history. *)

ExpectedEpoch(s, op) ==
    IF op.kind \in {"metadata", "migrate", "abort"} THEN s.epoch ELSE s.epoch + 1

\* An operation without a rule is denied.  BeginRecovery and CancelRecovery
\* carry the guardians' approvals, and a finalization is authorized by the
\* recovery that is pending.
ValidateEvent(s, authority, e, epoch) ==
    LET weight == RuleFor(authority.policy, OperationKind(e.op)) IN
    /\ e.seq = s.seq + 1
    /\ e.preds = s.heads
    /\ e.epoch = epoch
    /\ weight # 0
    /\ IF e.op.kind \in GuardianKinds
       THEN e.approvals = {}
       ELSE e.approvals \subseteq authority.active /\ Cardinality(e.approvals) >= weight

RetainLineageEntry(s, entry) ==
    IF Len(s.lineage) < MaxLineage
    THEN [s EXCEPT !.lineage = Append(@, entry)]
    ELSE [s EXCEPT !.lineage = Append(Tail(@), entry), !.through = Head(s.lineage).event.seq]

ApplyNewLinear(s, e) ==
    IF LifecycleGate(s, e.op.kind) /\ ValidateEvent(s, s, e, ExpectedEpoch(s, e.op))
    THEN {RetainLineageEntry([t EXCEPT !.seq = e.seq, !.epoch = e.epoch, !.heads = {e.id}],
                             [event |-> e, pre |-> Detached(s)]) :
            t \in ApplyOperation(s, e.id, e.op)}
    ELSE {}

-----------------------------------------------------------------------------
(* Forks: the competing histories since the state they have in common. *)

Tip(branch) == Last(branch.path).event.id
NewBranch(path, t) == [path |-> Append(path, Last(t.lineage)), state |-> Detached(t)]

Forked(common, ancestor, branches) ==
    [common EXCEPT !.seq = Max({b.state.seq : b \in branches}),
                   !.heads = {Tip(b) : b \in branches},
                   !.lifecycle = "forked",
                   !.fork = [common |-> common, ancestor |-> ancestor, branches |-> branches]]

RevokeForResolution(s, op) ==
    LET t == [s EXCEPT !.active = @ \ op.controllers,
                       !.revoked = @ \cup op.controllers,
                       !.devices = [d \in Devices |-> IF d \in op.devices THEN "revoked" ELSE @[d]]]
    IN  Only(t, /\ op.controllers \subseteq s.active \cup s.revoked
                /\ \A d \in op.devices : s.devices[d] # "unknown"
                /\ Satisfiable(t.policy, t.active))

ResolutionEpoch(fork) == 1 + Max({b.state.epoch : b \in fork.branches})

ApplyForkResolution(s, e) ==
    IF /\ e.op.kind = "resolve"
       /\ e.op.heads = s.heads
       /\ e.op.ancestor = s.fork.ancestor
       /\ ValidateEvent(s, s.fork.common, e, ResolutionEpoch(s.fork))
    THEN UNION {{RetainLineageEntry([t EXCEPT !.seq = e.seq, !.epoch = e.epoch, !.heads = {e.id}],
                                    [event |-> e, pre |-> [s EXCEPT !.lineage = <<>>]]) :
                   t \in RevokeForResolution(Detached(b.state), e.op)} :
                 b \in {b \in s.fork.branches : Tip(b) = e.op.selected}}
    ELSE {}

\* open_resolution_fork: a second resolution of the fork that `entry` resolved.
OpenResolutionFork(s, e, entry, path) ==
    {Forked(entry.pre.fork.common, entry.pre.fork.ancestor,
            {[path |-> path, state |-> Detached(s)], NewBranch(<<>>, t)}) :
       t \in ApplyForkResolution(entry.pre, e)}

\* Mutated form of OpenFork: the account is not taken back to the common state.
OpenForkInPlace(s, e, entry, path) ==
    IF entry.pre.fork # NoFork /\ e.op.kind = "resolve"
    THEN OpenResolutionFork(s, e, entry, path)
    ELSE {Forked(Detached(s), entry.pre.heads,
                 {[path |-> path, state |-> Detached(s)], NewBranch(<<>>, t)}) :
            t \in ApplyNewLinear(Detached(entry.pre), e)}

\* open_fork: e competes with the event of `entry`, from which `path` leads to
\* the present state; the account goes back to what both have in common.
OpenFork(s, e, entry, path) ==
    IF entry.pre.fork # NoFork /\ e.op.kind = "resolve"
    THEN OpenResolutionFork(s, e, entry, path)
    ELSE LET common == Detached(entry.pre) IN
         {Forked(common, common.heads,
                 {[path |-> path, state |-> Detached(s)], NewBranch(<<>>, t)}) :
            t \in ApplyNewLinear(common, e)}

ProjectTransition(pre, e) ==
    IF pre.fork # NoFork /\ e.op.kind = "resolve"
    THEN ApplyForkResolution(pre, e)
    ELSE ApplyNewLinear(Detached(pre), e)

SamePlace(d, e) == d.seq = e.seq /\ d.preds = e.preds

\* apply_while_forked: e resolves the fork, goes on with a branch, or branches
\* off from inside one.
ApplyWhileForked(s, e) ==
    LET parents == {b \in s.fork.branches : e.seq = b.state.seq + 1 /\ e.preds = b.state.heads}
        rivals  == {b \in s.fork.branches : \E i \in DOMAIN b.path : SamePlace(b.path[i].event, e)}
        With(branches) == Forked(s.fork.common, s.fork.ancestor, branches)
    IN  IF e.op.kind = "resolve" /\ e.preds = s.heads
        THEN ApplyForkResolution(s, e)
        ELSE IF parents # {}
        THEN LET b == CHOOSE b \in parents : TRUE IN
             {With((s.fork.branches \ {b}) \cup {NewBranch(b.path, t)}) :
                t \in ProjectTransition(b.state, e)}
        ELSE IF rivals # {} /\ Cardinality(s.fork.branches) < MaxForkHeads
        THEN LET b == CHOOSE b \in rivals : TRUE
                 i == CHOOSE i \in DOMAIN b.path : SamePlace(b.path[i].event, e)
             IN  {With(s.fork.branches \cup {NewBranch(SubSeq(b.path, 1, i - 1), t)}) :
                    t \in ProjectTransition(b.path[i].pre, e)}
        ELSE {}

Replays(s, e) ==
    \/ \E i \in DOMAIN s.lineage : s.lineage[i].event = e
    \/ \E b \in s.fork.branches : \E i \in DOMAIN b.path : b.path[i].event = e

Conflicts(s, e) == {i \in DOMAIN s.lineage : SamePlace(s.lineage[i].event, e)}

HistoricalStateRequired(s, e) ==
    ~Replays(s, e) /\ s.fork = NoFork /\ Conflicts(s, e) = {} /\ e.seq <= s.through

ValidateAndApply(s, e) ==
    CASE Replays(s, e) -> {s}
      [] ~Replays(s, e) /\ s.fork # NoFork -> ApplyWhileForked(s, e)
      [] OTHER ->
           IF Conflicts(s, e) # {}
           THEN LET i == Max(Conflicts(s, e)) IN
                OpenFork(s, e, s.lineage[i], SubSeq(s.lineage, i, Len(s.lineage)))
           ELSE IF e.seq <= s.through THEN {} ELSE ApplyNewLinear(s, e)

-----------------------------------------------------------------------------
(* The store. *)

Ancestry == \* event -> the events its history consists of, itself included
    LET history[i \in DOMAIN pool] == {i} \cup UNION {history[p] : p \in pool[i].preds}
    IN  history

AncestorClosure(heads) == UNION {Ancestry[h] : h \in heads}

\* event_history and canonical_event_order: by sequence, then by identifier.
CanonicalOrder(ids) ==
    LET before(i, j) == pool[i].seq < pool[j].seq \/ (pool[i].seq = pool[j].seq /\ i < j)
        place(i) == 1 + Cardinality({j \in ids : before(j, i)})
    IN  [n \in 1..Cardinality(ids) |-> pool[CHOOSE i \in ids : place(i) = n]]

ReconstructPreState(e) ==
    FoldLeft(LAMBDA states, d : UNION {ValidateAndApply(s, d) : s \in states},
             {FromGenesis}, CanonicalOrder(AncestorClosure(e.preds)))

\* validate_and_apply_historical_conflict: the accepted path once more.
ReplayPath(pre, path) ==
    FoldLeft(LAMBDA branches, d : UNION {{NewBranch(b.path, t) : t \in ApplyNewLinear(b.state, d)} :
                                           b \in branches},
             {[path |-> <<>>, state |-> Detached(pre)]}, path)

HistoricalConflict(s, e) ==
    LET history == AncestorClosure(s.heads)
        rivals  == {i \in history : SamePlace(pool[i], e) /\ i # e.id}
        since   == {i \in history : pool[i].seq >= e.seq}
        linear  == \A i \in since \ rivals : Cardinality(pool[i].preds) = 1
        Known(t) == [Detached(t) EXCEPT !.through = 0]
    IN  IF rivals = {} \/ ~linear THEN {}
        ELSE UNION {UNION {OpenFork(s, e, [event |-> pool[Min(rivals)], pre |-> Detached(pre)], b.path) :
                             b \in {b \in ReplayPath(pre, CanonicalOrder(since)) :
                                      Known(b.state) = Known(s)}} :
                      pre \in ReconstructPreState(e)}

Commit(s, e) ==
    IF HistoricalStateRequired(s, e) THEN HistoricalConflict(s, e) ELSE ValidateAndApply(s, e)

\* commit_events: the whole frame, or nothing of it.
CommitFrame(s, ids) ==
    FoldLeft(LAMBDA states, e : UNION {Commit(t, e) : t \in states}, {s}, CanonicalOrder(ids))

-----------------------------------------------------------------------------
(* The holders of the account. *)

Named == scenario.controllers
Involved == scenario.devices
AtMostOne(S) == {{}} \cup {{x} : x \in S}

\* A recovery plan is one that its controllers can satisfy.
Plans ==
    {plan \in [controllers : SUBSET Named, devices : SUBSET Involved, policy : scenario.policies] :
       Satisfiable(plan.policy, plan.controllers)}

Operations(s) ==
    UNION {[kind : DeviceKinds, device : Involved],
           [kind : {"rotate"}, device : Involved, by : Involved],
           [kind : {"add", "remove"}, controller : Named],
           [kind : {"policy"}, policy : scenario.policies],
           [kind : {"begin"}, plan : Plans],
           [kind : {"veto", "cancel", "finalize"}, plan : {s.pending}],
           [kind : {"migrate"}, next : Suites \ {s.crypto.suite}, successor : BOOLEAN],
           [kind : {"activate", "abort", "retireSuite"}, event : {s.crypto.event}],
           [kind : {"upgrade", "retire"}]}

Resolutions(s) ==
    [kind : {"resolve"}, ancestor : {s.fork.ancestor}, heads : {s.heads}, selected : s.heads,
     controllers : AtMostOne(Named), devices : AtMostOne(Involved)]

\* The event that the holder of a replica in state s submits.
Event(s, op) ==
    [id |-> Len(pool) + 1, seq |-> s.seq + 1, preds |-> s.heads, op |-> op,
     epoch |-> IF op.kind = "resolve" THEN ResolutionEpoch(s.fork) ELSE ExpectedEpoch(s, op),
     approvals |-> IF op.kind \in GuardianKinds THEN {} ELSE s.active]

Proposals(s) ==
    {Event(s, op) : op \in {op \in IF s.fork = NoFork THEN Operations(s) ELSE Resolutions(s) :
                              op.kind \in scenario.kinds}}

TakesPart(r) ==
    accepted[r] # {} \/ Cardinality({p \in Replicas : accepted[p] # {}}) < scenario.replicas

AccountInit ==
    /\ scenario \in Scenarios
    /\ pool = <<>>
    /\ accepted = [r \in Replicas |-> {}]
    /\ account = [r \in Replicas |-> FromGenesis]

\* A holder authors an event on the state of its replica and commits it.
Author(r) ==
    /\ TakesPart(r) /\ Len(pool) < scenario.events
    /\ \E e \in Proposals(account[r]) : \E t \in Commit(account[r], e) :
         /\ pool' = Append(pool, e)
         /\ accepted' = [accepted EXCEPT ![r] = @ \cup {e.id}]
         /\ account' = [account EXCEPT ![r] = t]
    /\ UNCHANGED scenario

\* commit_event: an event of another holder, in whatever order they come.
CommitEvent(r, i) ==
    /\ TakesPart(r) /\ i \notin accepted[r]
    /\ \E t \in Commit(account[r], pool[i]) : account' = [account EXCEPT ![r] = t]
    /\ accepted' = [accepted EXCEPT ![r] = @ \cup {i}]
    /\ UNCHANGED <<scenario, pool>>

\* reconcile_sync_frame: the history that a peer serves.
ReconcileSyncFrame(r, p) ==
    /\ TakesPart(r) /\ account[r].heads # account[p].heads
    /\ \E t \in CommitFrame(account[r], AncestorClosure(account[p].heads)) :
         account' = [account EXCEPT ![r] = t]
    /\ accepted' = [accepted EXCEPT ![r] = @ \cup AncestorClosure(account[p].heads)]
    /\ UNCHANGED <<scenario, pool>>

AccountNext ==
    \E r \in Replicas : \/ Author(r)
                        \/ \E i \in DOMAIN pool : CommitEvent(r, i)
                        \/ \E p \in Replicas : ReconcileSyncFrame(r, p)

AccountSpec == AccountInit /\ [][AccountNext]_accountVars

-----------------------------------------------------------------------------
(* What the account is, read off the graph of its events alone. *)

Core(s) == [s EXCEPT !.lineage = <<>>, !.through = 0, !.fork = NoFork]

\* event -> the state its history leads to; 0 is the genesis.
StateAt ==
    LET at[i \in 0..Len(pool)] ==
          IF i = 0 THEN FromGenesis
          ELSE LET e == pool[i]
                   parent == IF e.op.kind = "resolve" THEN e.op.selected ELSE Max(e.preds \cup {0})
                   results == IF e.op.kind = "resolve" THEN RevokeForResolution(at[parent], e.op)
                              ELSE ApplyOperation(at[parent], e.id, e.op)
               IN  [(CHOOSE t \in results : TRUE) EXCEPT !.seq = e.seq, !.epoch = e.epoch, !.heads = {i}]
    IN  at

Latest(ids) == {i \in ids : \A j \in ids : i \notin pool[j].preds}

\* heads -> the last event that they all descend from.  Resolutions of one
\* fork that compete have the ancestor of the fork.
CommonAncestor ==
    LET common[H \in SUBSET DOMAIN pool] ==
          LET shared == Latest({i \in DOMAIN pool : \A h \in H : i \in Ancestry[h]})
          IN  IF Cardinality(shared) > 1 THEN common[shared] ELSE shared
    IN  common

\* Whatever order the events came in, one by one or in frames, evicted from the
\* lineage or not: a replica's projection is what the graph of the events it
\* has committed says.  It serves all of them, and a fork keeps every branch.
Projected ==
    \A r \in Replicas :
        LET s == account[r]
            H == Latest(accepted[r])
            A == CommonAncestor[H]
        IN  IF Cardinality(H) <= 1
            THEN Core(s) = StateAt[Max(H \cup {0})]
            ELSE /\ Core(s) = [StateAt[Max(A \cup {0})] EXCEPT
                                 !.seq = Max({pool[h].seq : h \in H}),
                                 !.heads = H, !.lifecycle = "forked"]
                 /\ s.fork.ancestor = A
                 /\ Core(s.fork.common) = StateAt[Max(A \cup {0})]
                 /\ {Core(b.state) : b \in s.fork.branches} = {StateAt[h] : h \in H}

\* How the controllers, without a recovery, move on an account in which nothing
\* competes: they set the policy in force again, or end what is pending in each
\* of the ways that there are.
WaysOn(s) ==
    CASE s.lifecycle = "active"    -> [kind : {"policy"}, policy : {s.policy}]
      [] s.lifecycle = "recovery"  -> [kind : {"veto"}, plan : {s.pending}]
      [] s.lifecycle = "migration" -> [kind : {"activate", "abort"}, event : {s.crypto.event}]
      [] s.lifecycle = "dual"      -> [kind : {"retireSuite"}, event : {s.crypto.event}]
      [] OTHER                     -> {}

\* Whatever was removed, recovered, changed and resolved, in whatever order: what
\* the policy in force has a rule for stays within the reach of the controllers.
\* They can move the account on by each such operation, and if the policy that
\* the branches of a fork have in common has a rule for it, they can end the fork
\* in favour of each of them (validate_satisfiable, at each of its callers).
Unstuck ==
    \A r \in Replicas :
        LET s == account[r]
            Ruled(op) == RuleFor(s.policy, OperationKind(op)) # 0 IN
        IF s.fork = NoFork
        THEN \A op \in WaysOn(s) : Ruled(op) => Commit(s, Event(s, op)) # {}
        ELSE \A b \in s.fork.branches :
               \E op \in Resolutions(s) :
                  op.selected = Tip(b) /\ (Ruled(op) => Commit(s, Event(s, op)) # {})

\* event -> the history that leads to it, with the selected branches only.
Selected ==
    LET line[i \in 0..Len(pool)] ==
          {i} \cup (IF i = 0 THEN {}
                    ELSE line[IF pool[i].op.kind = "resolve" THEN pool[i].op.selected
                              ELSE Max(pool[i].preds \cup {0})])
    IN  line

\* A revoked controller or device stays revoked as long as the account stays on
\* the history that revoked it.
TombstonesKept ==
    [][\A r \in Replicas :
         LET s == account[r]  t == account[r]' IN
         (t.fork = NoFork /\ \E i \in t.heads : s.heads \subseteq Selected'[i])
         => /\ s.revoked \subseteq t.revoked \ t.active
            /\ \A d \in Devices : s.devices[d] = "revoked" => t.devices[d] = "revoked"]_accountVars

\* commit_events takes a set of reordered or duplicate events, and a peer serves
\* its whole history: a frame that brings all the events a replica has, beside
\* new ones, is not refused.
DuplicatesTolerated ==
    \A r, p \in Replicas :
        accepted[r] \subseteq accepted[p]
        => CommitFrame(account[r], AncestorClosure(account[p].heads)) # {}
           \/ account[r].heads = account[p].heads
=============================================================================
