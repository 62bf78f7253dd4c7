----------------------------- MODULE MCAccount -----------------------------
(***************************************************************************)
(* Three replicas of an account founded by two controllers, and what their *)
(* holders submit.                                                         *)
(***************************************************************************)
EXTENDS AccountState, TLC

CONSTANTS c1, c2, c3, d1, d2

Rules(weight, resolve) ==
    [k \in OperationKinds |-> IF k = "resolve" THEN resolve ELSE weight]

\* One, two or three controllers for everything; a fork is resolved by none, and
\* by more than anything else.
MCPolicies == <<Rules(1, 1), Rules(2, 2), Rules(3, 3), Rules(1, 0), Rules(1, 2)>>

Scenario(kinds, controllers, devices, policies, replicas, events) ==
    [kinds |-> kinds \cup {"resolve"}, controllers |-> controllers, devices |-> devices,
     policies |-> policies, replicas |-> replicas, events |-> events]

\* Three replicas, for a fork of three branches, which differ or of which one goes
\* on; then every operation, with two replicas and as many events as the phases
\* of the operations take.
MCScenarios ==
    {Scenario({"remove"}, {c1, c2}, {}, {}, 3, 4),
     Scenario({"add", "remove"}, {c3}, {}, {}, 3, 4),
     Scenario({"add", "remove", "policy"}, {c2, c3}, {}, {2}, 2, 4),
     Scenario({"add", "remove", "policy"}, {c1, c2, c3}, {}, {1, 2, 3}, 2, 3),
     Scenario({"remove", "policy"}, {c1}, {}, {4, 5}, 2, 4),
     Scenario(DeviceKinds, {}, {d1}, {}, 2, 4),
     Scenario({"authorize", "suspend", "revoke", "rotate"}, {}, {d1, d2}, {}, 2, 4),
     Scenario({"authorize", "metadata", "revoke"}, {}, {d1}, {}, 2, 5),
     Scenario({"authorize", "begin", "veto", "cancel", "finalize"}, {c3}, {d1}, {1}, 2, 5),
     Scenario({"policy", "begin", "finalize"}, {c1}, {}, {1, 2}, 2, 4),
     Scenario({"remove", "begin", "finalize"}, {c1}, {}, {1}, 2, 4),
     Scenario({"migrate", "activate", "abort", "retireSuite"}, {}, {}, {}, 2, 4),
     Scenario({"migrate", "activate", "upgrade", "retire"}, {}, {}, {}, 2, 4)}

\* Two replicas of one account whose policy the controllers change.
PolicyChanges == {Scenario({"policy"}, {c1, c2}, {}, {1, 2}, 2, 4)}

ReplicaSymmetry == Permutations(Replicas)
=============================================================================
