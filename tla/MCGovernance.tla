---------------------------- MODULE MCGovernance ----------------------------
(* Two clients of two workspaces, who decide for each other, and three     *)
(* configurations: one holds every call back, one lets a client approve    *)
(* itself, one has no approver.                                            *)
EXTENDS Governance, TLC

CONSTANTS ann, bob, w1, w2, plain, risky

TwoWorkspaces == [c \in Clients |-> IF c = ann THEN w1 ELSE w2]

Strict ==
    [effect |-> [c \in Clients |-> "require_approval"],
     action |-> [a \in Args |-> IF a = risky THEN "require_approval" ELSE "allow"],
     deciders |-> [w \in Workspaces |-> IF w = w1 THEN {bob} ELSE {ann}],
     self |-> FALSE]

SelfService ==
    [effect |-> [c \in Clients |-> IF c = ann THEN "allow" ELSE "require_approval"],
     action |-> [a \in Args |-> IF a = risky THEN "require_approval" ELSE "allow"],
     deciders |-> [w \in Workspaces |-> {ann}],
     self |-> TRUE]

Closed ==
    [effect |-> [c \in Clients |-> IF c = ann THEN "deny" ELSE "allow"],
     action |-> [a \in Args |-> IF a = risky THEN "block" ELSE "allow"],
     deciders |-> [w \in Workspaces |-> {}],
     self |-> FALSE]

ThreeConfigs == {Strict, SelfService, Closed}

\* Ids and calls are interchangeable: no definition tells one from another.
Interchangeable == Permutations(Ids) \union Permutations(Calls)
=============================================================================
