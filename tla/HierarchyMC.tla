---------------------------- MODULE HierarchyMC ----------------------------
(* Instances of Hierarchy for TLC. *)
EXTENDS Hierarchy, TLC

Positions == {0, 10, 100}

Sets == {{}, {"groupEdit"}, {"*"}, {"pluginDataGlobal"}}

Identities == Permutations(Uid)

\* Behaviours go on from states in which the built-in groups are where they
\* were, but for groupEdit given to the base group; people hold two groups
\* between them, and of the keys and the password only one is used, once.
Few == /\ \A g \in BuiltIn : position[g] = CASE g = Normal -> 10 [] g = Admin -> 100 [] OTHER -> 0
       /\ perms[Guest] = {} /\ perms[Admin] = {"*", "groupEdit"}
       /\ perms[Normal] \subseteq {"groupEdit"}
       /\ \A u, v \in Uid : u # v => Cardinality(assignByUid[u]) + Cardinality(assignByUid[v]) <= 2
       /\ Cardinality(privilegedUids \cup adminAuthenticated) <= 1

=============================================================================
