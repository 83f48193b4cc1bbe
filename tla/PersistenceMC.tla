--------------------------- MODULE PersistenceMC ---------------------------
(* Instances of Persistence for TLC. *)
EXTENDS Persistence, TLC

\* Identities are alike.
Symmetry == Permutations(Uid)

DataAtRest == data = {} /\ storedData = {} /\ timer = 0 /\ taken = {}
MotdAtRest == ini = None /\ motd = Default /\ edited = None
BansAtRest == bans = <<>> /\ storedBans = {} /\ address = Nobody /\ barred = {} /\ unsure = {}

\* Of bans: the people online and the entries are two at most.
FewOnline == Cardinality({u \in Uid : address[u] # None}) + Len(bans) <= 2

\* Behaviours go on from states in which at most one of the three parts, which
\* share the server's life and its saves, has left its beginning.
Apart ==
    \/ DataAtRest /\ MotdAtRest /\ FewOnline
    \/ DataAtRest /\ BansAtRest
    \/ MotdAtRest /\ BansAtRest

\* Only bans change, and the database stays within reach.
BansAlone == DataAtRest /\ MotdAtRest /\ reachable

=============================================================================
