---------------------------- MODULE VisibilityMC ----------------------------
(* Instances of Visibility for TLC. *)
EXTENDS Visibility

\* The rules that a request puts on a channel: none, or that it is hidden from
\* those who have the base group only, with or without an exception for group 4.
Hide == {Unruled} \cup {[Unruled EXCEPT ![2] = Deny, ![4] = s] : s \in {Allow, Inherit}}

\* Two rules at most, for one channel; nobody stays an administrator or becomes
\* a guest by assignment; one channel at most is shown as it was, and then
\* only before a restart and without a third channel.  The third is not temporary
\* and not there after a restart.  To be at the top or in the lobby, which has
\* no rules here, is the same.
Small ==
    /\ \A ch \in Chan \ {2} : rule[ch] = Unruled /\ req[ch] = NoReqs
    /\ Cardinality({g \in Group : rule[2][g] # NotSet})
       + Cardinality({g \in Group : req[2][g] # "none"}) <= 2
    /\ privilegedUids = {} /\ adminAuthenticated = {}
    /\ \A u \in Uid : assignByUid[u] \subseteq {2, 4}
    /\ \A u \in Uid : Cardinality({ch \in Chan : known[u][ch] = "old"}) <= 1
    /\ type[3] # "temp" /\ (restarts > 0 => type[3] = "none")
    /\ \A ch \in Chan : parent[ch] # Lobby
    /\ type[3] # "none" \/ restarts > 0 => \A u \in Uid, ch \in Chan : known[u][ch] # "old"

=============================================================================
