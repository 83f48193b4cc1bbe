----------------------------- MODULE Visibility -----------------------------
(***************************************************************************)
(* Which channels each client has been shown.  What may be seen follows    *)
(* from the channel tree (Channels), from the roles of a person            *)
(* (Hierarchy) and from the rules that a channel has for roles; what has   *)
(* been shown is changed by the messages that a handler remembers to send. *)
(*                                                                         *)
(* Who may ask for a change is the subject of Hierarchy, and is an input   *)
(* here.  So is which of the groups of a person is the highest: of the     *)
(* positions this module keeps whether they are below what a channel asks. *)
(* Of the rules of a channel the one for "view" is kept, and of the full   *)
(* rights those that come with the group Admin, a privilege key or the     *)
(* password of the administrator.                                          *)
(***************************************************************************)
EXTENDS Integers, FiniteSets, Sequences

CONSTANTS
    Uid,          \* identities
    MaxGroup,     \* bound on group ids
    MaxChan,      \* bound on channel ids
    MaxRestarts,  \* bound on the restarts of the server
    MaxMoves,     \* bound on the length of the list of a reorder
    Ruled,        \* the groups that requests put rules on
    Rules,        \* the rules for "view" that a request may put on a channel
    ByUid,        \* may a request name by its uid a person who is online?
    Console       \* is ServerQuery used?

Group == 1..MaxGroup
Chan == 1..MaxChan
Lobby == 1
Root == 0

\* The states of a permission for a group in a channel.
Allow == 1
Deny == 0
Inherit == -1
NotSet == -2
State == {Allow, Deny, Inherit, NotSet}

ASSUME VisibilityAssumption ==
    /\ MaxGroup \in Nat /\ MaxGroup >= 3
    /\ MaxChan \in Nat \ {0} /\ MaxRestarts \in Nat /\ MaxMoves \in Nat
    /\ Ruled \subseteq Group /\ Rules \subseteq [Group -> State]
    /\ Console \in BOOLEAN

VARIABLES
    groups, nextGroup, assignByUid, privilegedUids, online, adminAuthenticated, groupId, \* as in Hierarchy
    type, parent, nextChan, restarts,    \* as in Channels
    rule,     \* SvrChan::groupPerms, its "view" entries
    req,      \* SvrChan::groupPositionReqs, and how the positions compare
    known     \* known[u][ch]: is ch in the tree that the client of u shows?

Roles == INSTANCE Hierarchy WITH
    position <- [g \in Group |-> 0], perms <- [g \in Group |-> {}],
    groupPosition <- [u \in Uid |-> 0], Position <- {0, 10, 100}, MaxPosition <- 100,
    PermSets <- {{}}, Key <- {}, KeyReuse <- FALSE, usedKeys <- {}
Tree == INSTANCE Channels WITH
    linkedChannels <- [ch \in Chan |-> {}], tempChannelParent <- {},
    cache <- [ch \in Chan |-> {}], cacheIsOld <- TRUE

groupVars == <<groups, nextGroup>>
grantVars == <<assignByUid, privilegedUids>>
sessionVars == <<online, adminAuthenticated, groupId>>
treeVars == <<type, parent, nextChan>>
ruleVars == <<rule, req>>
vars == <<groupVars, grantVars, sessionVars, treeVars, ruleVars, known, restarts>>

\* "old" is a channel that is shown as it was before its fields changed.
Shown == {"hidden", "current", "old"}
NoTree == [ch \in Chan |-> "hidden"]
Unruled == [g \in Group |-> NotSet]
NoReqs == [g \in Group |-> "none"]

TypeOK ==
    /\ groups \in SUBSET Group /\ Roles!BuiltIn \subseteq groups
    /\ nextGroup \in 4..MaxGroup + 1
    /\ assignByUid \in [Uid -> SUBSET Group]
    /\ privilegedUids \in SUBSET Uid
    /\ online \in SUBSET Uid
    /\ adminAuthenticated \in SUBSET online
    /\ groupId \in [Uid -> Group]
    /\ type \in [Chan -> {"none", "temp", "kept"}] /\ type[Lobby] = "kept"
    /\ parent \in [Chan -> Chan \cup {Root}]
    /\ nextChan \in 2..MaxChan + 1
    /\ restarts \in 0..MaxRestarts
    /\ rule \in [Chan -> [Group -> State]]
    /\ req \in [Chan -> [Group -> {"none", "met", "low"}]]
    /\ known \in [Uid -> [Chan -> Shown]]

Init ==
    /\ groups = Roles!BuiltIn
    /\ nextGroup = 4
    /\ assignByUid = [u \in Uid |-> {}]
    /\ privilegedUids = {}
    /\ online = {} /\ adminAuthenticated = {}
    /\ groupId = [u \in Uid |-> Roles!Guest]
    /\ type = [ch \in Chan |-> IF ch = Lobby THEN "kept" ELSE "none"]
    /\ parent = [ch \in Chan |-> Root]
    /\ nextChan = 2
    /\ restarts = 0
    /\ rule = [ch \in Chan |-> Unruled]
    /\ req = [ch \in Chan |-> NoReqs]
    /\ known = [u \in Uid |-> NoTree]

-----------------------------------------------------------------------------
(* Who may see what *)

\* The groups whose position is below what the channel asks of them.
TooLow(ch) == {g \in Group : req[ch][g] = "low"}

\* The groups in G have new positions: any requirement for them may be met now.
Reposition(G) ==
    \E low \in SUBSET {e \in Chan \X G : req[e[1]][e[2]] # "none"} :
        req' = [ch \in Chan |-> [g \in Group |->
                   IF g \notin G \/ req[ch][g] = "none" THEN req[ch][g]
                   ELSE IF <<ch, g>> \in low THEN "low" ELSE "met"]]

\* Mutant of Combine: a later group decides over an earlier one.
CombineLast(so_far, s) == IF s = NotSet THEN so_far ELSE s

\* How the loop of getChannelPermState takes one more group into account.
Combine(so_far, s) ==
    CASE s = Allow -> Allow
      [] s = Deny /\ so_far # Allow -> Deny
      [] s = Inherit /\ so_far = NotSet -> Inherit
      [] OTHER -> so_far

\* The loop over the groups of a person, in the order in which they are kept.
PermStateInOrder(ch, gids) ==
    LET after[i \in 0..Len(gids)] ==
            IF i = 0 THEN NotSet ELSE Combine(after[i - 1], rule[ch][gids[i]])
    IN  IF \E i \in DOMAIN gids : gids[i] \in TooLow(ch) THEN Deny ELSE after[Len(gids)]

\* What it comes to: a position that is too low denies, and otherwise the
\* strongest of what the groups of u have there.
getChannelPermState(u, ch) ==
    LET gids == Roles!groupIdsForUid(u)
        states == {rule[ch][g] : g \in gids}
    IN  IF gids \cap TooLow(ch) # {} THEN Deny
        ELSE CHOOSE s \in states : \A r \in states : r <= s

\* Mutant of canViewChannel: a hidden channel does not hide what is below it.
canViewFlat(u, ch) ==
    /\ ch \in Tree!Exists
    /\ Roles!isSuperAdmin(u) \/ getChannelPermState(u, ch) # Deny

canViewChannel(u, ch) ==
    /\ ch \in Tree!Exists
    /\ \/ Roles!isSuperAdmin(u)
       \/ \A q \in Tree!Above(ch) : getChannelPermState(u, q) # Deny

View(u) == [ch \in Chan |-> IF canViewChannel(u, ch) THEN "current" ELSE "hidden"]

\* The clients of S are told what they may see, as the step leaves things.
syncChannelVisibility(S) ==
    known' = [u \in Uid |-> IF u \in S \cap online' THEN View(u)' ELSE known[u]]

Everybody == Uid

\* The primary group of the sessions in S is computed again, and each of them
\* is told what it may see.
applyGroup(S) ==
    /\ \E top \in [S -> Group] :
          /\ \A u \in S : top[u] \in Roles!Primary(assignByUid[u])'
          /\ groupId' = [u \in Uid |-> IF u \in S THEN top[u] ELSE groupId[u]]
    /\ UNCHANGED <<online, adminAuthenticated>>
    /\ syncChannelVisibility(S)

\* chan_removed goes to everybody, and so does what changed in channels that
\* were linked with the one that went, if there were any.
Forget(gone, linked) ==
    IF linked THEN syncChannelVisibility(Everybody)
    ELSE known' = [u \in Uid |-> [ch \in Chan |-> IF ch \in gone THEN "hidden" ELSE known[u][ch]]]

-----------------------------------------------------------------------------
(* Sessions *)

\* The password of the administrator counts as the group Admin.
Hello(u, admin) ==
    /\ online' = online \cup {u}
    /\ adminAuthenticated' = IF admin THEN adminAuthenticated \cup {u} ELSE adminAuthenticated \ {u}
    /\ \E g \in Roles!Primary(assignByUid[u] \cup IF admin THEN {Roles!Admin} ELSE {}) :
          groupId' = [groupId EXCEPT ![u] = g]
    /\ UNCHANGED <<groupVars, grantVars, treeVars, ruleVars, restarts>>
    /\ syncChannelVisibility({u})

Leave(u) ==
    /\ u \in online
    /\ online' = online \ {u}
    /\ adminAuthenticated' = adminAuthenticated \ {u}
    /\ groupId' = [groupId EXCEPT ![u] = Roles!Guest]
    /\ known' = [known EXCEPT ![u] = NoTree]
    /\ UNCHANGED <<groupVars, grantVars, treeVars, ruleVars, restarts>>

\* Mutant of Privkey: the person is told only that the key was taken.
PrivkeyQuietly(u) ==
    /\ u \in online
    /\ privilegedUids' = privilegedUids \cup {u}
    /\ UNCHANGED <<groupVars, assignByUid, sessionVars, treeVars, ruleVars, known, restarts>>

Privkey(u) ==
    /\ u \in online
    /\ privilegedUids' = privilegedUids \cup {u}
    /\ UNCHANGED <<groupVars, assignByUid, sessionVars, treeVars, ruleVars, restarts>>
    /\ syncChannelVisibility({u})

-----------------------------------------------------------------------------
(* Roles *)

\* A request refused for its position has used up an id.
GroupCreate ==
    /\ nextGroup \in Group
    /\ nextGroup' = nextGroup + 1
    /\ UNCHANGED <<grantVars, treeVars, rule, restarts>>
    /\ \/ /\ groups' = groups \cup {nextGroup}
          /\ Reposition({nextGroup})
          /\ applyGroup(Roles!Touched({nextGroup}))
       \/ UNCHANGED <<groups, req, sessionVars, known>>

\* group_set for a group that there is, and group_reorder for several.
GroupEdit(G) ==
    /\ G # {} /\ G \subseteq groups
    /\ Reposition(G)
    /\ UNCHANGED <<groupVars, grantVars, treeVars, rule, restarts>>
    /\ applyGroup(Roles!Touched(G))

\* Mutant of GroupDelete: those who had the group keep it in their list.
GroupDeleteKeeps(g) ==
    /\ g \in groups \ Roles!BuiltIn
    /\ groups' = groups \ {g}
    /\ UNCHANGED <<nextGroup, grantVars, treeVars, ruleVars, restarts>>
    /\ applyGroup({u \in online : groupId[u] = g})

\* Only sessions whose primary group it was are told.  Channels keep the rules
\* that they have for the group.
GroupDelete(g) ==
    /\ g \in groups \ Roles!BuiltIn
    /\ groups' = groups \ {g}
    /\ assignByUid' = Roles!Without(g)
    /\ UNCHANGED <<nextGroup, privilegedUids, treeVars, ruleVars, restarts>>
    /\ applyGroup({u \in online : groupId[u] = g})

\* A person who is named by uid is told nothing.
ClientSetGroup(g, u, byUid, op) ==
    /\ g \in groups
    /\ ~byUid => u \in online
    /\ assignByUid' = [assignByUid EXCEPT
                         ![u] = Roles!orNormal(IF op = "add" THEN @ \cup {g} ELSE @ \ {g})]
    /\ UNCHANGED <<groupVars, privilegedUids, treeVars, ruleVars, restarts>>
    /\ applyGroup(IF byUid THEN {} ELSE {u})

\* servergroupsetposition tells nobody.
QuerySetPosition(g) ==
    /\ g \in groups
    /\ Reposition({g})
    /\ UNCHANGED <<groupVars, grantVars, sessionVars, treeVars, rule, known, restarts>>

-----------------------------------------------------------------------------
(* Channels *)

\* A request refused for its parent or its fields has used up an id.  Which
\* parent is taken in the end is the subject of Channels.
ChanCreate(kind, p, r) ==
    /\ nextChan \in Chan
    /\ nextChan' = nextChan + 1
    /\ UNCHANGED <<groupVars, grantVars, sessionVars, req, restarts>>
    /\ \/ /\ p \in Tree!Exists \cup {Root}
          /\ type' = [type EXCEPT ![nextChan] = kind]
          /\ parent' = [parent EXCEPT ![nextChan] = p]
          /\ rule' = [rule EXCEPT ![nextChan] = r]
          /\ syncChannelVisibility(Everybody)
       \/ UNCHANGED <<type, parent, rule, known>>

\* Mutant of ChanMove: only the channel that moves is shown again.
ChanMoveAlone(id, p) ==
    /\ id \in Tree!Exists \ {Lobby}
    /\ Tree!Fits(id, p)
    /\ parent' = [parent EXCEPT ![id] = p]
    /\ UNCHANGED <<groupVars, grantVars, sessionVars, type, nextChan, ruleVars, restarts>>
    /\ known' = [u \in Uid |-> IF u \in online THEN [known[u] EXCEPT ![id] = View(u)'[id]]
                               ELSE known[u]]

ChanMove(id, p) ==
    /\ id \in Tree!Exists \ {Lobby}
    /\ Tree!Fits(id, p)
    /\ parent' = [parent EXCEPT ![id] = p]
    /\ UNCHANGED <<groupVars, grantVars, sessionVars, type, nextChan, ruleVars, restarts>>
    /\ syncChannelVisibility(Everybody)

\* An edit, an operator added or a link: everybody is told everything.
ChanEdit(ch, kind, r) ==
    /\ ch \in Tree!Exists
    /\ ch = Lobby => kind = "kept"
    /\ type' = [type EXCEPT ![ch] = kind]
    /\ rule' = [rule EXCEPT ![ch] = r]
    /\ UNCHANGED <<groupVars, grantVars, sessionVars, parent, nextChan, req, restarts>>
    /\ syncChannelVisibility(Everybody)

\* An edit that stops at a bad topic, description or password has set what came
\* before it, and tells nobody.
ChanEditRefused(ch) ==
    /\ ch \in Tree!Exists
    /\ known' = [u \in Uid |-> [known[u] EXCEPT ![ch] = IF @ = "current" THEN "old" ELSE @]]
    /\ UNCHANGED <<groupVars, grantVars, sessionVars, treeVars, ruleVars, restarts>>

Removed(gone, linked) ==
    /\ type' = [ch \in Chan |-> IF ch \in gone THEN "none" ELSE type[ch]]
    /\ parent' = [ch \in Chan |-> IF ch \in gone THEN Root ELSE parent[ch]]
    /\ rule' = [ch \in Chan |-> IF ch \in gone THEN Unruled ELSE rule[ch]]
    /\ req' = [ch \in Chan |-> IF ch \in gone THEN NoReqs ELSE req[ch]]
    /\ UNCHANGED <<groupVars, grantVars, sessionVars, nextChan, restarts>>
    /\ Forget(gone, linked)

\* Mutant of ChanDelete: the first channel, and those with sub-channels, too.
ChanDeleteAny(id, linked) ==
    /\ id \in Tree!Exists
    /\ Removed({id}, linked)

ChanDelete(id, linked) ==
    /\ id \in Tree!Exists \ {Lobby}
    /\ \A ch \in Tree!Exists : parent[ch] # id
    /\ Removed({id}, linked)

\* The timer does not ask whether a temporary channel has sub-channels.
Cleanup(gone, linked) ==
    /\ gone # {}
    /\ \A ch \in gone : type[ch] = "temp"
    /\ Removed(gone, linked)

\* channelgroupsetperm, where "inherit" takes the entry away.
QuerySetPerm(ch, g, s) ==
    /\ ch \in Tree!Exists /\ g \in groups
    /\ rule' = [rule EXCEPT ![ch][g] = IF s = Inherit THEN NotSet ELSE s]
    /\ UNCHANGED <<groupVars, grantVars, sessionVars, treeVars, req, restarts>>
    /\ syncChannelVisibility(Everybody)

\* channelgroupsetpositionreq, where a negative position takes the entry away.
QuerySetReq(ch, g, r) ==
    /\ ch \in Tree!Exists /\ g \in groups
    /\ req' = [req EXCEPT ![ch][g] = r]
    /\ UNCHANGED <<groupVars, grantVars, sessionVars, treeVars, rule, restarts>>
    /\ syncChannelVisibility(Everybody)

\* Temporary channels are not saved; ids start again above the highest saved.
Restart ==
    LET saved == {ch \in Chan : type[ch] = "kept"}
    IN  /\ restarts < MaxRestarts
        /\ restarts' = restarts + 1
        /\ type' = [ch \in Chan |-> IF ch \in saved THEN "kept" ELSE "none"]
        /\ parent' = [ch \in Chan |-> IF ch \in saved THEN parent[ch] ELSE Root]
        /\ rule' = [ch \in Chan |-> IF ch \in saved THEN rule[ch] ELSE Unruled]
        /\ req' = [ch \in Chan |-> IF ch \in saved THEN req[ch] ELSE NoReqs]
        /\ nextChan' = Tree!FirstFree(saved)
        /\ nextGroup' = Roles!Greatest(groups) + 1
        /\ online' = {} /\ adminAuthenticated' = {}
        /\ groupId' = [u \in Uid |-> Roles!Guest]
        /\ known' = [u \in Uid |-> NoTree]
        /\ UNCHANGED <<groups, grantVars>>

-----------------------------------------------------------------------------
RoleRequest ==
    \/ GroupCreate
    \/ \E G \in SUBSET Group : Cardinality(G) <= MaxMoves /\ GroupEdit(G)
    \/ \E g \in Group : GroupDelete(g)
    \/ \E g \in Group, u \in Uid, byUid \in BOOLEAN, op \in {"add", "remove"} :
          (byUid /\ u \in online => ByUid) /\ ClientSetGroup(g, u, byUid, op)

\* The server takes the rules as they are sent, also for groups that are not there.
ChanRequest ==
    \/ \E kind \in {"temp", "kept"}, r \in Rules :
          \/ \E p \in Chan \cup {Root} : ChanCreate(kind, p, r)
          \/ \E ch \in Chan : ChanEdit(ch, kind, r)
    \/ \E id \in Chan, p \in Chan \cup {Root} : ChanMove(id, p)
    \/ \E ch \in Chan : ChanEditRefused(ch)
    \/ \E id \in Chan, linked \in BOOLEAN : ChanDelete(id, linked)

QueryRequest ==
    /\ Console
    /\ \/ \E g \in Group : QuerySetPosition(g)
       \/ \E g \in Ruled, ch \in Chan :
             \/ \E s \in {Allow, Deny, Inherit} : QuerySetPerm(ch, g, s)
             \/ \E r \in {"none", "met", "low"} : QuerySetReq(ch, g, r)

Next ==
    \/ \E u \in Uid : Leave(u) \/ Privkey(u) \/ \E admin \in BOOLEAN : Hello(u, admin)
    \/ RoleRequest
    \/ ChanRequest
    \/ QueryRequest
    \/ \E gone \in SUBSET Chan, linked \in BOOLEAN : Cleanup(gone, linked)
    \/ Restart

Spec == Init /\ [][Next]_vars

-----------------------------------------------------------------------------
(* Properties *)

InSync(u) == known[u] = View(u)

\* What a client shows is a tree: no channel is shown without the channel it is
\* in, whatever was hidden, moved, deleted or cleaned up, and whoever was not
\* told of it.
TreeIsWhole ==
    \A u \in online, ch \in Tree!Exists :
        known[u][ch] # "hidden" /\ parent[ch] \in Tree!Exists => known[u][parent[ch]] # "hidden"

Listings(S) == {gids \in [1..Cardinality(S) -> S] : \A g \in S : \E i \in DOMAIN gids : gids[i] = g}

\* The rule that several groups of a person come to in a channel does not depend
\* on the order in which the groups are kept.
OrderFree ==
    \A u \in Uid, ch \in Tree!Exists : \A gids \in Listings(Roles!groupIdsForUid(u)) :
        PermStateInOrder(ch, gids) = getChannelPermState(u, ch)

\* A new group is nobody's and changes what nobody may see, though its id may be
\* that of a group deleted before a restart, and though channels may have rules
\* for it: those of that group, or any that a request has sent ahead.
NewGroupsChangeNoView ==
    [][\A g \in groups' \ groups, u \in Uid :
           g \notin Roles!groupIdsForUid(u)' /\ View(u)' = View(u)]_vars

\* A client that shows what it may see goes wrong by these steps only: a group
\* is deleted that it held beside a higher one, its roles are changed by uid, a
\* position is changed on the console, a channel goes and leaves sub-channels,
\* or an edit is refused after its name was taken.
TreeStaleOnlyBy ==
    [][\A u \in online \cap online' : InSync(u) /\ ~InSync(u)' =>
          \/ \E g \in groups \ groups' : g \in Roles!groupIdsForUid(u) /\ groupId[u] # g
          \/ ByUid /\ assignByUid'[u] # assignByUid[u]
          \/ Console /\ req' # req /\ UNCHANGED known
          \/ \E ch \in Tree!Exists : type'[ch] = "none" /\ \E d \in Tree!Exists : parent[d] = ch
          \/ \E ch \in Chan : known'[u][ch] = "old"]_vars

=============================================================================
