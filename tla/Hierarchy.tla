----------------------------- MODULE Hierarchy -----------------------------
(***************************************************************************)
(* Groups, who holds them, and the authority that sessions derive from     *)
(* them and keep in a cache of their own.                                  *)
(*                                                                         *)
(* A person has at most one session (Sessions), so a session is named by   *)
(* its uid.  Of the permissions only the three that the rules of this part *)
(* speak of are kept.  Names and how a group is displayed are left out; a  *)
(* request that is refused for them changes nothing.                       *)
(***************************************************************************)
EXTENDS Integers, FiniteSets

CONSTANTS
    Uid,          \* identities
    Key,          \* privilege keys of the configuration
    KeyReuse,     \* m_privKeyReuse
    MaxGroup,     \* bound on group ids; custom ids start at 100 in the code, at 4 here
    Position,     \* positions that requests ask for
    MaxPosition,  \* the highest of them
    PermSets,     \* sets of permissions that requests ask for
    MaxMoves,     \* bound on the length of the list of a reorder
    ByUid         \* may a request name by its uid a person who is online?

ASSUME HierarchyAssumption ==
    /\ MaxGroup \in Nat /\ MaxGroup >= 3
    /\ PermSets \subseteq SUBSET {"*", "groupEdit", "pluginDataGlobal"}
    /\ MaxPosition \in Int /\ MaxMoves \in Nat
    /\ Position \subseteq Int /\ {0, 10, 100} \subseteq Position
    /\ \A p \in Position : p <= MaxPosition
    /\ KeyReuse \in BOOLEAN /\ ByUid \in BOOLEAN

Group == 1..MaxGroup
Guest == 1
Normal == 2
Admin == 3
BuiltIn == {Guest, Normal, Admin}
Right == {"*", "groupEdit", "pluginDataGlobal"}

VARIABLES
    groups,             \* the keys of m_groups
    position,           \* GroupDef::position
    perms,              \* GroupDef::perms
    nextGroup,          \* m_nextGroupId
    assignByUid,        \* m_assignByUid; {} when there is no entry
    privilegedUids,     \* m_privilegedUids
    usedKeys,           \* m_usedKeys
    online,             \* who is in m_clients
    adminAuthenticated, \* sessions that gave the administrator's password
    groupId,            \* ClientSession::m_groupId; Guest when there is no session
    groupPosition       \* ClientSession::m_groupPosition

groupVars == <<groups, position, perms, nextGroup>>
grantVars == <<privilegedUids, usedKeys>>
sessionVars == <<online, adminAuthenticated>>
cacheVars == <<groupId, groupPosition>>
vars == <<groupVars, assignByUid, grantVars, sessionVars, cacheVars>>

TypeOK ==
    /\ groups \in SUBSET Group /\ BuiltIn \subseteq groups
    /\ position \in [Group -> Position]
    /\ perms \in [Group -> SUBSET Right]
    /\ nextGroup \in 4..MaxGroup + 1
    /\ assignByUid \in [Uid -> SUBSET Group]
    /\ privilegedUids \in SUBSET Uid
    /\ usedKeys \in SUBSET Key
    /\ online \in SUBSET Uid
    /\ adminAuthenticated \in SUBSET online
    /\ groupId \in [Uid -> Group]
    /\ groupPosition \in [Uid -> Position]

Init ==
    /\ groups = BuiltIn
    /\ position = [g \in Group |-> CASE g = Normal -> 10 [] g = Admin -> 100 [] OTHER -> 0]
    /\ perms = [g \in Group |-> IF g = Admin THEN {"*", "groupEdit"} ELSE {}]
    /\ nextGroup = 4
    /\ assignByUid = [u \in Uid |-> {}]
    /\ privilegedUids = {}
    /\ usedKeys = {}
    /\ online = {}
    /\ adminAuthenticated = {}
    /\ groupId = [u \in Uid |-> Guest]
    /\ groupPosition = [u \in Uid |-> 0]

-----------------------------------------------------------------------------
(* Authority *)

Greatest(S) == CHOOSE p \in S : \A q \in S : q <= p

withBase(gids) == IF gids \cap {Guest, Normal} = {} THEN gids \cup {Normal} ELSE gids

groupIdsForUid(u) == withBase(assignByUid[u])

Held(u) == groupIdsForUid(u) \cap groups

positionForUid(u) == Greatest({0} \cup {position[g] : g \in Held(u)})

IsFull(g) == g = Admin \/ "*" \in perms[g]

uidIsSuperAdmin(u) ==
    \/ u \in privilegedUids
    \/ \E g \in Held(u) : IsFull(g)

isSuperAdmin(u) == u \in adminAuthenticated \/ groupId[u] = Admin \/ uidIsSuperAdmin(u)

hasPerm(u, right) == isSuperAdmin(u) \/ \E g \in Held(u) : right \in perms[g]

clientPosition(u) == Greatest({groupPosition[u], positionForUid(u)})

canManageClient(c, u) ==
    \/ isSuperAdmin(c)
    \/ (~isSuperAdmin(u) /\ clientPosition(c) > clientPosition(u))

\* Mutant of canManageUid: people of the same position may be managed.
canManageUidBeside(c, u) ==
    \/ isSuperAdmin(c)
    \/ (~uidIsSuperAdmin(u) /\ clientPosition(c) >= positionForUid(u))

canManageUid(c, u) ==
    \/ isSuperAdmin(c)
    \/ (~uidIsSuperAdmin(u) /\ clientPosition(c) > positionForUid(u))

canManageGroup(c, g) ==
    /\ g \in groups
    /\ ~isSuperAdmin(c) => ~IsFull(g) /\ clientPosition(c) > position[g]

\* Mutant of canSetGroupPosition: up to the position of whoever asks.
canSetGroupPositionBeside(c, p) == isSuperAdmin(c) \/ p <= clientPosition(c)

canSetGroupPosition(c, p) == isSuperAdmin(c) \/ p < clientPosition(c)

\* The group of a session is one of the highest among those it is given: which
\* of several equals comes first is up to the sorting routine.
Primary(gids) ==
    LET valid == withBase(gids) \cap groups
    IN  {g \in valid : \A h \in valid : position[h] <= position[g]}

\* What the sessions of S cache is computed from the state that this step leads
\* to, as if they held the groups in extra too.
applyGroup(S, extra) ==
    \E top \in [S -> Group] :
        /\ \A u \in S : top[u] \in Primary(assignByUid[u] \cup extra)'
        /\ groupId' = [u \in Uid |-> IF u \in S THEN top[u] ELSE groupId[u]]
        /\ groupPosition' = [u \in Uid |-> IF u \in S THEN Greatest({0, position'[top[u]]})
                                           ELSE groupPosition[u]]

\* The sessions that a change to the groups in G concerns.
Touched(G) == {u \in online : groupId[u] \in G \/ groupIdsForUid(u) \cap G # {}}

-----------------------------------------------------------------------------
(* Sessions *)

\* A login replaces the earlier session of the identity.  The password of the
\* administrator gives full authority to the session, not to the identity.
Hello(u, admin) ==
    /\ online' = online \cup {u}
    /\ adminAuthenticated' = IF admin THEN adminAuthenticated \cup {u} ELSE adminAuthenticated \ {u}
    /\ UNCHANGED <<groupVars, assignByUid, grantVars>>
    /\ applyGroup({u}, IF admin THEN {Admin} ELSE {})

Leave(u) ==
    /\ u \in online
    /\ online' = online \ {u}
    /\ adminAuthenticated' = adminAuthenticated \ {u}
    /\ groupId' = [groupId EXCEPT ![u] = Guest]
    /\ groupPosition' = [groupPosition EXCEPT ![u] = 0]
    /\ UNCHANGED <<groupVars, assignByUid, grantVars>>

Privkey(u, key) ==
    /\ u \in online
    /\ KeyReuse \/ key \notin usedKeys
    /\ usedKeys' = usedKeys \cup {key}
    /\ privilegedUids' = privilegedUids \cup {u}
    /\ UNCHANGED <<groupVars, assignByUid, sessionVars, cacheVars>>

-----------------------------------------------------------------------------
(* Groups *)

Administrators == {u \in Uid : isSuperAdmin(u)}
Editors == {c \in online : hasPerm(c, "groupEdit")}
Below(c) == {g \in groups : canManageGroup(c, g)}
Free(c) == {p \in Position : canSetGroupPosition(c, p)}

\* A group refused for its position has used up an id.
GroupCreate(c, ps, p) ==
    /\ c \in Editors
    /\ ps \cap {"*", "pluginDataGlobal"} # {} => c \in Administrators
    /\ nextGroup \in Group
    /\ nextGroup' = nextGroup + 1
    /\ IF p \in Free(c)
       THEN /\ groups' = groups \cup {nextGroup}
            /\ position' = [position EXCEPT ![nextGroup] = p]
            /\ perms' = [perms EXCEPT ![nextGroup] = ps]
       ELSE UNCHANGED <<groups, position, perms>>
    /\ UNCHANGED <<assignByUid, grantVars, sessionVars>>
    /\ applyGroup({u \in Touched({nextGroup}) : nextGroup \in groups'}, {})

\* Mutant of GroupEdit: anybody who may edit a group may put full rights in it.
GroupEditAny(c, g, ps, p) ==
    /\ c \in Editors
    /\ g \in Below(c)
    /\ p \in Free(c)
    /\ position' = [position EXCEPT ![g] = p]
    /\ perms' = [perms EXCEPT ![g] = ps]
    /\ UNCHANGED <<groups, nextGroup, assignByUid, grantVars, sessionVars>>
    /\ applyGroup(Touched({g}), {})

GroupEdit(c, g, ps, p) ==
    /\ c \in Editors
    /\ g \in Below(c)
    /\ "*" \in ps => c \in Administrators
    /\ "pluginDataGlobal" \in ps \ perms[g] => c \in Administrators
    /\ "*" \in perms[g] => "*" \in ps
    /\ p \in Free(c)
    /\ position' = [position EXCEPT ![g] = p]
    /\ perms' = [perms EXCEPT ![g] = ps]
    /\ UNCHANGED <<groups, nextGroup, assignByUid, grantVars, sessionVars>>
    /\ applyGroup(Touched({g}), {})

\* All of the list is checked before any of it is done.
GroupReorder(c, moved) ==
    /\ c \in Editors
    /\ DOMAIN moved # {}
    /\ DOMAIN moved \subseteq Below(c)
    /\ \A g \in DOMAIN moved : moved[g] \in Free(c)
    /\ position' = [g \in Group |-> IF g \in DOMAIN moved THEN moved[g] ELSE position[g]]
    /\ UNCHANGED <<groups, perms, nextGroup, assignByUid, grantVars, sessionVars>>
    /\ applyGroup(Touched(DOMAIN moved), {})

orNormal(gids) == IF gids = {} THEN {Normal} ELSE gids

Without(g) == [u \in Uid |-> IF assignByUid[u] = {} THEN {} ELSE orNormal(assignByUid[u] \ {g})]

\* Mutants of GroupDelete: built-in groups too; the sessions are looked at for
\* those who hold the group, which is nobody; nobody loses the group.
GroupDeleteAny(c, g) ==
    /\ c \in Editors
    /\ g \in Below(c)
    /\ groups' = groups \ {g}
    /\ assignByUid' = Without(g)
    /\ UNCHANGED <<position, perms, nextGroup, grantVars, sessionVars, cacheVars>>
GroupDeleteQuietly(c, g) ==
    /\ g \notin BuiltIn
    /\ GroupDeleteAny(c, g)
GroupDeleteKeeps(c, g) ==
    /\ c \in Editors
    /\ g \in Below(c) \ BuiltIn
    /\ groups' = groups \ {g}
    /\ UNCHANGED <<position, perms, nextGroup, assignByUid, grantVars, sessionVars>>
    /\ applyGroup({u \in online : groupId[u] = g}, {})

\* By the time sessions are looked at nobody holds the group any more: only
\* those whose cached group it was are calculated again.
GroupDelete(c, g) ==
    /\ c \in Editors
    /\ g \in Below(c) \ BuiltIn
    /\ groups' = groups \ {g}
    /\ assignByUid' = Without(g)
    /\ UNCHANGED <<position, perms, nextGroup, grantVars, sessionVars>>
    /\ applyGroup({u \in online : groupId[u] = g}, {})

\* The session of a person named by uid is not calculated again.
ClientSetGroup(c, g, u, byUid, op) ==
    /\ c \in Editors
    /\ g \in Below(c)
    /\ u \in IF byUid THEN {v \in Uid : canManageUid(c, v)}
             ELSE {v \in online : canManageClient(c, v)}
    /\ assignByUid' = [assignByUid EXCEPT
                         ![u] = orNormal(IF op = "add" THEN @ \cup {g} ELSE @ \ {g})]
    /\ UNCHANGED <<groupVars, grantVars, sessionVars>>
    /\ applyGroup(IF byUid THEN {} ELSE {u}, {})

\* servergroupsetposition, from an administrator of the machine.
QuerySetPosition(g, p) ==
    /\ g \in groups
    /\ position' = [position EXCEPT ![g] = p]
    /\ groupPosition' = [u \in Uid |-> IF u \in online /\ groupId[u] = g THEN p
                                       ELSE groupPosition[u]]
    /\ UNCHANGED <<groups, perms, nextGroup, assignByUid, grantVars, sessionVars, groupId>>

Request(c) ==
    \/ \E ps \in PermSets, p \in Position :
          GroupCreate(c, ps, p) \/ \E g \in Group : GroupEdit(c, g, ps, p)
    \/ \E G \in SUBSET groups :
          /\ Cardinality(G) <= MaxMoves
          /\ \E moved \in [G -> Position] : GroupReorder(c, moved)
    \/ \E g \in Group : GroupDelete(c, g)
    \/ \E g \in Group, u \in Uid, byUid \in BOOLEAN, op \in {"add", "remove"} :
          (byUid /\ u \in online => ByUid) /\ ClientSetGroup(c, g, u, byUid, op)
    \/ \E key \in Key : Privkey(c, key)

Query == \E g \in Group, p \in Position : QuerySetPosition(g, p)

Next ==
    \/ \E u \in Uid : Leave(u) \/ \E admin \in BOOLEAN : Hello(u, admin)
    \/ \E c \in online : Request(c)
    \/ Query

Spec == Init /\ [][Next]_vars
-----------------------------------------------------------------------------
(* Properties *)

\* The authority that a session is judged by is the authority that the groups
\* of its identity give at this moment, in spite of the copies it keeps.
AuthorityCurrent ==
    \A u \in online \ adminAuthenticated :
        /\ clientPosition(u) = positionForUid(u)
        /\ isSuperAdmin(u) = uidIsSuperAdmin(u)

\* A group that was deleted is gone from every list and from every session.
DeletedIsGone == /\ \A u \in Uid : assignByUid[u] \subseteq groups
                 /\ \A u \in online : groupId[u] \in groups

AdminOnline == \E c \in online : isSuperAdmin(c)

\* PROTOCOL.md: full rights and pluginDataGlobal come from full administrators,
\* or from a privilege key.  (Who has the base group only for not being a guest
\* any more gets what the administrators gave to that group.)
RightsFromAdmins ==
    [][~AdminOnline =>
         /\ \A g \in Group : perms[g]' \cap {"*", "pluginDataGlobal"} \subseteq perms[g]
         /\ \A u \in Uid : uidIsSuperAdmin(u)' =>
                 uidIsSuperAdmin(u) \/ u \in privilegedUids' \/ IsFull(Normal)]_vars

EditorAbove(p) == \E c \in online : hasPerm(c, "groupEdit") /\ positionForUid(c) > p

\* PROTOCOL.md: without a full administrator (or ServerQuery) nobody's position
\* rises to that of the highest editor or above; no sequence of edits, new
\* orders and assignments lifts the top.  Whoever stops being a guest gets the
\* position of the base group.
RisesBelowEditors ==
    [][\A u \in Uid : positionForUid(u)' > positionForUid(u) =>
         AdminOnline \/ Query \/ EditorAbove(positionForUid(u)')
                     \/ positionForUid(u)' <= position[Normal]]_vars

\* PROTOCOL.md: roles are given to a person, and taken from one, by somebody
\* strictly above, going by the roles that both have at that moment.
RolesFromAbove ==
    [][groups' = groups => \A u \in Uid : assignByUid'[u] # assignByUid[u] =>
         AdminOnline \/ (~uidIsSuperAdmin(u) /\ EditorAbove(positionForUid(u)))]_vars

=============================================================================
