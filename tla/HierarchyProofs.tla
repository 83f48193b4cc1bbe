-------------------------- MODULE HierarchyProofs --------------------------
(***************************************************************************)
(* Theorems about Hierarchy, for any people, groups and positions.         *)
(***************************************************************************)
EXTENDS Hierarchy, WellFoundedInduction, TLAPS

-----------------------------------------------------------------------------
(* The greatest of some positions *)

\* Positions have an upper bound, so that each set of them has a greatest.
LEMMA GreatestIs ==
    ASSUME NEW S \in SUBSET Position, S # {}
    PROVE  Greatest(S) \in S /\ \A q \in S : q <= Greatest(S)
<1>1. \E p \in S : \A q \in S : q <= p
  <2> DEFINE down == {n \in Nat : \E p \in S : n = MaxPosition - p}
  <2>1. \A p \in S : MaxPosition - p \in down
    BY HierarchyAssumption
  <2>2. PICK n \in down : \A m \in down : n <= m
    <3> DEFINE less == OpToRel(<, Nat)
    <3>1. \A i, j \in Nat : i < j => <<i, j>> \in less
      BY DEF OpToRel
    <3>2. IsWellFoundedOn(less, Nat) /\ down \subseteq Nat /\ down # {}
      BY <2>1, NatLessThanWellFounded
    <3> HIDE DEF less, down
    <3>3. PICK n \in down : \A m \in down : ~ (<<m, n>> \in less)
      BY <3>2, WFMin
    <3>4. ASSUME NEW m \in down PROVE ~ (m < n) /\ m \in Nat /\ n \in Nat
      BY <3>1, <3>2, <3>3
    <3>5. QED
      BY <3>4
  <2>3. PICK top \in S : n = MaxPosition - top
    BY <2>2
  <2> HIDE DEF down
  <2>4. \A p \in S : p <= top
    BY <2>1, <2>2, <2>3, HierarchyAssumption
  <2>5. QED
    BY <2>4
<1>2. QED
  BY <1>1 DEF Greatest

\* A person's position is that of one of the person's groups, or 0.
LEMMA PositionIs ==
    ASSUME NEW u \in Uid, position \in [Group -> Position], groups \in SUBSET Group
    PROVE  /\ positionForUid(u) \in {0} \cup {position[g] : g \in Held(u)}
           /\ positionForUid(u) \in Position
           /\ positionForUid(u) >= 0
           /\ \A g \in Held(u) : position[g] <= positionForUid(u)
<1> DEFINE S == {0} \cup {position[g] : g \in Held(u)}
<1>1. S \in SUBSET Position /\ S # {}
  BY HierarchyAssumption DEF Held
<1>2. Greatest(S) \in S /\ \A q \in S : q <= Greatest(S)
  BY <1>1, GreatestIs
<1>3. QED
  BY <1>1, <1>2, HierarchyAssumption DEF positionForUid

-----------------------------------------------------------------------------
(* Type correctness *)

\* What applyGroup leaves in the sessions.
LEMMA Applied ==
    ASSUME NEW S \in SUBSET Uid, NEW extra \in SUBSET Group, applyGroup(S, extra),
           TypeOK, position' \in [Group -> Position]
    PROVE  /\ groupId' \in [Uid -> Group]
           /\ groupPosition' \in [Uid -> Position]
           /\ \A u \in S : /\ groupId'[u] \in Primary(assignByUid[u] \cup extra)'
                           /\ \/ groupPosition'[u] = 0
                              \/ groupPosition'[u] = position'[groupId'[u]]
           /\ \A u \in Uid \ S : groupId'[u] = groupId[u] /\ groupPosition'[u] = groupPosition[u]
<1>1. PICK top \in [S -> Group] :
        /\ \A u \in S : top[u] \in Primary(assignByUid[u] \cup extra)'
        /\ groupId' = [u \in Uid |-> IF u \in S THEN top[u] ELSE groupId[u]]
        /\ groupPosition' = [u \in Uid |-> IF u \in S THEN Greatest({0, position'[top[u]]})
                                           ELSE groupPosition[u]]
  BY DEF applyGroup
<1>2. ASSUME NEW u \in S PROVE Greatest({0, position'[top[u]]}) \in {0, position'[top[u]]}
  <2>1. {0, position'[top[u]]} \in SUBSET Position
    BY HierarchyAssumption
  <2>2. QED
    BY <2>1, GreatestIs
<1>3. groupId' \in [Uid -> Group]
  BY <1>1 DEF TypeOK
<1>4. groupPosition' \in [Uid -> Position]
  BY <1>1, <1>2, HierarchyAssumption DEF TypeOK
<1>5. QED
  BY <1>1, <1>2, <1>3, <1>4

LEMMA TypeInit == Init => TypeOK
  BY HierarchyAssumption DEF Init, TypeOK, Group, Guest, Normal, Admin, BuiltIn, Right

\* The groups may change in any of these ways, the sessions follow.
LEMMA TypeApplied ==
    ASSUME TypeOK, NEW S \in SUBSET Uid, NEW extra \in SUBSET Group, applyGroup(S, extra),
           groups' \in SUBSET Group, BuiltIn \subseteq groups',
           position' \in [Group -> Position], perms' \in [Group -> SUBSET Right],
           nextGroup' \in 4..MaxGroup + 1, assignByUid' \in [Uid -> SUBSET Group],
           UNCHANGED grantVars,
           online' \in SUBSET Uid, adminAuthenticated' \in SUBSET online'
    PROVE  TypeOK'
  BY Applied DEF TypeOK, grantVars

LEMMA TouchedAreOnline ==
    ASSUME TypeOK, NEW G
    PROVE  Touched(G) \in SUBSET Uid
  BY DEF Touched, TypeOK

THEOREM TypeStep == TypeOK /\ [Next]_vars => TypeOK'
<1> SUFFICES ASSUME TypeOK, [Next]_vars PROVE TypeOK'
  OBVIOUS
<1> USE HierarchyAssumption
<1>1. ASSUME NEW u \in Uid, NEW admin \in BOOLEAN, Hello(u, admin) PROVE TypeOK'
  <2>1. {u} \in SUBSET Uid /\ (IF admin THEN {Admin} ELSE {}) \in SUBSET Group
    BY DEF Group, Admin
  <2>2. QED
    BY <1>1, <2>1, TypeApplied DEF Hello, TypeOK, groupVars
<1>2. ASSUME NEW u \in Uid, Leave(u) PROVE TypeOK'
  BY <1>2 DEF Leave, TypeOK, groupVars, grantVars, Group, Guest
<1>3. ASSUME NEW u \in online, NEW key \in Key, Privkey(u, key) PROVE TypeOK'
  BY <1>3 DEF Privkey, TypeOK, groupVars, sessionVars, cacheVars
<1>4. ASSUME NEW c, NEW ps \in PermSets, NEW p \in Position, GroupCreate(c, ps, p) PROVE TypeOK'
  <2> DEFINE S == {u \in Touched({nextGroup}) : nextGroup \in groups'}
  <2>1. S \in SUBSET Uid /\ {} \in SUBSET Group
    BY TouchedAreOnline
  <2>2. nextGroup \in Group /\ nextGroup' \in 4..MaxGroup + 1
    BY <1>4 DEF GroupCreate, TypeOK, Group
  <2>3. /\ groups' \in SUBSET Group /\ BuiltIn \subseteq groups'
        /\ position' \in [Group -> Position] /\ perms' \in [Group -> SUBSET Right]
    <3>1. CASE p \in Free(c)
      BY <1>4, <2>2, <3>1 DEF GroupCreate, TypeOK, Right
    <3>2. CASE p \notin Free(c)
      BY <1>4, <3>2 DEF GroupCreate, TypeOK
    <3>3. QED
      BY <3>1, <3>2
  <2>4. QED
    BY <1>4, <2>1, <2>2, <2>3, TypeApplied DEF GroupCreate, TypeOK, sessionVars
<1>5. ASSUME NEW c, NEW g \in Group, NEW ps \in PermSets, NEW p \in Position, GroupEdit(c, g, ps, p)
      PROVE  TypeOK'
  <2>1. Touched({g}) \in SUBSET Uid /\ {} \in SUBSET Group
    BY TouchedAreOnline
  <2>2. position' \in [Group -> Position] /\ perms' \in [Group -> SUBSET Right]
    BY <1>5 DEF GroupEdit, TypeOK, Right
  <2>3. QED
    BY <1>5, <2>1, <2>2, TypeApplied DEF GroupEdit, TypeOK, sessionVars
<1>6. ASSUME NEW c, NEW G \in SUBSET groups, NEW moved \in [G -> Position], GroupReorder(c, moved)
      PROVE  TypeOK'
  <2>1. Touched(DOMAIN moved) \in SUBSET Uid /\ {} \in SUBSET Group
    BY TouchedAreOnline
  <2>2. position' \in [Group -> Position]
    BY <1>6 DEF GroupReorder, TypeOK
  <2>3. QED
    BY <1>6, <2>1, <2>2, TypeApplied DEF GroupReorder, TypeOK, sessionVars
<1>7. ASSUME NEW c, NEW g \in Group, GroupDelete(c, g) PROVE TypeOK'
  <2> DEFINE S == {u \in online : groupId[u] = g}
  <2>1. S \in SUBSET Uid /\ {} \in SUBSET Group
    BY DEF TypeOK
  <2>2. /\ groups' \in SUBSET Group /\ BuiltIn \subseteq groups'
        /\ assignByUid' \in [Uid -> SUBSET Group]
    BY <1>7 DEF GroupDelete, Without, orNormal, TypeOK, Group, Normal
  <2>3. QED
    BY <1>7, <2>1, <2>2, TypeApplied DEF GroupDelete, TypeOK, sessionVars
<1>8. ASSUME NEW c, NEW g \in Group, NEW u \in Uid, NEW byUid \in BOOLEAN,
             NEW op \in {"add", "remove"}, ClientSetGroup(c, g, u, byUid, op)
      PROVE  TypeOK'
  <2>1. (IF byUid THEN {} ELSE {u}) \in SUBSET Uid /\ {} \in SUBSET Group
    OBVIOUS
  <2>2. assignByUid' \in [Uid -> SUBSET Group]
    BY <1>8 DEF ClientSetGroup, orNormal, TypeOK, Group, Normal
  <2>3. QED
    BY <1>8, <2>1, <2>2, TypeApplied DEF ClientSetGroup, TypeOK, groupVars, sessionVars
<1>9. ASSUME NEW g \in Group, NEW p \in Position, QuerySetPosition(g, p) PROVE TypeOK'
  BY <1>9 DEF QuerySetPosition, TypeOK, grantVars, sessionVars
<1>10. CASE UNCHANGED vars
  BY <1>10 DEF TypeOK, vars, groupVars, grantVars, sessionVars, cacheVars
<1>11. ASSUME NEW c \in online, Request(c) PROVE TypeOK'
  BY <1>3, <1>4, <1>5, <1>6, <1>7, <1>8, <1>11 DEF Request
<1>12. QED
  BY <1>1, <1>2, <1>9, <1>10, <1>11 DEF Next, Query

\* Every variable keeps its type: positions are numbers that were asked for,
\* the built-in groups are never deleted, only sessions that exist are
\* authenticated.
THEOREM HierarchyTypes == Spec => []TypeOK
<1>1. Init => TypeOK
  BY TypeInit
<1>2. QED
  BY <1>1, TypeStep, PTL DEF Spec

-----------------------------------------------------------------------------
(* Deleted groups *)

LEMMA PrimaryIsHeld ==
    ASSUME NEW u, NEW g, g \in Primary(assignByUid[u] \cup {})
    PROVE  g \in Held(u)
  BY DEF Primary, Held, groupIdsForUid

\* A step that keeps lists within the groups, and calculates the sessions anew
\* whose group is gone, leaves nothing of a deleted group.
LEMMA GoneApplied ==
    ASSUME TypeOK, DeletedIsGone, NEW S \in SUBSET Uid, NEW extra \in SUBSET Group,
           applyGroup(S, extra), position' \in [Group -> Position],
           \A u \in Uid : assignByUid'[u] \subseteq groups',
           \A u \in online' \ S : u \in online /\ groupId[u] \in groups'
    PROVE  DeletedIsGone'
<1>1. /\ \A u \in S : groupId'[u] \in Primary(assignByUid[u] \cup extra)'
      /\ \A u \in Uid \ S : groupId'[u] = groupId[u]
  BY Applied
<1>2. \A u \in S : groupId'[u] \in groups'
  BY <1>1 DEF Primary
<1>3. \A u \in online' \ S : groupId'[u] \in groups'
  BY <1>1 DEF TypeOK
<1>4. QED
  BY <1>2, <1>3 DEF DeletedIsGone

LEMMA GoneStep == TypeOK /\ DeletedIsGone /\ [Next]_vars => DeletedIsGone'
<1> SUFFICES ASSUME TypeOK, DeletedIsGone, [Next]_vars PROVE DeletedIsGone'
  OBVIOUS
<1>0. TypeOK' /\ position' \in [Group -> Position]
  BY TypeStep DEF TypeOK
<1>1. ASSUME NEW u \in Uid, NEW admin \in BOOLEAN, Hello(u, admin) PROVE DeletedIsGone'
  <2>1. {u} \in SUBSET Uid /\ (IF admin THEN {Admin} ELSE {}) \in SUBSET Group
    BY HierarchyAssumption DEF Group, Admin
  <2>2. QED
    BY <1>0, <1>1, <2>1, GoneApplied DEF Hello, DeletedIsGone, groupVars
<1>2. ASSUME NEW u \in Uid, Leave(u) PROVE DeletedIsGone'
  BY <1>2 DEF Leave, DeletedIsGone, TypeOK, groupVars
<1>3. ASSUME NEW u \in online, NEW key \in Key, Privkey(u, key) PROVE DeletedIsGone'
  BY <1>3 DEF Privkey, DeletedIsGone, groupVars, sessionVars, cacheVars
<1>4. ASSUME NEW c, NEW ps \in PermSets, NEW p \in Position, GroupCreate(c, ps, p)
      PROVE  DeletedIsGone'
  <2>1. {u \in Touched({nextGroup}) : nextGroup \in groups'} \in SUBSET Uid /\ {} \in SUBSET Group
    BY TouchedAreOnline
  <2>2. groups \subseteq groups' /\ assignByUid' = assignByUid /\ online' = online
    BY <1>4 DEF GroupCreate, sessionVars
  <2>3. QED
    BY <1>0, <1>4, <2>1, <2>2, GoneApplied DEF GroupCreate, DeletedIsGone, TypeOK
<1>5. ASSUME NEW c, NEW g \in Group, NEW ps \in PermSets, NEW p \in Position, GroupEdit(c, g, ps, p)
      PROVE  DeletedIsGone'
  <2>1. Touched({g}) \in SUBSET Uid /\ {} \in SUBSET Group
    BY TouchedAreOnline
  <2>2. QED
    BY <1>0, <1>5, <2>1, GoneApplied DEF GroupEdit, DeletedIsGone, TypeOK, sessionVars
<1>6. ASSUME NEW c, NEW G \in SUBSET groups, NEW moved \in [G -> Position], GroupReorder(c, moved)
      PROVE  DeletedIsGone'
  <2>1. Touched(DOMAIN moved) \in SUBSET Uid /\ {} \in SUBSET Group
    BY TouchedAreOnline
  <2>2. QED
    BY <1>0, <1>6, <2>1, GoneApplied DEF GroupReorder, DeletedIsGone, TypeOK, sessionVars
<1>7. ASSUME NEW c, NEW g \in Group, GroupDelete(c, g) PROVE DeletedIsGone'
  <2>1. {u \in online : groupId[u] = g} \in SUBSET Uid /\ {} \in SUBSET Group
    BY DEF TypeOK
  <2>2. \A u \in Uid : assignByUid'[u] \subseteq groups'
    BY <1>7 DEF GroupDelete, Without, orNormal, DeletedIsGone, TypeOK, BuiltIn
  <2>3. QED
    BY <1>0, <1>7, <2>1, <2>2, GoneApplied DEF GroupDelete, DeletedIsGone, sessionVars
<1>8. ASSUME NEW c, NEW g \in Group, NEW u \in Uid, NEW byUid \in BOOLEAN,
             NEW op \in {"add", "remove"}, ClientSetGroup(c, g, u, byUid, op)
      PROVE  DeletedIsGone'
  <2>1. (IF byUid THEN {} ELSE {u}) \in SUBSET Uid /\ {} \in SUBSET Group
    OBVIOUS
  <2>2. g \in groups /\ Normal \in groups
    BY <1>8 DEF ClientSetGroup, Below, TypeOK, BuiltIn
  <2>3. \A v \in Uid : assignByUid'[v] \subseteq groups
    BY <1>8, <2>2 DEF ClientSetGroup, orNormal, DeletedIsGone, TypeOK
  <2>4. QED
    BY <1>0, <1>8, <2>1, <2>3, GoneApplied DEF ClientSetGroup, DeletedIsGone, TypeOK, groupVars, sessionVars
<1>9. ASSUME NEW g \in Group, NEW p \in Position, QuerySetPosition(g, p) PROVE DeletedIsGone'
  BY <1>9 DEF QuerySetPosition, DeletedIsGone, sessionVars
<1>10. CASE UNCHANGED vars
  BY <1>10 DEF DeletedIsGone, vars, groupVars, sessionVars, cacheVars
<1>11. ASSUME NEW c \in online, Request(c) PROVE DeletedIsGone'
  BY <1>3, <1>4, <1>5, <1>6, <1>7, <1>8, <1>11 DEF Request
<1>12. QED
  BY <1>1, <1>2, <1>9, <1>10, <1>11 DEF Next, Query

\* handleGroupDelete leaves no assignment and no session with the group, although
\* it looks for sessions by their cached group only.
THEOREM DeletedGroupsAreGone == Spec => []DeletedIsGone
<1>1. Init => TypeOK /\ DeletedIsGone
  BY TypeInit DEF Init, DeletedIsGone
<1>2. (TypeOK /\ DeletedIsGone) /\ [Next]_vars => (TypeOK /\ DeletedIsGone)'
  BY TypeStep, GoneStep
<1>3. QED
  BY <1>1, <1>2, PTL DEF Spec

-----------------------------------------------------------------------------
(* Cached authority *)

\* What a session caches: one of the groups of its identity, and no more than
\* its position.
Cached(u) ==
    /\ groupId[u] \in Held(u)
    /\ groupPosition[u] \in {0, position[groupId[u]]}

CachedInv == \A u \in online \ adminAuthenticated : Cached(u)

\* Sessions that a step does not calculate anew must find their group where it
\* was, among those of the identity.
LEMMA CachedApplied ==
    ASSUME TypeOK, CachedInv, NEW S \in SUBSET Uid, NEW extra \in SUBSET Group,
           applyGroup(S, extra), position' \in [Group -> Position],
           extra = {} \/ S \cap (online' \ adminAuthenticated') = {},
           \A u \in (online' \ adminAuthenticated') \ S :
               /\ u \in online \ adminAuthenticated
               /\ groupId[u] \in Held(u)'
               /\ position'[groupId[u]] = position[groupId[u]]
    PROVE  CachedInv'
<1> SUFFICES ASSUME NEW u \in online' \ adminAuthenticated'
             PROVE  /\ groupId'[u] \in Held(u)'
                    /\ groupPosition'[u] \in {0, position'[groupId'[u]]}
  BY DEF CachedInv, Cached
<1>1. CASE u \in S
  <2>1. groupId'[u] \in Primary(assignByUid[u] \cup {})'
    BY <1>1, Applied
  <2>2. groupId'[u] \in Held(u)'
    BY <2>1 DEF Primary, Held, groupIdsForUid
  <2>3. QED
    BY <1>1, <2>2, Applied
<1>2. CASE u \notin S
  <2>1. u \in Uid /\ Cached(u)
    BY <1>2 DEF TypeOK, CachedInv
  <2>2. groupId'[u] = groupId[u] /\ groupPosition'[u] = groupPosition[u]
    BY <1>2, <2>1, Applied
  <2>3. QED
    BY <1>2, <2>1, <2>2 DEF Cached
<1>3. QED
  BY <1>1, <1>2

\* The same when neither the lists nor the set of groups lose anything.
LEMMA HeldKept ==
    ASSUME NEW u, assignByUid'[u] = assignByUid[u], groups \subseteq groups'
    PROVE  Held(u) \subseteq Held(u)'
  BY DEF Held, groupIdsForUid

LEMMA CachedStep ==
    ASSUME ~ByUid
    PROVE  TypeOK /\ CachedInv /\ [Next]_vars => CachedInv'
<1> SUFFICES ASSUME TypeOK, CachedInv, [Next]_vars PROVE CachedInv'
  OBVIOUS
<1>0. TypeOK' /\ position \in [Group -> Position] /\ position' \in [Group -> Position]
  BY TypeStep DEF TypeOK
<1>a. \A u \in online \ adminAuthenticated :
         u \in Uid /\ groupId[u] \in Held(u) /\ groupId[u] \in Group
  BY DEF TypeOK, CachedInv, Cached, Held
<1>1. ASSUME NEW u \in Uid, NEW admin \in BOOLEAN, Hello(u, admin) PROVE CachedInv'
  <2> DEFINE extra == IF admin THEN {Admin} ELSE {}
  <2>1. {u} \in SUBSET Uid /\ extra \in SUBSET Group
    BY HierarchyAssumption DEF Group, Admin
  <2>2. extra = {} \/ {u} \cap (online' \ adminAuthenticated') = {}
    BY <1>1 DEF Hello
  <2>3. ASSUME NEW v \in (online' \ adminAuthenticated') \ {u}
        PROVE  /\ v \in online \ adminAuthenticated
               /\ groupId[v] \in Held(v)'
               /\ position'[groupId[v]] = position[groupId[v]]
    <3>1. v \in online \ adminAuthenticated
      BY <1>1, <2>3 DEF Hello
    <3>2. QED
      BY <1>1, <1>a, <3>1, HeldKept DEF Hello, groupVars
  <2>4. QED
    BY <1>0, <1>1, <2>1, <2>2, <2>3, CachedApplied DEF Hello
<1>2. ASSUME NEW u \in Uid, Leave(u) PROVE CachedInv'
  <2> SUFFICES ASSUME NEW v \in online' \ adminAuthenticated' PROVE Cached(v)'
    BY DEF CachedInv
  <2>1. v \in online \ adminAuthenticated /\ v # u
    BY <1>2 DEF Leave, TypeOK
  <2>2. groupId'[v] = groupId[v] /\ groupPosition'[v] = groupPosition[v]
    BY <1>2, <2>1 DEF Leave, TypeOK
  <2>3. groupId[v] \in Held(v)'
    BY <1>2, <1>a, <2>1, HeldKept DEF Leave, groupVars
  <2>4. QED
    BY <1>2, <2>1, <2>2, <2>3 DEF Leave, CachedInv, Cached, groupVars
<1>3. ASSUME NEW u \in online, NEW key \in Key, Privkey(u, key) PROVE CachedInv'
  BY <1>3 DEF Privkey, CachedInv, Cached, Held, groupIdsForUid, groupVars, sessionVars, cacheVars
<1>4. ASSUME NEW c, NEW ps \in PermSets, NEW p \in Position, GroupCreate(c, ps, p)
      PROVE  CachedInv'
  <2> DEFINE S == {u \in Touched({nextGroup}) : nextGroup \in groups'}
  <2>1. S \in SUBSET Uid /\ {} \in SUBSET Group
    BY TouchedAreOnline
  <2>2. groups \subseteq groups' /\ assignByUid' = assignByUid /\ UNCHANGED sessionVars
    BY <1>4 DEF GroupCreate
  <2>3. ASSUME NEW v \in (online' \ adminAuthenticated') \ S
        PROVE  /\ v \in online \ adminAuthenticated
               /\ groupId[v] \in Held(v)'
               /\ position'[groupId[v]] = position[groupId[v]]
    <3>1. v \in online \ adminAuthenticated
      BY <2>2, <2>3 DEF sessionVars
    <3>2. groupId[v] \in Held(v)'
      BY <1>a, <2>2, <3>1, HeldKept
    <3>3. position'[groupId[v]] = position[groupId[v]]
      <4>1. CASE p \in Free(c)
        <5>1. v \notin Touched({nextGroup})
          BY <1>4, <2>3, <4>1 DEF GroupCreate
        <5>2. groupId[v] # nextGroup
          BY <3>1, <5>1 DEF Touched
        <5>3. QED
          BY <1>0, <1>4, <1>a, <3>1, <4>1, <5>2 DEF GroupCreate
      <4>2. CASE p \notin Free(c)
        BY <1>4, <4>2 DEF GroupCreate
      <4>3. QED
        BY <4>1, <4>2
    <3>4. QED
      BY <3>1, <3>2, <3>3
  <2>4. QED
    BY <1>0, <1>4, <2>1, <2>3, CachedApplied DEF GroupCreate
<1>5. ASSUME NEW c, NEW g \in Group, NEW ps \in PermSets, NEW p \in Position, GroupEdit(c, g, ps, p)
      PROVE  CachedInv'
  <2>1. Touched({g}) \in SUBSET Uid /\ {} \in SUBSET Group
    BY TouchedAreOnline
  <2>2. ASSUME NEW v \in (online' \ adminAuthenticated') \ Touched({g})
        PROVE  /\ v \in online \ adminAuthenticated
               /\ groupId[v] \in Held(v)'
               /\ position'[groupId[v]] = position[groupId[v]]
    <3>1. v \in online \ adminAuthenticated
      BY <1>5, <2>2 DEF GroupEdit, sessionVars
    <3>2. groupId[v] # g
      BY <2>2, <3>1 DEF Touched
    <3>3. QED
      BY <1>0, <1>5, <1>a, <3>1, <3>2, HeldKept DEF GroupEdit
  <2>3. QED
    BY <1>0, <1>5, <2>1, <2>2, CachedApplied DEF GroupEdit
<1>6. ASSUME NEW c, NEW G \in SUBSET groups, NEW moved \in [G -> Position], GroupReorder(c, moved)
      PROVE  CachedInv'
  <2>1. Touched(DOMAIN moved) \in SUBSET Uid /\ {} \in SUBSET Group
    BY TouchedAreOnline
  <2>2. ASSUME NEW v \in (online' \ adminAuthenticated') \ Touched(DOMAIN moved)
        PROVE  /\ v \in online \ adminAuthenticated
               /\ groupId[v] \in Held(v)'
               /\ position'[groupId[v]] = position[groupId[v]]
    <3>1. v \in online \ adminAuthenticated
      BY <1>6, <2>2 DEF GroupReorder, sessionVars
    <3>2. groupId[v] \notin DOMAIN moved
      BY <2>2, <3>1 DEF Touched
    <3>3. QED
      BY <1>0, <1>6, <1>a, <3>1, <3>2, HeldKept DEF GroupReorder
  <2>3. QED
    BY <1>0, <1>6, <2>1, <2>2, CachedApplied DEF GroupReorder
<1>7. ASSUME NEW c, NEW g \in Group, GroupDelete(c, g) PROVE CachedInv'
  <2> DEFINE S == {u \in online : groupId[u] = g}
  <2>1. S \in SUBSET Uid /\ {} \in SUBSET Group
    BY DEF TypeOK
  <2>2. ASSUME NEW v \in (online' \ adminAuthenticated') \ S
        PROVE  /\ v \in online \ adminAuthenticated
               /\ groupId[v] \in Held(v)'
               /\ position'[groupId[v]] = position[groupId[v]]
    <3>1. v \in online \ adminAuthenticated /\ groupId[v] # g
      BY <1>7, <2>2 DEF GroupDelete, sessionVars
    <3>2. groupId[v] \in Held(v) /\ v \in Uid
      BY <1>a, <3>1
    <3>3. groups' = groups \ {g} /\ assignByUid'[v] = Without(g)[v] /\ g \notin {Guest, Normal}
      BY <1>7, <3>2 DEF GroupDelete, BuiltIn
    <3>4. groupId[v] \in Held(v)'
      BY <3>1, <3>2, <3>3 DEF Held, groupIdsForUid, withBase, Without, orNormal
    <3>5. QED
      BY <1>7, <3>1, <3>4 DEF GroupDelete
  <2>3. QED
    BY <1>0, <1>7, <2>1, <2>2, CachedApplied DEF GroupDelete
<1>8. ASSUME NEW c, NEW g \in Group, NEW u \in Uid, NEW byUid \in BOOLEAN,
             NEW op \in {"add", "remove"}, ClientSetGroup(c, g, u, byUid, op),
             byUid => u \notin online
      PROVE  CachedInv'
  <2> DEFINE S == IF byUid THEN {} ELSE {u}
  <2>1. S \in SUBSET Uid /\ {} \in SUBSET Group
    OBVIOUS
  <2>2. ASSUME NEW v \in (online' \ adminAuthenticated') \ S
        PROVE  /\ v \in online \ adminAuthenticated
               /\ groupId[v] \in Held(v)'
               /\ position'[groupId[v]] = position[groupId[v]]
    <3>1. v \in online \ adminAuthenticated /\ v # u
      BY <1>8, <2>2 DEF ClientSetGroup, sessionVars
    <3>2. assignByUid'[v] = assignByUid[v] /\ UNCHANGED groupVars
      BY <1>8, <1>a, <3>1 DEF ClientSetGroup, TypeOK
    <3>3. QED
      BY <1>a, <3>1, <3>2, HeldKept DEF groupVars
  <2>3. applyGroup(S, {})
    BY <1>8 DEF ClientSetGroup
  <2> HIDE DEF S
  <2>4. QED
    BY <1>0, <2>1, <2>2, <2>3, CachedApplied
<1>9. ASSUME NEW g \in Group, NEW p \in Position, QuerySetPosition(g, p) PROVE CachedInv'
  <2> SUFFICES ASSUME NEW v \in online' \ adminAuthenticated' PROVE Cached(v)'
    BY DEF CachedInv
  <2>1. v \in online \ adminAuthenticated /\ v \in online
    BY <1>9 DEF QuerySetPosition, sessionVars
  <2>2. groupId'[v] = groupId[v] /\ groupId[v] \in Held(v)'
    BY <1>9, <1>a, <2>1, HeldKept DEF QuerySetPosition
  <2>3. groupPosition'[v] = IF groupId[v] = g THEN p ELSE groupPosition[v]
    BY <1>9, <1>a, <2>1 DEF QuerySetPosition
  <2>4. position'[groupId[v]] = IF groupId[v] = g THEN p ELSE position[groupId[v]]
    BY <1>0, <1>9, <1>a, <2>1 DEF QuerySetPosition
  <2>5. QED
    BY <2>1, <2>2, <2>3, <2>4 DEF CachedInv, Cached
<1>10. CASE UNCHANGED vars
  BY <1>10 DEF CachedInv, Cached, Held, groupIdsForUid, vars, groupVars, sessionVars, cacheVars
<1>11. ASSUME NEW c \in online, Request(c) PROVE CachedInv'
  BY <1>3, <1>4, <1>5, <1>6, <1>7, <1>8, <1>11 DEF Request
<1>12. QED
  BY <1>1, <1>2, <1>9, <1>10, <1>11 DEF Next, Query

LEMMA CachedIsCurrent == TypeOK /\ CachedInv => AuthorityCurrent
<1> SUFFICES ASSUME TypeOK, CachedInv, NEW u \in online \ adminAuthenticated
             PROVE  clientPosition(u) = positionForUid(u) /\ isSuperAdmin(u) = uidIsSuperAdmin(u)
  BY DEF AuthorityCurrent
<1>1. u \in Uid /\ Cached(u) /\ groupPosition[u] \in Position
  BY DEF TypeOK, CachedInv
<1>2. /\ positionForUid(u) \in Position /\ positionForUid(u) >= 0
      /\ \A g \in Held(u) : position[g] <= positionForUid(u)
  BY <1>1, PositionIs DEF TypeOK
<1>3. groupPosition[u] <= positionForUid(u)
  BY <1>1, <1>2 DEF Cached
<1>4. clientPosition(u) = positionForUid(u)
  <2> DEFINE G == {groupPosition[u], positionForUid(u)}
  <2>1. G \in SUBSET Position /\ G # {}
    BY <1>1, <1>2
  <2>2. Greatest(G) \in G /\ \A q \in G : q <= Greatest(G)
    BY <2>1, GreatestIs
  <2>3. groupPosition[u] \in Int /\ positionForUid(u) \in Int
    BY <1>1, <1>2, HierarchyAssumption
  <2>4. Greatest(G) = positionForUid(u)
    <3>1. positionForUid(u) <= Greatest(G)
      BY <2>2
    <3>2. Greatest(G) = groupPosition[u] \/ Greatest(G) = positionForUid(u)
      BY <2>2
    <3>3. QED
      BY <1>3, <2>3, <3>1, <3>2
  <2>5. QED
    BY <2>4 DEF clientPosition
<1>5. groupId[u] = Admin => uidIsSuperAdmin(u)
  BY <1>1 DEF Cached, uidIsSuperAdmin, IsFull
<1>6. isSuperAdmin(u) = uidIsSuperAdmin(u)
  BY <1>5 DEF isSuperAdmin, uidIsSuperAdmin
<1>7. QED
  BY <1>4, <1>6

\* As long as nobody who is online is given a group, or loses one, by uid, the
\* copies that m_groupId and m_groupPosition keep never count for more than the
\* groups of the identity do, through any edits, orders, deletions and logins.
THEOREM AuthorityIsCurrent ==
    ASSUME ~ByUid
    PROVE  Spec => []AuthorityCurrent
<1>1. Init => TypeOK /\ CachedInv
  BY TypeInit DEF Init, CachedInv
<1>2. (TypeOK /\ CachedInv) /\ [Next]_vars => (TypeOK /\ CachedInv)'
  BY TypeStep, CachedStep
<1>3. QED
  BY <1>1, <1>2, CachedIsCurrent, PTL DEF Spec

-----------------------------------------------------------------------------
(* Who may give roles *)

\* Some editor's session counts for more than p, by whatever it caches.
SessionAbove(p) == \E c \in online : hasPerm(c, "groupEdit") /\ clientPosition(c) > p

\* While what sessions cache is current, that editor is above p.
LEMMA SessionIsCurrent ==
    ASSUME TypeOK, AuthorityCurrent, ~AdminOnline, NEW p, SessionAbove(p)
    PROVE  EditorAbove(p)
  BY DEF AdminOnline, AuthorityCurrent, isSuperAdmin, SessionAbove, EditorAbove

\* A session counts for no less than its identity.
LEMMA SessionPosition ==
    ASSUME TypeOK, NEW u \in Uid
    PROVE  /\ clientPosition(u) \in Position /\ positionForUid(u) \in Position
           /\ positionForUid(u) <= clientPosition(u)
<1> DEFINE G == {groupPosition[u], positionForUid(u)}
<1>1. groupPosition[u] \in Position /\ positionForUid(u) \in Position
  BY PositionIs DEF TypeOK
<1>2. G \in SUBSET Position /\ G # {}
  BY <1>1
<1>3. Greatest(G) \in G /\ \A q \in G : q <= Greatest(G)
  BY <1>2, GreatestIs
<1>4. QED
  BY <1>1, <1>2, <1>3 DEF clientPosition

GivenFromAbove ==
    groups' = groups => \A u \in Uid : assignByUid'[u] # assignByUid[u] =>
         AdminOnline \/ (~uidIsSuperAdmin(u) /\ SessionAbove(positionForUid(u)))

LEMMA GivenStep == TypeOK /\ [Next]_vars => GivenFromAbove
<1> SUFFICES ASSUME TypeOK, [Next]_vars, groups' = groups,
                    NEW u \in Uid, assignByUid'[u] # assignByUid[u], ~AdminOnline
             PROVE  ~uidIsSuperAdmin(u) /\ SessionAbove(positionForUid(u))
  BY DEF GivenFromAbove
<1>1. ASSUME NEW c, NEW g \in Group, NEW v \in Uid, NEW byUid \in BOOLEAN,
             NEW op \in {"add", "remove"}, ClientSetGroup(c, g, v, byUid, op)
      PROVE  ~uidIsSuperAdmin(u) /\ SessionAbove(positionForUid(u))
  <2>1. v = u
    BY <1>1 DEF ClientSetGroup, TypeOK
  <2>2. c \in online /\ c \in Uid /\ hasPerm(c, "groupEdit") /\ ~isSuperAdmin(c)
    BY <1>1 DEF ClientSetGroup, Editors, AdminOnline, TypeOK
  <2>3. ~uidIsSuperAdmin(u) /\ clientPosition(c) > positionForUid(u)
    <3>1. canManageClient(c, u) \/ canManageUid(c, u)
      BY <1>1, <2>1 DEF ClientSetGroup
    <3>2. CASE canManageClient(c, u)
      <4>1. ~isSuperAdmin(u) /\ clientPosition(c) > clientPosition(u)
        BY <2>2, <3>2 DEF canManageClient
      <4>2. /\ positionForUid(u) \in Int /\ clientPosition(u) \in Int /\ clientPosition(c) \in Int
            /\ positionForUid(u) <= clientPosition(u)
        BY <2>2, SessionPosition, HierarchyAssumption
      <4>3. QED
        BY <4>1, <4>2 DEF isSuperAdmin
    <3>3. CASE canManageUid(c, u)
      BY <2>2, <3>3 DEF canManageUid
    <3>4. QED
      BY <3>1, <3>2, <3>3
  <2>4. QED
    BY <2>2, <2>3 DEF SessionAbove
<1>2. ASSUME NEW c, NEW g \in Group, GroupDelete(c, g) PROVE FALSE
  BY <1>2 DEF GroupDelete, Below
<1>3. ASSUME NEW c \in online, Request(c)
      PROVE  ~uidIsSuperAdmin(u) /\ SessionAbove(positionForUid(u))
  BY <1>1, <1>2, <1>3 DEF Request, GroupCreate, GroupEdit, GroupReorder, Privkey
<1>4. QED
  BY <1>3 DEF Next, Query, Hello, Leave, QuerySetPosition, vars

\* Roles are given and taken by full administrators or by an editor whose session
\* counts for more than the present roles of whom they concern, also when people
\* online are named by uid and sessions keep roles that their identity has lost.
THEOREM RolesComeFromSessionsAbove == Spec => [][GivenFromAbove]_vars
<1>1. TypeOK /\ [Next]_vars => [GivenFromAbove]_vars
  BY GivenStep
<1>2. QED
  BY <1>1, HierarchyTypes, PTL DEF Spec

\* As long as nobody who is online is named by uid, they are given and taken from
\* strictly above, going by the present roles of both, in spite of the cached
\* ones that handleClientSetGroup looks at.
THEOREM RolesComeFromAbove ==
    ASSUME ~ByUid
    PROVE  Spec => RolesFromAbove
<1> DEFINE Above == groups' = groups => \A u \in Uid : assignByUid'[u] # assignByUid[u] =>
                       AdminOnline \/ (~uidIsSuperAdmin(u) /\ EditorAbove(positionForUid(u)))
<1>1. TypeOK /\ AuthorityCurrent /\ [Next]_vars => [Above]_vars
  BY GivenStep, SessionIsCurrent DEF GivenFromAbove
<1>2. QED
  BY <1>1, HierarchyTypes, AuthorityIsCurrent, PTL DEF Spec, RolesFromAbove

-----------------------------------------------------------------------------
(* Where full rights come from *)

Reserved == {"*", "pluginDataGlobal"}

RightsGiven ==
    ~AdminOnline =>
        /\ \A g \in Group : perms[g]' \cap Reserved \subseteq perms[g]
        /\ \A u \in Uid : uidIsSuperAdmin(u)' =>
                uidIsSuperAdmin(u) \/ u \in privilegedUids' \/ IsFull(Normal)

\* Whoever has full rights now had them, was given a key, or holds a group that
\* is full and was not held before.
LEMMA FullBefore ==
    ASSUME NEW u \in Uid, uidIsSuperAdmin(u)', ~uidIsSuperAdmin(u), u \notin privilegedUids'
    PROVE  \E g \in Held(u)' : IsFull(g)' /\ ~(g \in Held(u) /\ IsFull(g))
  BY DEF uidIsSuperAdmin

LEMMA RightsStep == TypeOK /\ [Next]_vars => RightsGiven
<1> SUFFICES ASSUME TypeOK, [Next]_vars, ~AdminOnline
             PROVE  /\ \A g \in Group : perms[g]' \cap Reserved \subseteq perms[g]
                    /\ \A u \in Uid : uidIsSuperAdmin(u)' =>
                            uidIsSuperAdmin(u) \/ u \in privilegedUids' \/ IsFull(Normal)
  BY DEF RightsGiven
<1> DEFINE Rights == \A g \in Group : perms[g]' \cap Reserved \subseteq perms[g]
<1> DEFINE NewlyHeld(u) == Held(u)' \ Held(u)
<1>a. ASSUME NEW c \in Editors PROVE c \notin Administrators
  BY DEF Editors, Administrators, AdminOnline
\* What each step may do: reserved rights stay where they are, and full groups
\* are held newly only if it is the base group.
<1> DEFINE Good == /\ Rights
                   /\ \A u \in Uid : \A g \in NewlyHeld(u) : g = Normal \/ ~IsFull(g)'
<1>1. ASSUME NEW c, NEW ps \in PermSets, NEW p \in Position, GroupCreate(c, ps, p) PROVE Good
  <2>1. c \notin Administrators
    BY <1>1, <1>a DEF GroupCreate
  <2>2. ps \cap Reserved = {}
    BY <1>1, <2>1 DEF GroupCreate, Reserved
  <2>3. nextGroup # Admin /\ nextGroup \in Group
    BY <1>1 DEF GroupCreate, TypeOK, Admin
  <2>4. CASE p \in Free(c)
    <3>1. groups' = groups \cup {nextGroup} /\ perms' = [perms EXCEPT ![nextGroup] = ps]
      BY <1>1, <2>4 DEF GroupCreate
    <3>2. perms \in [Group -> SUBSET Right]
      BY DEF TypeOK
    <3>3. perms'[nextGroup] = ps /\ \A g \in Group \ {nextGroup} : perms'[g] = perms[g]
      BY <2>3, <3>1, <3>2
    <3>6. Rights
      BY <2>2, <3>3
    <3>4. \A g : g = nextGroup => ~IsFull(g)'
      BY <2>2, <2>3, <3>3 DEF IsFull, Reserved
    <3>5. \A u \in Uid : NewlyHeld(u) \subseteq {nextGroup}
      BY <1>1, <3>1 DEF GroupCreate, Held, groupIdsForUid
    <3>7. QED
      BY <3>6, <3>4, <3>5
  <2>5. CASE p \notin Free(c)
    BY <1>1, <2>5 DEF GroupCreate, Held, groupIdsForUid
  <2>6. QED
    BY <2>4, <2>5
<1>2. ASSUME NEW c, NEW g \in Group, NEW ps \in PermSets, NEW p \in Position, GroupEdit(c, g, ps, p)
      PROVE  Good
  <2>1. c \notin Administrators
    BY <1>2, <1>a DEF GroupEdit
  <2>2. ps \cap Reserved \subseteq perms[g]
    BY <1>2, <2>1 DEF GroupEdit, Reserved
  <2>3. Rights
    BY <1>2, <2>2 DEF GroupEdit, TypeOK
  <2>4. \A u \in Uid : NewlyHeld(u) = {}
    BY <1>2 DEF GroupEdit, Held, groupIdsForUid
  <2>5. QED
    BY <2>3, <2>4
<1>3. ASSUME NEW c, NEW g \in Group, GroupDelete(c, g) PROVE Good
  <2>1. \A u \in Uid : NewlyHeld(u) \subseteq {Normal}
    BY <1>3 DEF GroupDelete, Held, groupIdsForUid, withBase, Without, orNormal
  <2>2. QED
    BY <1>3, <2>1 DEF GroupDelete
<1>4. ASSUME NEW c, NEW g \in Group, NEW v \in Uid, NEW byUid \in BOOLEAN,
             NEW op \in {"add", "remove"}, ClientSetGroup(c, g, v, byUid, op)
      PROVE  Good
  <2>1. c \in Editors /\ ~isSuperAdmin(c)
    BY <1>4, <1>a DEF ClientSetGroup, Editors, Administrators, TypeOK
  <2>2. ~IsFull(g)
    BY <1>4, <2>1 DEF ClientSetGroup, Below, canManageGroup
  <2>3. \A u \in Uid : NewlyHeld(u) \subseteq {g, Normal}
    BY <1>4 DEF ClientSetGroup, groupVars, Held, groupIdsForUid, withBase, orNormal, TypeOK
  <2>4. perms' = perms
    BY <1>4 DEF ClientSetGroup, groupVars
  <2>5. QED
    BY <2>2, <2>3, <2>4 DEF IsFull
<1>5. ASSUME UNCHANGED <<groups, perms, assignByUid>> PROVE Good
  BY <1>5 DEF Held, groupIdsForUid
<1>6. ASSUME NEW c \in online, Request(c) PROVE Good
  BY <1>1, <1>2, <1>3, <1>4, <1>5, <1>6 DEF Request, GroupReorder, Privkey, groupVars
<1>7. Good
  BY <1>5, <1>6 DEF Next, Query, Hello, Leave, QuerySetPosition, vars, groupVars
<1>8. ASSUME NEW u \in Uid, uidIsSuperAdmin(u)', ~uidIsSuperAdmin(u), u \notin privilegedUids'
      PROVE  IsFull(Normal)
  <2>1. PICK g \in Held(u)' : IsFull(g)' /\ ~(g \in Held(u) /\ IsFull(g))
    BY <1>8, FullBefore
  <2>2. g \in Group
    BY TypeStep DEF Held, TypeOK
  <2>3. IsFull(g)
    BY <1>7, <2>1, <2>2 DEF IsFull, Reserved
  <2>4. g = Normal
    BY <1>7, <2>1, <2>3
  <2>5. QED
    BY <2>3, <2>4
<1>9. QED
  BY <1>7, <1>8

\* Full rights and pluginDataGlobal come from full administrators or privilege
\* keys only, through any sequence of creations, edits and assignments.
THEOREM RightsComeFromAdmins == Spec => RightsFromAdmins
<1>1. TypeOK /\ [Next]_vars => [RightsGiven]_vars
  BY RightsStep
<1>2. QED
  BY <1>1, HierarchyTypes, PTL DEF Spec, RightsFromAdmins, RightsGiven, Reserved

-----------------------------------------------------------------------------
(* How positions rise *)

Risen ==
    \A u \in Uid : positionForUid(u)' > positionForUid(u) =>
         AdminOnline \/ Query \/ SessionAbove(positionForUid(u)')
                     \/ positionForUid(u)' <= position[Normal]

\* A position rises by a group held newly, or held and moved: if that group is
\* below the editor, so is the position.
LEMMA RisenBelow ==
    ASSUME TypeOK, TypeOK', NEW c \in Editors, NEW u \in Uid,
           positionForUid(u)' > positionForUid(u),
           \A h \in Held(u)' : \/ h \in Held(u) /\ position'[h] = position[h]
                               \/ position'[h] < clientPosition(c)
                               \/ position'[h] <= position[Normal]
    PROVE  SessionAbove(positionForUid(u)') \/ positionForUid(u)' <= position[Normal]
<1>1. /\ positionForUid(u) \in Int /\ positionForUid(u) >= 0
      /\ \A g \in Held(u) : position[g] <= positionForUid(u)
  BY PositionIs, HierarchyAssumption DEF TypeOK
<1>2. positionForUid(u)' \in {0} \cup {position'[g] : g \in Held(u)'}
  <2> DEFINE S == {0} \cup {position'[g] : g \in Held(u)'}
  <2>1. position' \in [Group -> Position] /\ Held(u)' \subseteq Group
    BY DEF TypeOK, Held
  <2>2. S \in SUBSET Position /\ S # {}
    BY <2>1, HierarchyAssumption
  <2>3. Greatest(S) \in S
    BY <2>2, GreatestIs
  <2>4. QED
    BY <2>3 DEF positionForUid
<1>3. PICK h \in Held(u)' : positionForUid(u)' = position'[h]
  BY <1>1, <1>2
<1>4. CASE h \in Held(u) /\ position'[h] = position[h]
  <2>1. position[h] \in Int
    BY <1>4, HierarchyAssumption DEF TypeOK, Held
  <2>2. QED
    BY <1>1, <1>3, <1>4, <2>1
<1>5. CASE position'[h] < clientPosition(c)
  BY <1>3, <1>5 DEF Editors, SessionAbove
<1>6. QED
  BY <1>3, <1>4, <1>5

LEMMA RisenStep == TypeOK /\ [Next]_vars => Risen
<1> SUFFICES ASSUME TypeOK, [Next]_vars, NEW u \in Uid,
                    positionForUid(u)' > positionForUid(u), ~AdminOnline, ~Query
             PROVE  SessionAbove(positionForUid(u)') \/ positionForUid(u)' <= position[Normal]
  BY DEF Risen
<1> DEFINE Goal == SessionAbove(positionForUid(u)') \/ positionForUid(u)' <= position[Normal]
<1>0. TypeOK' /\ positionForUid(u) \in Int
  BY TypeStep, PositionIs, HierarchyAssumption DEF TypeOK
<1>a. ASSUME NEW c \in Editors PROVE ~isSuperAdmin(c)
  BY DEF Editors, AdminOnline
<1>b. position[Normal] <= position[Normal]
  <2>1. Normal \in Group /\ position \in [Group -> Position]
    BY HierarchyAssumption DEF TypeOK, Group, Normal
  <2>2. position[Normal] \in Int
    BY <2>1, HierarchyAssumption
  <2>3. QED
    BY <2>2
<1>1. ASSUME NEW c, NEW ps \in PermSets, NEW p \in Position, GroupCreate(c, ps, p) PROVE Goal
  <2>1. c \in Editors
    BY <1>1 DEF GroupCreate
  <2>2. CASE p \in Free(c)
    <3>1. p < clientPosition(c)
      BY <1>a, <2>1, <2>2 DEF Free, canSetGroupPosition
    <3>2. /\ groups' = groups \cup {nextGroup} /\ assignByUid' = assignByUid
          /\ position' = [position EXCEPT ![nextGroup] = p]
          /\ nextGroup \in Group
      BY <1>1, <2>2 DEF GroupCreate
    <3>3. position \in [Group -> Position]
      BY DEF TypeOK
    <3>4. \A h \in Held(u)' : \/ h \in Held(u) /\ position'[h] = position[h]
                              \/ position'[h] < clientPosition(c)
                              \/ position'[h] <= position[Normal]
      <4> SUFFICES ASSUME NEW h \in Held(u)' 
                   PROVE  (h \in Held(u) /\ position'[h] = position[h]) \/ position'[h] < clientPosition(c)
        OBVIOUS
      <4>1. h \in Group
        BY <1>0 DEF Held, TypeOK
      <4>2. CASE h = nextGroup
        BY <3>1, <3>2, <3>3, <4>2
      <4>3. CASE h # nextGroup
        <5>1. h \in Held(u)
          BY <3>2, <4>3 DEF Held, groupIdsForUid
        <5>2. QED
          BY <3>2, <3>3, <4>1, <4>3, <5>1
      <4>4. QED
        BY <4>2, <4>3
    <3>5. QED
      BY <1>0, <2>1, <3>4, RisenBelow
  <2>3. CASE p \notin Free(c)
    <3>1. UNCHANGED <<groups, position, assignByUid>>
      BY <1>1, <2>3 DEF GroupCreate
    <3>2. \A h \in Held(u)' : h \in Held(u) /\ position'[h] = position[h]
      BY <3>1 DEF Held, groupIdsForUid
    <3>3. QED
      BY <1>0, <2>1, <3>2, RisenBelow
  <2>4. QED
    BY <2>2, <2>3
<1>2. ASSUME NEW c, NEW g \in Group, NEW ps \in PermSets, NEW p \in Position, GroupEdit(c, g, ps, p)
      PROVE  Goal
  <2>1. c \in Editors /\ p < clientPosition(c)
    BY <1>2, <1>a DEF GroupEdit, Free, canSetGroupPosition
  <2>2. position' = [position EXCEPT ![g] = p] /\ position \in [Group -> Position]
    BY <1>2 DEF GroupEdit, TypeOK
  <2>3. Held(u)' = Held(u) /\ Held(u) \subseteq Group
    BY <1>2 DEF GroupEdit, Held, groupIdsForUid, TypeOK
  <2>4. \A h \in Held(u)' : (h \in Held(u) /\ position'[h] = position[h]) \/ position'[h] < clientPosition(c)
    BY <2>1, <2>2, <2>3
  <2>5. QED
    BY <1>0, <2>1, <2>4, RisenBelow
<1>3. ASSUME NEW c, NEW G \in SUBSET groups, NEW moved \in [G -> Position], GroupReorder(c, moved)
      PROVE  Goal
  <2>1. c \in Editors /\ \A g \in G : moved[g] < clientPosition(c)
    BY <1>3, <1>a DEF GroupReorder, Free, canSetGroupPosition
  <2>2. /\ position' = [g \in Group |-> IF g \in G THEN moved[g] ELSE position[g]]
        /\ position \in [Group -> Position]
    BY <1>3 DEF GroupReorder, TypeOK
  <2>3. Held(u)' = Held(u) /\ Held(u) \subseteq Group
    BY <1>3 DEF GroupReorder, Held, groupIdsForUid, TypeOK
  <2>4. \A h \in Held(u)' : (h \in Held(u) /\ position'[h] = position[h]) \/ position'[h] < clientPosition(c)
    BY <2>1, <2>2, <2>3
  <2>5. QED
    BY <1>0, <2>1, <2>4, RisenBelow
<1>4. ASSUME NEW c, NEW g \in Group, GroupDelete(c, g) PROVE Goal
  <2>1. c \in Editors /\ position' = position
    BY <1>4 DEF GroupDelete
  <2>2. Held(u)' \subseteq Held(u) \cup {Normal}
    BY <1>4 DEF GroupDelete, Held, groupIdsForUid, withBase, Without, orNormal
  <2>4. \A h \in Held(u)' : (h \in Held(u) /\ position'[h] = position[h]) \/ position'[h] <= position[Normal]
    BY <1>b, <2>1, <2>2
  <2>5. QED
    BY <1>0, <2>1, <2>4, RisenBelow
<1>5. ASSUME NEW c, NEW g \in Group, NEW v \in Uid, NEW byUid \in BOOLEAN,
             NEW op \in {"add", "remove"}, ClientSetGroup(c, g, v, byUid, op)
      PROVE  Goal
  <2>1. c \in Editors /\ position' = position
    BY <1>5 DEF ClientSetGroup, groupVars
  <2>2. position[g] < clientPosition(c)
    <3>1. clientPosition(c) > position[g]
      BY <1>5, <1>a, <2>1 DEF ClientSetGroup, Below, canManageGroup
    <3>2. QED
      BY <3>1
  <2>3. Held(u)' \subseteq Held(u) \cup {g, Normal}
    BY <1>5 DEF ClientSetGroup, groupVars, Held, groupIdsForUid, withBase, orNormal, TypeOK
  <2>5. \A h \in Held(u)' : \/ h \in Held(u) /\ position'[h] = position[h]
                            \/ position'[h] < clientPosition(c)
                            \/ position'[h] <= position[Normal]
    BY <1>b, <2>1, <2>2, <2>3
  <2>6. QED
    BY <1>0, <2>1, <2>5, RisenBelow
<1>6. ASSUME UNCHANGED <<groups, position, assignByUid>> PROVE FALSE
  <2>1. positionForUid(u)' = positionForUid(u)
    BY <1>6 DEF positionForUid, Held, groupIdsForUid
  <2>2. QED
    BY <1>0, <2>1
<1>7. ASSUME NEW c \in online, Request(c) PROVE Goal
  BY <1>1, <1>2, <1>3, <1>4, <1>5, <1>6, <1>7 DEF Request, Privkey, groupVars
<1>8. QED
  BY <1>6, <1>7 DEF Next, Hello, Leave, vars, groupVars

\* Without a full administrator or ServerQuery nobody rises to what the session
\* of the highest editor counts for, or above, except to the position of the base
\* group, whoever is named by uid and however editors work together.
THEOREM PositionsRiseBelowSessions == Spec => [][Risen]_vars
<1>1. TypeOK /\ [Next]_vars => [Risen]_vars
  BY RisenStep
<1>2. QED
  BY <1>1, HierarchyTypes, PTL DEF Spec

\* As long as nobody who is online is named by uid, nobody rises to the position
\* of the highest editor, or above.
THEOREM PositionsRiseBelowEditors ==
    ASSUME ~ByUid
    PROVE  Spec => RisesBelowEditors
<1> DEFINE Rises == \A u \in Uid : positionForUid(u)' > positionForUid(u) =>
                       AdminOnline \/ Query \/ EditorAbove(positionForUid(u)')
                                   \/ positionForUid(u)' <= position[Normal]
<1>1. TypeOK /\ AuthorityCurrent /\ [Next]_vars => [Rises]_vars
  BY RisenStep, SessionIsCurrent DEF Risen
<1>2. QED
  BY <1>1, HierarchyTypes, AuthorityIsCurrent, PTL DEF Spec, RisesBelowEditors

=============================================================================
