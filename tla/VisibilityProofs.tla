-------------------------- MODULE VisibilityProofs --------------------------
(***************************************************************************)
(* Theorems about Visibility, for any people, groups, channels, rules and  *)
(* restarts.                                                               *)
(***************************************************************************)
EXTENDS Visibility, WellFoundedInduction, FiniteSetTheorems, TLAPS

-----------------------------------------------------------------------------
(* Numbers *)

LEMMA LeastIs ==
    ASSUME NEW S \in SUBSET Nat, S # {}
    PROVE  \E n \in S : \A m \in S : n <= m
<1> DEFINE less == OpToRel(<, Nat)
<1>1. \A i, j \in Nat : i < j => <<i, j>> \in less
  BY DEF OpToRel
<1>2. IsWellFoundedOn(less, Nat)
  BY NatLessThanWellFounded
<1> HIDE DEF less
<1>3. PICK n \in S : \A m \in S : ~ (<<m, n>> \in less)
  BY <1>2, WFMin
<1>4. \A m \in S : ~ (m < n) /\ m \in Nat /\ n \in Nat
  BY <1>1, <1>3
<1>5. QED
  BY <1>4

LEMMA GreatestIs ==
    ASSUME NEW n \in Nat, NEW S \in SUBSET (1..n), S # {}
    PROVE  \E p \in S : \A q \in S : q <= p
<1> DEFINE down == {m \in Nat : \E p \in S : m = n - p}
<1>1. \A p \in S : n - p \in down
  OBVIOUS
<1>2. PICK m \in down : \A k \in down : m <= k
  BY <1>1, LeastIs
<1>3. PICK p \in S : m = n - p
  BY <1>2
<1> HIDE DEF down
<1>4. \A q \in S : q <= p
  BY <1>1, <1>2, <1>3
<1>5. QED
  BY <1>4

-----------------------------------------------------------------------------
(* Type correctness *)

LEMMA BuiltInIs == /\ Roles!BuiltIn = {1, 2, 3} /\ Roles!Guest = 1 /\ Roles!Normal = 2 /\ Roles!Admin = 3
                   /\ {1, 2, 3} \subseteq Group /\ Lobby \in Chan /\ Lobby # Root
  BY VisibilityAssumption DEF Roles!BuiltIn, Roles!Guest, Roles!Normal, Roles!Admin, Group, Lobby,
     Chan, Root

LEMMA ViewType == \A u \in Uid : View(u) \in [Chan -> Shown]
  BY DEF View, Shown

\* What a message to S leaves.
LEMMA Synced ==
    ASSUME TypeOK, NEW S \in SUBSET Uid, syncChannelVisibility(S)
    PROVE  /\ known' \in [Uid -> [Chan -> Shown]]
           /\ \A u \in Uid : known'[u] = IF u \in S /\ u \in online' THEN View(u)' ELSE known[u]
<1>1. \A u \in Uid : View(u)' \in [Chan -> Shown]
  BY DEF View, Shown
<1>2. QED
  BY <1>1 DEF syncChannelVisibility, TypeOK

LEMMA Applied ==
    ASSUME TypeOK, NEW S \in SUBSET Uid, applyGroup(S)
    PROVE  /\ groupId' \in [Uid -> Group]
           /\ \A u \in Uid \ S : groupId'[u] = groupId[u]
           /\ UNCHANGED <<online, adminAuthenticated>>
           /\ syncChannelVisibility(S)
<1>1. PICK top \in [S -> Group] : groupId' = [u \in Uid |-> IF u \in S THEN top[u] ELSE groupId[u]]
  BY DEF applyGroup
<1>2. QED
  BY <1>1 DEF applyGroup, TypeOK

LEMMA Repositioned ==
    ASSUME TypeOK, NEW G \in SUBSET Group, Reposition(G)
    PROVE  /\ req' \in [Chan -> [Group -> {"none", "met", "low"}]]
           /\ \A ch \in Chan, g \in Group :
                 g \notin G \/ req[ch][g] = "none" => req'[ch][g] = req[ch][g]
<1>1. PICK low :
         req' = [ch \in Chan |-> [g \in Group |->
                   IF g \notin G \/ req[ch][g] = "none" THEN req[ch][g]
                   ELSE IF <<ch, g>> \in low THEN "low" ELSE "met"]]
  BY DEF Reposition
<1>2. QED
  BY <1>1 DEF TypeOK

LEMMA TypeInit == Init => TypeOK
  BY VisibilityAssumption, BuiltInIs DEF Init, TypeOK, State, NotSet, Unruled, NoReqs, NoTree, Shown

\* What a deletion, or the timer, leaves.
LEMMA RemovedTypes ==
    ASSUME TypeOK, NEW gone \in SUBSET Chan, Lobby \notin gone, NEW linked \in BOOLEAN,
           Removed(gone, linked)
    PROVE  TypeOK'
<1>1. known' \in [Uid -> [Chan -> Shown]]
  <2>1. CASE linked
    BY <2>1, Synced DEF Removed, Forget, Everybody
  <2>2. CASE ~linked
    <3>1. "hidden" \in Shown
      BY DEF Shown
    <3>2. QED
      BY <2>2, <3>1 DEF Removed, Forget, TypeOK
  <2>3. QED
    BY <2>1, <2>2
<1>2. /\ type' \in [Chan -> {"none", "temp", "kept"}] /\ type'[Lobby] = "kept"
      /\ parent' \in [Chan -> Chan \cup {Root}]
      /\ rule' \in [Chan -> [Group -> State]]
      /\ req' \in [Chan -> [Group -> {"none", "met", "low"}]]
  BY BuiltInIs DEF Removed, TypeOK, Unruled, NoReqs, State, NotSet
<1>3. UNCHANGED <<groupVars, grantVars, sessionVars, nextChan, restarts>>
  BY DEF Removed
<1>4. QED
  BY <1>1, <1>2, <1>3 DEF TypeOK, groupVars, grantVars, sessionVars

\* Everybody, or somebody, is told after a change in the tree or in its rules.
LEMMA SyncTypes ==
    ASSUME TypeOK, NEW S \in SUBSET Uid, syncChannelVisibility(S),
           UNCHANGED <<groupVars, sessionVars, restarts>>,
           assignByUid' \in [Uid -> SUBSET Group], privilegedUids' \in SUBSET Uid,
           type' \in [Chan -> {"none", "temp", "kept"}], type'[Lobby] = "kept",
           parent' \in [Chan -> Chan \cup {Root}], nextChan' \in 2..MaxChan + 1,
           rule' \in [Chan -> [Group -> State]],
           req' \in [Chan -> [Group -> {"none", "met", "low"}]]
    PROVE  TypeOK'
<1>1. known' \in [Uid -> [Chan -> Shown]]
  BY Synced
<1>2. QED
  BY <1>1 DEF TypeOK, groupVars, sessionVars

\* Groups or assignments change, and sessions are computed again.
LEMMA ApplyTypes ==
    ASSUME TypeOK, NEW S \in SUBSET Uid, applyGroup(S),
           UNCHANGED <<privilegedUids, treeVars, rule, restarts>>,
           groups' \in SUBSET Group, Roles!BuiltIn \subseteq groups',
           nextGroup' \in 4..MaxGroup + 1, assignByUid' \in [Uid -> SUBSET Group],
           req' \in [Chan -> [Group -> {"none", "met", "low"}]]
    PROVE  TypeOK'
<1>1. groupId' \in [Uid -> Group] /\ UNCHANGED <<online, adminAuthenticated>>
      /\ syncChannelVisibility(S)
  BY Applied
<1>2. known' \in [Uid -> [Chan -> Shown]]
  BY <1>1, Synced
<1>3. QED
  BY <1>1, <1>2 DEF TypeOK, treeVars

LEMMA TypeRestart == TypeOK /\ Restart => TypeOK'
<1> SUFFICES ASSUME TypeOK, Restart PROVE TypeOK'
  OBVIOUS
<1> DEFINE saved == {ch \in Chan : type[ch] = "kept"}
<1>1. /\ restarts' \in 0..MaxRestarts
      /\ type' = [ch \in Chan |-> IF ch \in saved THEN "kept" ELSE "none"]
      /\ parent' = [ch \in Chan |-> IF ch \in saved THEN parent[ch] ELSE Root]
      /\ rule' = [ch \in Chan |-> IF ch \in saved THEN rule[ch] ELSE Unruled]
      /\ req' = [ch \in Chan |-> IF ch \in saved THEN req[ch] ELSE NoReqs]
      /\ nextChan' = Tree!FirstFree(saved)
      /\ nextGroup' = Roles!Greatest(groups) + 1
      /\ online' = {} /\ adminAuthenticated' = {}
      /\ groupId' = [u \in Uid |-> Roles!Guest]
      /\ known' = [u \in Uid |-> NoTree]
      /\ UNCHANGED <<groups, grantVars>>
  BY VisibilityAssumption DEF Restart, TypeOK
<1>2. saved \in SUBSET (1..MaxChan) /\ Lobby \in saved /\ MaxChan \in Nat
  BY BuiltInIs, VisibilityAssumption DEF TypeOK, Chan
<1> HIDE DEF saved
<1>3. nextChan' \in 2..MaxChan + 1
  <2>1. \E p \in saved : \A q \in saved : q <= p
    BY <1>2, GreatestIs
  <2>2. Tree!HighestSaved(saved) \in saved
    BY <2>1 DEF Tree!HighestSaved
  <2>3. Tree!HighestSaved(saved) \in 1..MaxChan
    BY <1>2, <2>2
  <2>4. QED
    BY <1>1, <1>2, <2>3 DEF Tree!FirstFree
<1>4. nextGroup' \in 4..MaxGroup + 1
  <2>1. groups \in SUBSET (1..MaxGroup) /\ 3 \in groups /\ MaxGroup \in Nat
    BY BuiltInIs, VisibilityAssumption DEF TypeOK, Group
  <2>2. \E p \in groups : \A q \in groups : q <= p
    BY <2>1, GreatestIs
  <2>3. Roles!Greatest(groups) \in groups /\ 3 <= Roles!Greatest(groups)
    BY <2>1, <2>2 DEF Roles!Greatest
  <2>4. Roles!Greatest(groups) \in 1..MaxGroup
    BY <2>1, <2>3
  <2>5. QED
    BY <1>1, <2>1, <2>3, <2>4
<1>5. /\ type' \in [Chan -> {"none", "temp", "kept"}] /\ type'[Lobby] = "kept"
      /\ parent' \in [Chan -> Chan \cup {Root}]
  BY <1>1, <1>2, BuiltInIs DEF TypeOK
<1>6. /\ rule' \in [Chan -> [Group -> State]]
      /\ req' \in [Chan -> [Group -> {"none", "met", "low"}]]
  BY <1>1 DEF TypeOK, Unruled, NoReqs, State, NotSet
<1>7. /\ groupId' \in [Uid -> Group]
      /\ known' \in [Uid -> [Chan -> Shown]]
  BY <1>1, BuiltInIs DEF NoTree, Shown
<1>8. QED
  BY <1>1, <1>3, <1>4, <1>5, <1>6, <1>7 DEF TypeOK, grantVars

LEMMA TypeStep == TypeOK /\ [Next]_vars => TypeOK'
<1> SUFFICES ASSUME TypeOK, [Next]_vars PROVE TypeOK'
  OBVIOUS
<1> USE BuiltInIs, VisibilityAssumption
<1>1. ASSUME NEW u \in Uid, NEW admin \in BOOLEAN, Hello(u, admin) PROVE TypeOK'
  <2>1. known' \in [Uid -> [Chan -> Shown]]
    BY <1>1, Synced DEF Hello
  <2>2. groupId' \in [Uid -> Group]
    BY <1>1 DEF Hello, Roles!Primary, TypeOK
  <2>3. /\ online' \in SUBSET Uid /\ adminAuthenticated' \in SUBSET online'
        /\ UNCHANGED <<groupVars, grantVars, treeVars, ruleVars, restarts>>
    BY <1>1 DEF Hello, TypeOK
  <2>4. QED
    BY <2>1, <2>2, <2>3 DEF TypeOK, groupVars, grantVars, treeVars, ruleVars
<1>2. ASSUME NEW u \in Uid, Leave(u) PROVE TypeOK'
  BY <1>2 DEF Leave, TypeOK, groupVars, grantVars, treeVars, ruleVars, NoTree, Shown
<1>3. ASSUME NEW u \in Uid, Privkey(u) PROVE TypeOK'
  BY <1>3, SyncTypes DEF Privkey, TypeOK, treeVars, ruleVars
<1>4. CASE GroupCreate
  <2>1. CASE Reposition({nextGroup}) /\ applyGroup(Roles!Touched({nextGroup}))
               /\ groups' = groups \cup {nextGroup}
    <3>1. req' \in [Chan -> [Group -> {"none", "met", "low"}]] /\ nextGroup \in Group
      BY <1>4, <2>1, Repositioned DEF GroupCreate
    <3>2. Roles!Touched({nextGroup}) \in SUBSET Uid
      BY DEF Roles!Touched, TypeOK
    <3>3. nextGroup' \in 4..MaxGroup + 1
      BY <1>4 DEF GroupCreate, Group, TypeOK
    <3>4. QED
      BY <1>4, <2>1, <3>1, <3>2, <3>3, ApplyTypes DEF GroupCreate, grantVars, TypeOK
  <2>2. CASE UNCHANGED <<groups, req, sessionVars, known>>
    BY <1>4, <2>2 DEF GroupCreate, TypeOK, Group, grantVars, treeVars, sessionVars
  <2>3. QED
    BY <1>4, <2>1, <2>2 DEF GroupCreate
<1>5. ASSUME NEW G \in SUBSET Group, GroupEdit(G) PROVE TypeOK'
  <2>1. req' \in [Chan -> [Group -> {"none", "met", "low"}]]
    BY <1>5, Repositioned DEF GroupEdit
  <2>2. Roles!Touched(G) \in SUBSET Uid
    BY DEF Roles!Touched, TypeOK
  <2>3. QED
    BY <1>5, <2>1, <2>2, ApplyTypes DEF GroupEdit, groupVars, grantVars, TypeOK
<1>6. ASSUME NEW g \in Group, GroupDelete(g) PROVE TypeOK'
  <2>1. assignByUid' \in [Uid -> SUBSET Group]
    BY <1>6 DEF GroupDelete, Roles!Without, Roles!orNormal, TypeOK
  <2>2. {u \in online : groupId[u] = g} \in SUBSET Uid
    BY DEF TypeOK
  <2>3. QED
    BY <1>6, <2>1, <2>2, ApplyTypes DEF GroupDelete, ruleVars, TypeOK
<1>7. ASSUME NEW g \in Group, NEW u \in Uid, NEW byUid \in BOOLEAN, NEW op \in {"add", "remove"},
             ClientSetGroup(g, u, byUid, op)
      PROVE  TypeOK'
  <2>1. assignByUid' \in [Uid -> SUBSET Group]
    BY <1>7 DEF ClientSetGroup, Roles!orNormal, TypeOK
  <2>2. (IF byUid THEN {} ELSE {u}) \in SUBSET Uid
    OBVIOUS
  <2>3. QED
    BY <1>7, <2>1, <2>2, ApplyTypes DEF ClientSetGroup, groupVars, ruleVars, TypeOK
<1>8. ASSUME NEW kind \in {"temp", "kept"}, NEW r \in Rules, NEW p \in Chan \cup {Root},
             ChanCreate(kind, p, r)
      PROVE  TypeOK'
  <2>1. /\ nextChan' \in 2..MaxChan + 1 /\ nextChan \in Chan /\ nextChan # Lobby
        /\ r \in [Group -> State]
        /\ UNCHANGED <<groupVars, grantVars, sessionVars, req, restarts>>
    BY <1>8 DEF ChanCreate, Chan, TypeOK, Lobby
  <2>2. CASE UNCHANGED <<type, parent, rule, known>>
    BY <2>1, <2>2 DEF TypeOK, groupVars, grantVars, sessionVars
  <2>3. CASE /\ type' = [type EXCEPT ![nextChan] = kind]
             /\ parent' = [parent EXCEPT ![nextChan] = p]
             /\ rule' = [rule EXCEPT ![nextChan] = r]
             /\ syncChannelVisibility(Everybody)
    BY <2>1, <2>3, SyncTypes DEF TypeOK, Everybody, grantVars
  <2>4. QED
    BY <1>8, <2>2, <2>3 DEF ChanCreate
<1>9. ASSUME NEW id \in Chan, NEW p \in Chan \cup {Root}, ChanMove(id, p) PROVE TypeOK'
  BY <1>9, SyncTypes DEF ChanMove, TypeOK, Everybody, grantVars, ruleVars
<1>10. ASSUME NEW ch \in Chan, NEW kind \in {"temp", "kept"}, NEW r \in Rules,
              ChanEdit(ch, kind, r)
       PROVE  TypeOK'
  BY <1>10, SyncTypes DEF ChanEdit, TypeOK, Everybody, grantVars
<1>11. ASSUME NEW ch \in Chan, ChanEditRefused(ch) PROVE TypeOK'
  <2>1. known' \in [Uid -> [Chan -> Shown]]
    BY <1>11 DEF ChanEditRefused, TypeOK, Shown
  <2>2. QED
    BY <1>11, <2>1 DEF ChanEditRefused, TypeOK, groupVars, grantVars, sessionVars, treeVars, ruleVars
<1>12. ASSUME NEW id \in Chan, NEW linked \in BOOLEAN, ChanDelete(id, linked) PROVE TypeOK'
  BY <1>12, RemovedTypes DEF ChanDelete
<1>13. ASSUME NEW gone \in SUBSET Chan, NEW linked \in BOOLEAN, Cleanup(gone, linked) PROVE TypeOK'
  <2>1. Lobby \notin gone
    BY <1>13 DEF Cleanup, TypeOK
  <2>2. QED
    BY <1>13, <2>1, RemovedTypes DEF Cleanup
<1>14. ASSUME NEW g \in Group, QuerySetPosition(g) PROVE TypeOK'
  <2>1. req' \in [Chan -> [Group -> {"none", "met", "low"}]]
    BY <1>14, Repositioned DEF QuerySetPosition
  <2>2. QED
    BY <1>14, <2>1 DEF QuerySetPosition, TypeOK, groupVars, grantVars, sessionVars, treeVars
<1>15. ASSUME NEW g \in Ruled, NEW ch \in Chan, NEW s \in {Allow, Deny, Inherit},
              QuerySetPerm(ch, g, s)
       PROVE  TypeOK'
  <2>1. rule' \in [Chan -> [Group -> State]]
    BY <1>15 DEF QuerySetPerm, TypeOK, State
  <2>2. QED
    BY <1>15, <2>1, SyncTypes DEF QuerySetPerm, TypeOK, Everybody, grantVars, treeVars
<1>16. ASSUME NEW g \in Ruled, NEW ch \in Chan, NEW r \in {"none", "met", "low"},
              QuerySetReq(ch, g, r)
       PROVE  TypeOK'
  <2>1. req' \in [Chan -> [Group -> {"none", "met", "low"}]]
    BY <1>16 DEF QuerySetReq, TypeOK
  <2>2. QED
    BY <1>16, <2>1, SyncTypes DEF QuerySetReq, TypeOK, Everybody, grantVars, treeVars
<1>17. CASE Restart
  BY <1>17, TypeRestart
<1>18. CASE UNCHANGED vars
  BY <1>18 DEF vars, TypeOK, groupVars, grantVars, sessionVars, treeVars, ruleVars
<1>19. QED
  <2>1. ASSUME RoleRequest PROVE TypeOK'
    BY <1>4, <1>5, <1>6, <1>7, <2>1 DEF RoleRequest
  <2>2. ASSUME ChanRequest PROVE TypeOK'
    BY <1>8, <1>9, <1>10, <1>11, <1>12, <2>2 DEF ChanRequest
  <2>3. ASSUME QueryRequest PROVE TypeOK'
    BY <1>14, <1>15, <1>16, <2>3 DEF QueryRequest
  <2>4. QED
    BY <1>1, <1>2, <1>3, <1>13, <1>17, <1>18, <2>1, <2>2, <2>3 DEF Next

\* The variables keep their types.
THEOREM VisibilityTypes == Spec => []TypeOK
  BY TypeInit, TypeStep, PTL DEF Spec

-----------------------------------------------------------------------------
(* What is shown is a tree *)

\* Above of Channels, for the channels R and the parents up.
Upward(R, up, S) == \A x \in S : up[x] \notin R \ S
Ancestors(R, up, p) == {q \in R : \A S \in SUBSET R : p \in S /\ Upward(R, up, S) => q \in S}

LEMMA AboveIs == \A p \in Chan : Tree!Above(p) = Ancestors(Tree!Exists, parent, p)
  BY DEF Tree!Above, Ancestors, Upward

LEMMA AboveIsNext == \A p \in Chan : Tree!Above(p)' = Ancestors(Tree!Exists', parent', p)
  BY DEF Tree!Above, Ancestors, Upward

\* What is above the parent is above the child.
LEMMA AncestorsOfParent ==
    ASSUME NEW R, NEW up, NEW ch \in R, up[ch] \in R
    PROVE  Ancestors(R, up, up[ch]) \subseteq Ancestors(R, up, ch)
<1> SUFFICES ASSUME NEW q \in Ancestors(R, up, up[ch]), NEW S \in SUBSET R, ch \in S, Upward(R, up, S)
             PROVE  q \in S
  BY DEF Ancestors
<1>1. up[ch] \in S
  BY DEF Upward
<1>2. QED
  BY <1>1 DEF Ancestors

\* Whoever was just told what there is has been shown a whole tree.
LEMMA WholeWhenTold ==
    ASSUME NEW u \in Uid, known'[u] = View(u)', NEW ch \in Chan, NEW p \in Chan,
           ch \in Tree!Exists', p \in Tree!Exists', parent'[ch] = p, known'[u][ch] # "hidden"
    PROVE  known'[u][p] # "hidden"
<1>1. canViewChannel(u, ch)'
  BY DEF View
<1>2. Tree!Above(p)' \subseteq Tree!Above(ch)'
  BY AboveIsNext, AncestorsOfParent
<1>3. canViewChannel(u, p)'
  BY <1>1, <1>2 DEF canViewChannel
<1>4. QED
  BY <1>3 DEF View

WholeInv == TypeOK /\ TreeIsWhole

LEMMA WholeInit == Init => WholeInv
  BY TypeInit DEF Init, WholeInv, TreeIsWhole

\* Everybody is told what there is, or has seen it in the tree as it stays.
LEMMA WholeKept ==
    ASSUME WholeInv, TypeOK',
           \A u \in Uid : u \in online' =>
               \/ known'[u] = View(u)'
               \/ u \in online /\ known'[u] = known[u] /\ UNCHANGED <<type, parent>>
    PROVE  WholeInv'
<1> SUFFICES ASSUME NEW u \in online', NEW ch \in Chan, NEW p \in Chan,
                    ch \in Tree!Exists', p \in Tree!Exists', parent'[ch] = p, known'[u][ch] # "hidden"
             PROVE  known'[u][p] # "hidden"
  BY DEF WholeInv, TreeIsWhole, Tree!Exists, Tree!Chan, Chan
<1>0. u \in Uid
  BY DEF TypeOK
<1>1. CASE known'[u] = View(u)'
  BY <1>0, <1>1, WholeWhenTold
<1>2. CASE u \in online /\ known'[u] = known[u] /\ UNCHANGED <<type, parent>>
  <2>1. ch \in Tree!Exists /\ p \in Tree!Exists /\ parent[ch] = p
    BY <1>2 DEF Tree!Exists
  <2>2. QED
    BY <1>2, <2>1 DEF WholeInv, TreeIsWhole
<1>3. QED
  BY <1>0, <1>1, <1>2

\* A message to S is enough when nobody else comes and the tree stays.
LEMMA WholeSynced ==
    ASSUME WholeInv, TypeOK', NEW S \in SUBSET Uid, syncChannelVisibility(S),
           online' \subseteq online \cup S, UNCHANGED <<type, parent>>
    PROVE  WholeInv'
<1>1. TypeOK
  BY DEF WholeInv
<1>2. \A u \in Uid : known'[u] = IF u \in S /\ u \in online' THEN View(u)' ELSE known[u]
  BY <1>1, Synced
<1>3. \A u \in Uid : u \in online' => u \in S \/ u \in online
  OBVIOUS
<1>4. QED
  BY <1>2, <1>3, WholeKept

LEMMA WholeToldAll ==
    ASSUME WholeInv, TypeOK', syncChannelVisibility(Everybody)
    PROVE  WholeInv'
<1>1. TypeOK
  BY DEF WholeInv
<1>2. \A u \in Uid : u \in online' => known'[u] = View(u)'
  BY <1>1, Synced DEF Everybody
<1>3. QED
  BY <1>2, WholeKept

\* A channel that goes takes no other with it, and those below it stay without
\* a parent.
LEMMA WholeRemoved ==
    ASSUME WholeInv, TypeOK', NEW gone \in SUBSET Chan, NEW linked \in BOOLEAN, Removed(gone, linked)
    PROVE  WholeInv'
<1>1. CASE linked
  BY <1>1, WholeToldAll DEF Removed, Forget
<1>2. CASE ~linked
  <2>1. /\ known' = [u \in Uid |-> [ch \in Chan |-> IF ch \in gone THEN "hidden" ELSE known[u][ch]]]
        /\ type' = [ch \in Chan |-> IF ch \in gone THEN "none" ELSE type[ch]]
        /\ parent' = [ch \in Chan |-> IF ch \in gone THEN Root ELSE parent[ch]]
        /\ online' = online /\ online \subseteq Uid
    BY <1>2 DEF Removed, Forget, sessionVars, WholeInv, TypeOK
  <2> SUFFICES ASSUME NEW u \in online', NEW ch \in Chan, NEW p \in Chan,
                      ch \in Tree!Exists', p \in Tree!Exists', parent'[ch] = p,
                      known'[u][ch] # "hidden"
               PROVE  known'[u][p] # "hidden"
    BY DEF WholeInv, TreeIsWhole, Tree!Exists, Tree!Chan, Chan
  <2>2. /\ ch \notin gone /\ p \notin gone /\ parent[ch] = p
        /\ ch \in Tree!Exists /\ p \in Tree!Exists
    BY <2>1 DEF Tree!Exists
  <2>3. known[u][ch] # "hidden"
    BY <2>1, <2>2
  <2>4. known[u][p] # "hidden"
    BY <2>1, <2>2, <2>3 DEF WholeInv, TreeIsWhole
  <2>5. QED
    BY <2>1, <2>2, <2>4
<1>3. QED
  BY <1>1, <1>2

LEMMA WholeStep == WholeInv /\ [Next]_vars => WholeInv'
<1> SUFFICES ASSUME WholeInv, [Next]_vars PROVE WholeInv'
  OBVIOUS
<1>0. TypeOK /\ TypeOK' /\ online \subseteq Uid
  BY TypeStep DEF WholeInv, TypeOK
<1>1. ASSUME NEW u \in Uid, NEW admin \in BOOLEAN, Hello(u, admin) PROVE WholeInv'
  BY <1>0, <1>1, WholeSynced DEF Hello, treeVars
<1>2. ASSUME NEW u \in Uid, Leave(u) PROVE WholeInv'
  <2>1. online' = online \ {u} /\ UNCHANGED <<type, parent>>
        /\ \A v \in Uid : v # u => known'[v] = known[v]
    BY <1>0, <1>2 DEF Leave, treeVars, TypeOK
  <2>2. QED
    BY <1>0, <2>1, WholeKept
<1>3. ASSUME NEW u \in Uid, Privkey(u) PROVE WholeInv'
  BY <1>0, <1>3, WholeSynced DEF Privkey, sessionVars, treeVars
<1>4. ASSUME NEW S \in SUBSET Uid, applyGroup(S), UNCHANGED treeVars PROVE WholeInv'
  BY <1>0, <1>4, Applied, WholeSynced DEF treeVars
<1>5. ASSUME UNCHANGED <<sessionVars, treeVars, known>> PROVE WholeInv'
  BY <1>0, <1>5, WholeKept DEF sessionVars, treeVars
<1>6. CASE GroupCreate
  <2>1. Roles!Touched({nextGroup}) \in SUBSET Uid
    BY <1>0 DEF Roles!Touched
  <2>2. QED
    BY <1>4, <1>5, <1>6, <2>1 DEF GroupCreate
<1>7. ASSUME NEW G \in SUBSET Group, GroupEdit(G) PROVE WholeInv'
  <2>1. Roles!Touched(G) \in SUBSET Uid
    BY <1>0 DEF Roles!Touched
  <2>2. QED
    BY <1>4, <1>7, <2>1 DEF GroupEdit
<1>8. ASSUME NEW g \in Group, GroupDelete(g) PROVE WholeInv'
  <2>1. {u \in online : groupId[u] = g} \in SUBSET Uid
    BY <1>0
  <2>2. QED
    BY <1>4, <1>8, <2>1 DEF GroupDelete
<1>9. ASSUME NEW g \in Group, NEW u \in Uid, NEW byUid \in BOOLEAN, NEW op \in {"add", "remove"},
             ClientSetGroup(g, u, byUid, op)
      PROVE  WholeInv'
  <2>1. (IF byUid THEN {} ELSE {u}) \in SUBSET Uid
    OBVIOUS
  <2>2. QED
    BY <1>4, <1>9, <2>1 DEF ClientSetGroup
<1>10. ASSUME NEW kind \in {"temp", "kept"}, NEW r \in Rules, NEW p \in Chan \cup {Root},
              ChanCreate(kind, p, r)
       PROVE  WholeInv'
  <2>1. CASE UNCHANGED <<type, parent, rule, known>>
    BY <1>0, <1>10, <2>1, WholeKept DEF ChanCreate, sessionVars
  <2>2. CASE syncChannelVisibility(Everybody)
    BY <1>0, <2>2, WholeToldAll
  <2>3. QED
    BY <1>10, <2>1, <2>2 DEF ChanCreate
<1>11. ASSUME NEW id \in Chan, NEW p \in Chan \cup {Root}, ChanMove(id, p) PROVE WholeInv'
  BY <1>0, <1>11, WholeToldAll DEF ChanMove
<1>12. ASSUME NEW ch \in Chan, NEW kind \in {"temp", "kept"}, NEW r \in Rules,
              ChanEdit(ch, kind, r)
       PROVE  WholeInv'
  BY <1>0, <1>12, WholeToldAll DEF ChanEdit
<1>13. ASSUME NEW ch \in Chan, ChanEditRefused(ch) PROVE WholeInv'
  <2>1. /\ UNCHANGED <<type, parent, online>>
        /\ \A u \in Uid, d \in Chan : known'[u][d] = "hidden" <=> known[u][d] = "hidden"
    BY <1>0, <1>13 DEF ChanEditRefused, TypeOK, treeVars, sessionVars
  <2>2. \A u \in Uid, d \in Tree!Exists :
            parent[d] \in Tree!Exists =>
                (known'[u][parent[d]] = "hidden" <=> known[u][parent[d]] = "hidden")
    BY <2>1 DEF Tree!Exists, Tree!Chan, Chan
  <2>3. Tree!Exists' = Tree!Exists
    BY <2>1 DEF Tree!Exists
  <2>4. \A d \in Tree!Exists : d \in Chan
    BY DEF Tree!Exists, Tree!Chan, Chan
  <2>5. QED
    BY <1>0, <2>1, <2>2, <2>3, <2>4 DEF WholeInv, TreeIsWhole
<1>14. ASSUME NEW id \in Chan, NEW linked \in BOOLEAN, ChanDelete(id, linked) PROVE WholeInv'
  BY <1>0, <1>14, WholeRemoved DEF ChanDelete
<1>15. ASSUME NEW gone \in SUBSET Chan, NEW linked \in BOOLEAN, Cleanup(gone, linked)
       PROVE  WholeInv'
  BY <1>0, <1>15, WholeRemoved DEF Cleanup
<1>16. ASSUME NEW g \in Group, QuerySetPosition(g) PROVE WholeInv'
  BY <1>5, <1>16 DEF QuerySetPosition
<1>17. ASSUME NEW g \in Ruled, NEW ch \in Chan, NEW s \in {Allow, Deny, Inherit},
              QuerySetPerm(ch, g, s)
       PROVE  WholeInv'
  BY <1>0, <1>17, WholeToldAll DEF QuerySetPerm
<1>18. ASSUME NEW g \in Ruled, NEW ch \in Chan, NEW r \in {"none", "met", "low"},
              QuerySetReq(ch, g, r)
       PROVE  WholeInv'
  BY <1>0, <1>18, WholeToldAll DEF QuerySetReq
<1>19. CASE Restart
  BY <1>0, <1>19, WholeKept DEF Restart
<1>20. CASE UNCHANGED vars
  BY <1>5, <1>20 DEF vars
<1>21. QED
  <2>1. ASSUME RoleRequest PROVE WholeInv'
    BY <1>6, <1>7, <1>8, <1>9, <2>1 DEF RoleRequest
  <2>2. ASSUME ChanRequest PROVE WholeInv'
    BY <1>10, <1>11, <1>12, <1>13, <1>14, <2>2 DEF ChanRequest
  <2>3. ASSUME QueryRequest PROVE WholeInv'
    BY <1>16, <1>17, <1>18, <2>3 DEF QueryRequest
  <2>4. QED
    BY <1>1, <1>2, <1>3, <1>15, <1>19, <1>20, <2>1, <2>2, <2>3 DEF Next

\* TreeIsWhole: no client is left with a channel whose parent it does not show.
THEOREM ShownTreesAreWhole == Spec => []TreeIsWhole
<1>1. WholeInv => TreeIsWhole
  BY DEF WholeInv
<1>2. QED
  BY <1>1, WholeInit, WholeStep, PTL DEF Spec

-----------------------------------------------------------------------------
(* The order of groups *)

\* Over the states there are, Combine is the maximum.
LEMMA CombineIsMax ==
    ASSUME NEW a \in State, NEW s \in State
    PROVE  Combine(a, s) = IF a < s THEN s ELSE a
<1>1. Allow # Deny /\ Allow # Inherit /\ Allow # NotSet /\ Deny # Inherit /\ Deny # NotSet
      /\ Inherit # NotSet
  BY DEF Allow, Deny, Inherit, NotSet
<1>2. CASE s = Allow
  <2>1. Combine(a, s) = Allow
    BY <1>1, <1>2, Zenon DEF Combine
  <2>2. QED
    BY <1>2, <2>1 DEF State, Allow, Deny, Inherit, NotSet
<1>3. CASE s = Deny /\ a # Allow
  <2>1. Combine(a, s) = Deny
    BY <1>1, <1>3, Zenon DEF Combine
  <2>2. QED
    BY <1>3, <2>1 DEF State, Allow, Deny, Inherit, NotSet
<1>4. CASE s = Inherit /\ a = NotSet
  <2>1. Combine(a, s) = Inherit
    BY <1>1, <1>4, Zenon DEF Combine
  <2>2. QED
    BY <1>4, <2>1 DEF State, Allow, Deny, Inherit, NotSet
<1>5. CASE ~ (s = Allow \/ (s = Deny /\ a # Allow) \/ (s = Inherit /\ a = NotSet))
  <2>1. Combine(a, s) = a
    BY <1>5, Zenon DEF Combine
  <2>2. QED
    BY <1>5, <2>1 DEF State, Allow, Deny, Inherit, NotSet
<1>6. QED
  BY <1>2, <1>3, <1>4, <1>5

\* f is what the loop over gids has come to after each of the first n groups.
LoopUpTo(f, ch, gids, n) ==
    f = [i \in 0..n |-> IF i = 0 THEN NotSet ELSE Combine(f[i - 1], rule[ch][gids[i]])]

LEMMA LoopRuns ==
    ASSUME NEW ch, NEW gids, NEW n \in Nat
    PROVE  \E f : LoopUpTo(f, ch, gids, n)
<1> DEFINE never == {m \in Nat : ~ \E f : LoopUpTo(f, ch, gids, m)}
<1>1. SUFFICES ASSUME never # {} PROVE FALSE
  OBVIOUS
<1>2. PICK m \in never : \A k \in never : m <= k
  BY <1>1, LeastIs
<1>3. m # 0
  <2> SUFFICES ASSUME m = 0 PROVE FALSE
    OBVIOUS
  <2> DEFINE f == [i \in 0..0 |-> NotSet]
  <2>1. f = [i \in 0..0 |-> IF i = 0 THEN NotSet ELSE Combine(f[i - 1], rule[ch][gids[i]])]
    OBVIOUS
  <2> HIDE DEF f
  <2>2. LoopUpTo(f, ch, gids, 0)
    BY <2>1 DEF LoopUpTo
  <2>3. QED
    BY <1>2, <2>2
<1>4. m \in Nat /\ m - 1 \in Nat /\ ~ (m <= m - 1)
  BY <1>2, <1>3
<1>5. PICK g : LoopUpTo(g, ch, gids, m - 1)
  BY <1>2, <1>4
<1> DEFINE f == [i \in 0..m |-> IF i = m THEN Combine(g[m - 1], rule[ch][gids[m]]) ELSE g[i]]
<1>6. \A i \in 0..m - 1 : g[i] = IF i = 0 THEN NotSet ELSE Combine(g[i - 1], rule[ch][gids[i]])
  BY <1>5, Zenon DEF LoopUpTo
<1>7. \A i \in 0..m : f[i] = IF i = 0 THEN NotSet ELSE Combine(f[i - 1], rule[ch][gids[i]])
  <2> SUFFICES ASSUME NEW i \in 0..m
               PROVE  f[i] = IF i = 0 THEN NotSet ELSE Combine(f[i - 1], rule[ch][gids[i]])
    OBVIOUS
  <2>1. CASE i = m
    BY <1>3, <1>4, <2>1
  <2>2. CASE i # m
    BY <1>3, <1>4, <1>6, <2>2
  <2>3. QED
    BY <2>1, <2>2
<1>8. f = [i \in 0..m |-> f[i]]
  OBVIOUS
<1> HIDE DEF f
<1>9. LoopUpTo(f, ch, gids, m)
  BY <1>7, <1>8, Zenon DEF LoopUpTo
<1>10. QED
  BY <1>2, <1>9

\* After each group the loop has the strongest of what it has seen.
LEMMA LoopKeepsStrongest ==
    ASSUME TypeOK, NEW ch \in Chan, NEW n \in Nat, NEW gids \in [1..n -> Group], NEW f,
           LoopUpTo(f, ch, gids, n)
    PROVE  \A i \in 0..n :
              /\ f[i] \in State
              /\ f[i] = NotSet \/ \E j \in 1..i : f[i] = rule[ch][gids[j]]
              /\ \A j \in 1..i : rule[ch][gids[j]] <= f[i]
<1> DEFINE Strongest(i) == /\ f[i] \in State
                           /\ f[i] = NotSet \/ \E j \in 1..i : f[i] = rule[ch][gids[j]]
                           /\ \A j \in 1..i : rule[ch][gids[j]] <= f[i]
           wrong == {i \in 0..n : ~ Strongest(i)}
<1>1. SUFFICES ASSUME wrong # {} PROVE FALSE
  BY Zenon
<1>2. PICK m \in wrong : \A k \in wrong : m <= k
  <2>1. wrong \in SUBSET Nat
    OBVIOUS
  <2> HIDE DEF wrong
  <2>2. QED
    BY <1>1, <2>1, LeastIs
<1>3. \A i \in 0..n : f[i] = IF i = 0 THEN NotSet ELSE Combine(f[i - 1], rule[ch][gids[i]])
  BY Zenon DEF LoopUpTo
<1>4. \A i \in 1..n : rule[ch][gids[i]] \in State
  BY DEF TypeOK
<1>5. \A s \in State : s \in Int /\ NotSet <= s
  BY DEF State, Allow, Deny, Inherit, NotSet
<1>6. m # 0
  <2>1. f[0] = NotSet /\ NotSet \in State
    BY <1>3 DEF State
  <2>2. 1..0 = {}
    OBVIOUS
  <2>3. Strongest(0)
    BY <2>1, <2>2
  <2>4. QED
    BY <2>3
<1>7. m - 1 \in 0..n /\ m \in 1..n /\ ~ (m <= m - 1)
  BY <1>6
<1>8. Strongest(m - 1)
  BY <1>2, <1>7
<1>9. /\ f[m - 1] \in State /\ rule[ch][gids[m]] \in State
      /\ f[m] = IF f[m - 1] < rule[ch][gids[m]] THEN rule[ch][gids[m]] ELSE f[m - 1]
  BY <1>3, <1>4, <1>6, <1>7, <1>8, CombineIsMax
<1>10. 1..m = (1..m - 1) \cup {m}
  BY <1>7
<1>11. Strongest(m)
  <2>1. f[m] \in State
    BY <1>9
  <2>2. f[m] = NotSet \/ \E j \in 1..m : f[m] = rule[ch][gids[j]]
    BY <1>8, <1>9, <1>10
  <2>3. ASSUME NEW j \in 1..m PROVE rule[ch][gids[j]] <= f[m]
    <3>1. rule[ch][gids[j]] \in Int /\ f[m] \in Int /\ f[m - 1] \in Int
      BY <1>4, <1>5, <1>7, <1>9, <2>1
    <3>2. CASE j = m
      BY <1>5, <1>9, <3>1, <3>2
    <3>3. CASE j \in 1..m - 1
      <4>1. rule[ch][gids[j]] <= f[m - 1]
        BY <1>8, <3>3
      <4>2. QED
        BY <1>5, <1>9, <3>1, <4>1
    <3>4. QED
      BY <1>10, <3>2, <3>3
  <2>4. QED
    BY <2>1, <2>2, <2>3
<1>12. QED
  BY <1>11

LEMMA OrderMakesNoDifference == TypeOK => OrderFree
<1> SUFFICES ASSUME TypeOK, NEW u \in Uid, NEW ch \in Tree!Exists,
                    NEW gids \in Listings(Roles!groupIdsForUid(u))
             PROVE  PermStateInOrder(ch, gids) = getChannelPermState(u, ch)
  BY DEF OrderFree
<1> DEFINE held == Roles!groupIdsForUid(u)
           n == Cardinality(held)
<1>1. held \in SUBSET Group /\ held # {}
  BY BuiltInIs DEF TypeOK, Roles!groupIdsForUid, Roles!withBase
<1>2. n \in Nat
  <2>1. IsFiniteSet(Group)
    BY FS_Interval, VisibilityAssumption DEF Group
  <2>2. IsFiniteSet(held)
    BY <1>1, <2>1, FS_Subset
  <2>3. QED
    BY <2>2, FS_CardinalityType
<1> HIDE DEF n
<1>3. gids \in [1..n -> held] /\ \A g \in held : \E i \in 1..n : gids[i] = g
  BY DEF Listings, n
<1>4. gids \in [1..n -> Group] /\ Len(gids) = n /\ DOMAIN gids = 1..n
  BY <1>1, <1>2, <1>3
<1>5. ch \in Chan
  BY DEF Tree!Exists, Tree!Chan, Chan
<1> DEFINE after == CHOOSE f : LoopUpTo(f, ch, gids, Len(gids))
<1>6. LoopUpTo(after, ch, gids, n)
  <2>1. LoopUpTo(after, ch, gids, Len(gids))
    BY <1>2, <1>4, LoopRuns
  <2>2. QED
    BY <1>4, <2>1, Zenon
<1>7. PermStateInOrder(ch, gids) =
         IF \E i \in DOMAIN gids : gids[i] \in TooLow(ch) THEN Deny ELSE after[n]
  <2>1. PermStateInOrder(ch, gids) =
           IF \E i \in DOMAIN gids : gids[i] \in TooLow(ch) THEN Deny ELSE after[Len(gids)]
    BY Zenon DEF PermStateInOrder, LoopUpTo
  <2>2. QED
    BY <1>4, <2>1, Zenon
<1> HIDE DEF after, held
<1>8. (\E i \in DOMAIN gids : gids[i] \in TooLow(ch)) <=> held \cap TooLow(ch) # {}
  BY <1>3, <1>4
<1> DEFINE states == {rule[ch][g] : g \in held}
<1>9. after[n] \in State /\ (after[n] = NotSet \/ \E j \in 1..n : after[n] = rule[ch][gids[j]])
      /\ \A j \in 1..n : rule[ch][gids[j]] <= after[n]
  BY <1>2, <1>4, <1>5, <1>6, LoopKeepsStrongest
<1>10. \A s \in State : s \in Int /\ NotSet <= s
  BY DEF State, Allow, Deny, Inherit, NotSet
<1>11. states \in SUBSET State /\ states # {}
  BY <1>1, <1>5 DEF TypeOK
<1>12. \A r \in states : r <= after[n]
  BY <1>3, <1>9
<1>13. after[n] \in states
  <2>1. CASE \E j \in 1..n : after[n] = rule[ch][gids[j]]
    BY <1>3, <2>1
  <2>2. CASE after[n] = NotSet
    <3>1. PICK r \in states : TRUE
      BY <1>11
    <3>2. r <= NotSet
      BY <1>12, <2>2
    <3>3. r \in State /\ NotSet \in State
      BY <1>11 DEF State
    <3>4. r = NotSet
      BY <3>2, <3>3 DEF State, Allow, Deny, Inherit, NotSet
    <3>5. QED
      BY <2>2, <3>4
  <2>3. QED
    BY <1>9, <2>1, <2>2
<1> HIDE DEF states
<1>14. \A s \in states : (\A r \in states : r <= s) => s = after[n]
  BY <1>9, <1>10, <1>11, <1>12, <1>13
<1>15. (CHOOSE s \in states : \A r \in states : r <= s) = after[n]
  BY <1>12, <1>13, <1>14
<1>16. getChannelPermState(u, ch) =
          IF held \cap TooLow(ch) # {} THEN Deny ELSE CHOOSE s \in states : \A r \in states : r <= s
  BY DEF getChannelPermState, held, states
<1>17. QED
  <2>1. CASE held \cap TooLow(ch) # {}
    BY <1>7, <1>8, <1>16, <2>1, Zenon
  <2>2. CASE held \cap TooLow(ch) = {}
    <3>1. PermStateInOrder(ch, gids) = after[n]
      BY <1>7, <1>8, <2>2, Zenon
    <3>2. getChannelPermState(u, ch) = CHOOSE s \in states : \A r \in states : r <= s
      BY <1>16, <2>2, Zenon
    <3>3. QED
      BY <1>15, <3>1, <3>2, Zenon
  <2>3. QED
    BY <2>1, <2>2, Zenon

\* OrderFree: what several groups of a person come to in a channel is the same
\* in whatever order the loop meets them.
THEOREM OrderNeverMatters == Spec => []OrderFree
  BY VisibilityTypes, OrderMakesNoDifference, PTL

-----------------------------------------------------------------------------
(* Where a client is left with an old tree *)

\* What the rights of u depend on is as it was.
SameRights(u) ==
    /\ u \in adminAuthenticated' <=> u \in adminAuthenticated
    /\ u \in privilegedUids' <=> u \in privilegedUids
    /\ groupId'[u] = groupId[u]
    /\ Roles!groupIdsForUid(u)' = Roles!groupIdsForUid(u)
    /\ \A g \in Roles!groupIdsForUid(u) : g \in groups' <=> g \in groups

\* What ch has for the groups of u is as it was.
SameRules(u, ch) ==
    \A g \in Roles!groupIdsForUid(u) :
        rule'[ch][g] = rule[ch][g] /\ (req'[ch][g] = "low" <=> req[ch][g] = "low")

LEMMA AdminKept ==
    ASSUME TypeOK, NEW u \in Uid, SameRights(u)
    PROVE  Roles!isSuperAdmin(u)' <=> Roles!isSuperAdmin(u)
<1>1. Roles!groupIdsForUid(u) \subseteq Group
  BY BuiltInIs DEF TypeOK, Roles!groupIdsForUid, Roles!withBase
<1>2. Roles!Held(u)' = Roles!Held(u)
  BY DEF Roles!Held, SameRights
<1>3. \A g \in Roles!Held(u) : Roles!IsFull(g)' <=> Roles!IsFull(g)
  BY DEF Roles!IsFull
<1>4. QED
  BY <1>2, <1>3 DEF SameRights, Roles!isSuperAdmin, Roles!uidIsSuperAdmin

LEMMA PermKept ==
    ASSUME NEW u \in Uid, SameRights(u), NEW ch \in Chan, SameRules(u, ch),
           Roles!groupIdsForUid(u) \subseteq Group
    PROVE  getChannelPermState(u, ch)' = getChannelPermState(u, ch)
<1> DEFINE held == Roles!groupIdsForUid(u)
           states == {rule[ch][g] : g \in held}
           Strongest(S) == CHOOSE s \in S : \A r \in S : r <= s
<1>1. held' = held
  BY DEF SameRights
<1>2. states' = states
  BY <1>1 DEF SameRules
<1>3. held' \cap TooLow(ch)' = held \cap TooLow(ch)
  BY <1>1 DEF SameRules, TooLow
<1>4. getChannelPermState(u, ch) =
         IF held \cap TooLow(ch) # {} THEN Deny ELSE Strongest(states)
  BY DEF getChannelPermState
<1>5. getChannelPermState(u, ch)' =
         IF held' \cap TooLow(ch)' # {} THEN Deny ELSE Strongest(states')
  BY DEF getChannelPermState
<1> HIDE DEF held, states, Strongest
<1>6. QED
  BY <1>2, <1>3, <1>4, <1>5, Zenon

\* A channel that stays, below the same channels with the same rules, is shown
\* as before.
LEMMA ChannelKept ==
    ASSUME TypeOK, NEW u \in Uid, SameRights(u), NEW ch \in Chan,
           ch \in Tree!Exists' <=> ch \in Tree!Exists,
           ch \in Tree!Exists => Tree!Above(ch)' = Tree!Above(ch),
           ch \in Tree!Exists => \A q \in Tree!Above(ch) : SameRules(u, q)
    PROVE  View(u)'[ch] = View(u)[ch]
<1>1. Roles!groupIdsForUid(u) \subseteq Group
  BY BuiltInIs DEF TypeOK, Roles!groupIdsForUid, Roles!withBase
<1>2. ASSUME ch \in Tree!Exists, NEW q \in Tree!Above(ch)
      PROVE  (getChannelPermState(u, q) # Deny)' <=> getChannelPermState(u, q) # Deny
  <2>1. q \in Chan
    BY DEF Tree!Above, Tree!Exists, Tree!Chan, Chan
  <2>2. QED
    BY <1>1, <1>2, <2>1, PermKept
<1>3. canViewChannel(u, ch)' <=> canViewChannel(u, ch)
  BY <1>2, AdminKept DEF canViewChannel
<1>4. QED
  BY <1>3 DEF View

\* Whose rights stay, in a tree that stays with the rules for their groups, may
\* see what they could.
LEMMA ViewKept ==
    ASSUME TypeOK, NEW u \in Uid, SameRights(u), UNCHANGED <<type, parent>>,
           \A ch \in Chan : SameRules(u, ch)
    PROVE  View(u)' = View(u)
<1>1. Tree!Exists' = Tree!Exists
  BY DEF Tree!Exists
<1>2. \A ch \in Chan : Tree!Above(ch)' = Tree!Above(ch)
  BY <1>1, AboveIs, AboveIsNext
<1>3. \A ch \in Chan : Tree!Above(ch) \subseteq Chan
  BY DEF Tree!Above, Tree!Exists, Tree!Chan, Chan
<1>4. \A ch \in Chan : View(u)'[ch] = View(u)[ch]
  BY <1>1, <1>2, <1>3, ChannelKept
<1>5. QED
  BY <1>4 DEF View

\* The channels that go, when none of them has a channel in it, are above no
\* channel that stays.
LEMMA AncestorsWithoutLeaves ==
    ASSUME NEW R, NEW gone, NEW up, NEW down, NEW p \in R \ gone,
           \A x \in R : up[x] \notin R \cap gone,
           \A x \in R \ gone : down[x] = up[x]
    PROVE  Ancestors(R \ gone, down, p) = Ancestors(R, up, p)
<1>1. ASSUME NEW q \in Ancestors(R, up, p) PROVE q \in Ancestors(R \ gone, down, p)
  <2>1. Upward(R, up, R \ gone)
    BY DEF Upward
  <2>2. q \in R \ gone
    BY <1>1, <2>1 DEF Ancestors
  <2>3. ASSUME NEW S \in SUBSET (R \ gone), p \in S, Upward(R \ gone, down, S) PROVE q \in S
    <3>1. Upward(R, up, S) /\ S \in SUBSET R
      BY <2>3 DEF Upward
    <3>2. QED
      BY <1>1, <2>3, <3>1 DEF Ancestors
  <2>4. QED
    BY <2>2, <2>3 DEF Ancestors
<1>2. ASSUME NEW q \in Ancestors(R \ gone, down, p) PROVE q \in Ancestors(R, up, p)
  <2>1. ASSUME NEW S \in SUBSET R, p \in S, Upward(R, up, S) PROVE q \in S
    <3>1. Upward(R \ gone, down, S \ gone) /\ S \ gone \in SUBSET (R \ gone) /\ p \in S \ gone
      BY <2>1 DEF Upward
    <3>2. QED
      BY <1>2, <3>1 DEF Ancestors
  <2>2. QED
    BY <1>2, <2>1 DEF Ancestors
<1>3. QED
  BY <1>1, <1>2

\* The steps after which somebody may be left with an old tree.
Excused(u) ==
    \/ \E g \in groups \ groups' : g \in Roles!groupIdsForUid(u) /\ groupId[u] # g
    \/ ByUid /\ assignByUid'[u] # assignByUid[u]
    \/ Console /\ req' # req /\ UNCHANGED known
    \/ \E ch \in Tree!Exists : type'[ch] = "none" /\ \E d \in Tree!Exists : parent[d] = ch
    \/ \E ch \in Chan : known'[u][ch] = "old"

\* u is told what there is, or shows what it did.
Right(u) == known'[u] = View(u)' \/ (known'[u] = known[u] /\ View(u)' = View(u))

\* What becomes of u when u is not told.
LEMMA RightWhenKept ==
    ASSUME TypeOK, NEW u \in Uid, SameRights(u), UNCHANGED <<type, parent>>,
           \A ch \in Chan : SameRules(u, ch), known'[u] = known[u]
    PROVE  Right(u)
  BY ViewKept DEF Right

LEMMA RightWhenRemoved ==
    ASSUME TypeOK, NEW u \in Uid, u \in online', NEW gone \in SUBSET Chan,
           NEW linked \in BOOLEAN, Removed(gone, linked), known[u] = View(u),
           \A ch \in Tree!Exists : ch \in gone => ~ \E d \in Tree!Exists : parent[d] = ch
    PROVE  known'[u] = View(u)'
<1>1. CASE linked
  BY <1>1, Synced DEF Removed, Forget, Everybody
<1>2. CASE ~linked
  <2>1. /\ known'[u] = [ch \in Chan |-> IF ch \in gone THEN "hidden" ELSE known[u][ch]]
        /\ type' = [ch \in Chan |-> IF ch \in gone THEN "none" ELSE type[ch]]
        /\ parent' = [ch \in Chan |-> IF ch \in gone THEN Root ELSE parent[ch]]
        /\ \A ch \in Chan \ gone : rule'[ch] = rule[ch] /\ req'[ch] = req[ch]
    BY <1>2 DEF Removed, Forget
  <2>2. SameRights(u)
    BY <1>2 DEF Removed, SameRights, groupVars, grantVars, sessionVars, Roles!groupIdsForUid,
       Roles!withBase
  <2>3. Tree!Exists \subseteq Chan /\ Tree!Exists' = Tree!Exists \ gone
    BY <2>1 DEF Tree!Exists, Tree!Chan, Chan
  <2>4. ASSUME NEW ch \in Chan \ gone PROVE View(u)'[ch] = View(u)[ch]
    <3>1. ch \in Tree!Exists' <=> ch \in Tree!Exists
      BY <2>3
    <3>2. ASSUME ch \in Tree!Exists PROVE Tree!Above(ch)' = Tree!Above(ch)
      <4>1. \A x \in Tree!Exists : parent[x] \notin Tree!Exists \cap gone
        OBVIOUS
      <4>2. \A x \in Tree!Exists \ gone : parent'[x] = parent[x]
        BY <2>1, <2>3
      <4>3. Ancestors(Tree!Exists \ gone, parent', ch) = Ancestors(Tree!Exists, parent, ch)
        BY <3>2, <4>1, <4>2, AncestorsWithoutLeaves
      <4>4. QED
        BY <2>3, <4>3, AboveIs, AboveIsNext
    <3>3. ASSUME ch \in Tree!Exists, NEW q \in Tree!Above(ch) PROVE SameRules(u, q)
      <4>1. q \in Ancestors(Tree!Exists', parent', ch)
        BY <3>2, <3>3, AboveIsNext
      <4>2. q \in Chan \ gone
        BY <2>3, <4>1 DEF Ancestors
      <4>3. QED
        BY <2>1, <4>2 DEF SameRules
    <3>4. QED
      BY <2>2, <3>1, <3>2, <3>3, ChannelKept
  <2>5. ASSUME NEW ch \in gone PROVE View(u)'[ch] = "hidden"
    <3>1. ~ canViewChannel(u, ch)'
      BY <2>3 DEF canViewChannel
    <3>2. QED
      BY <3>1 DEF View
  <2>6. \A ch \in Chan : known'[u][ch] = View(u)'[ch]
    BY <2>1, <2>4, <2>5
  <2>7. known'[u] = [ch \in Chan |-> known'[u][ch]] /\ View(u)' = [ch \in Chan |-> View(u)'[ch]]
    BY <2>1 DEF View
  <2>8. QED
    BY <2>6, <2>7
<1>3. QED
  BY <1>1, <1>2

LEMMA TreeStaleStep ==
    ASSUME TypeOK, [Next]_vars, NEW u \in Uid, u \in online, u \in online', known[u] = View(u)
    PROVE  Right(u) \/ Excused(u)
<1> DEFINE Goal == Right(u) \/ Excused(u)
<1> SUFFICES Goal
  OBVIOUS
\* u is told, or is not among those who are.
<1>1. ASSUME NEW S \in SUBSET Uid, syncChannelVisibility(S), u \in S PROVE Goal
  BY <1>1, Synced DEF Right
<1>2. ASSUME syncChannelVisibility(Everybody) PROVE Goal
  BY <1>1, <1>2 DEF Everybody
<1>3. ASSUME NEW S \in SUBSET Uid, syncChannelVisibility(S), u \notin S PROVE known'[u] = known[u]
  BY <1>3, Synced
<1>4. ASSUME UNCHANGED <<groupVars, grantVars, sessionVars, rule, req, type, parent, known>> PROVE Goal
  <2>1. SameRights(u) /\ \A ch \in Chan : SameRules(u, ch)
    BY <1>4 DEF SameRights, SameRules, groupVars, grantVars, sessionVars, Roles!groupIdsForUid,
       Roles!withBase
  <2>2. QED
    BY <1>4, <2>1, RightWhenKept
<1>5. ASSUME NEW S \in SUBSET Uid, applyGroup(S), u \notin S,
             UNCHANGED <<privilegedUids, type, parent, rule>>,
             Roles!groupIdsForUid(u)' = Roles!groupIdsForUid(u),
             \A g \in Roles!groupIdsForUid(u) :
                 /\ g \in groups' <=> g \in groups
                 /\ \A ch \in Chan : req'[ch][g] = req[ch][g]
      PROVE  Goal
  <2>1. groupId'[u] = groupId[u] /\ UNCHANGED <<online, adminAuthenticated>> /\ known'[u] = known[u]
    BY <1>3, <1>5, Applied
  <2>2. SameRights(u)
    BY <1>5, <2>1 DEF SameRights
  <2>3. \A ch \in Chan : SameRules(u, ch)
    BY <1>5 DEF SameRules
  <2>4. QED
    BY <1>5, <2>1, <2>2, <2>3, RightWhenKept
<1>6. ASSUME NEW S \in SUBSET Uid, applyGroup(S), u \in S PROVE Goal
  BY <1>1, <1>6, Applied
<1>7. Roles!groupIdsForUid(u) \subseteq Group
  BY BuiltInIs DEF TypeOK, Roles!groupIdsForUid, Roles!withBase
\* Sessions
<1>8. ASSUME NEW v \in Uid, NEW admin \in BOOLEAN, Hello(v, admin) PROVE Goal
  <2>1. CASE u = v
    BY <1>1, <1>8, <2>1 DEF Hello
  <2>2. CASE u # v
    <3>1. /\ known'[u] = known[u] /\ groupId'[u] = groupId[u]
          /\ u \in adminAuthenticated' <=> u \in adminAuthenticated
          /\ UNCHANGED <<groupVars, grantVars, treeVars, ruleVars>>
      BY <1>3, <1>8, <2>2 DEF Hello, TypeOK
    <3>2. SameRights(u) /\ \A ch \in Chan : SameRules(u, ch)
      BY <3>1 DEF SameRights, SameRules, groupVars, grantVars, ruleVars, Roles!groupIdsForUid,
         Roles!withBase
    <3>3. QED
      BY <3>1, <3>2, RightWhenKept DEF treeVars
  <2>3. QED
    BY <2>1, <2>2
<1>9. ASSUME NEW v \in Uid, Leave(v) PROVE Goal
  <2>1. /\ u # v /\ known'[u] = known[u] /\ groupId'[u] = groupId[u]
        /\ u \in adminAuthenticated' <=> u \in adminAuthenticated
        /\ UNCHANGED <<groupVars, grantVars, treeVars, ruleVars>>
    BY <1>9 DEF Leave, TypeOK
  <2>2. SameRights(u) /\ \A ch \in Chan : SameRules(u, ch)
    BY <2>1 DEF SameRights, SameRules, groupVars, grantVars, ruleVars, Roles!groupIdsForUid,
       Roles!withBase
  <2>3. QED
    BY <2>1, <2>2, RightWhenKept DEF treeVars
<1>10. ASSUME NEW v \in Uid, Privkey(v) PROVE Goal
  <2>1. CASE u = v
    BY <1>1, <1>10, <2>1 DEF Privkey
  <2>2. CASE u # v
    <3>1. /\ known'[u] = known[u] /\ (u \in privilegedUids' <=> u \in privilegedUids)
          /\ UNCHANGED <<groupVars, assignByUid, sessionVars, treeVars, ruleVars>>
      BY <1>3, <1>10, <2>2 DEF Privkey
    <3>2. SameRights(u) /\ \A ch \in Chan : SameRules(u, ch)
      BY <3>1 DEF SameRights, SameRules, groupVars, sessionVars, ruleVars, Roles!groupIdsForUid,
         Roles!withBase
    <3>3. QED
      BY <3>1, <3>2, RightWhenKept DEF treeVars
  <2>3. QED
    BY <2>1, <2>2
\* Roles
<1>11. CASE GroupCreate
  <2>1. CASE UNCHANGED <<groups, req, sessionVars, known>>
    <3>1. SameRights(u) /\ \A ch \in Chan : SameRules(u, ch)
      BY <1>11, <2>1 DEF GroupCreate, SameRights, SameRules, grantVars, sessionVars,
         Roles!groupIdsForUid, Roles!withBase
    <3>2. QED
      BY <1>11, <2>1, <3>1, RightWhenKept DEF GroupCreate, treeVars
  <2>2. CASE /\ groups' = groups \cup {nextGroup}
             /\ Reposition({nextGroup})
             /\ applyGroup(Roles!Touched({nextGroup}))
    <3>1. Roles!Touched({nextGroup}) \in SUBSET Uid
      BY DEF TypeOK, Roles!Touched
    <3>2. CASE u \in Roles!Touched({nextGroup})
      BY <1>6, <2>2, <3>1, <3>2
    <3>3. CASE u \notin Roles!Touched({nextGroup})
      <4>1. nextGroup \notin Roles!groupIdsForUid(u)
        BY <3>3 DEF Roles!Touched
      <4>2. {nextGroup} \in SUBSET Group
        BY <1>11 DEF GroupCreate
      <4>3. \A g \in Roles!groupIdsForUid(u) :
               (g \in groups' <=> g \in groups) /\ \A ch \in Chan : req'[ch][g] = req[ch][g]
        BY <1>7, <2>2, <4>1, <4>2, Repositioned
      <4>4. Roles!groupIdsForUid(u)' = Roles!groupIdsForUid(u)
        BY <1>11 DEF GroupCreate, grantVars, Roles!groupIdsForUid, Roles!withBase
      <4>5. UNCHANGED <<privilegedUids, type, parent, rule>>
        BY <1>11 DEF GroupCreate, grantVars, treeVars
      <4>6. QED
        BY <1>5, <2>2, <3>1, <3>3, <4>3, <4>4, <4>5
    <3>4. QED
      BY <3>2, <3>3
  <2>3. QED
    BY <1>11, <2>1, <2>2 DEF GroupCreate
<1>12. ASSUME NEW G \in SUBSET Group, GroupEdit(G) PROVE Goal
  <2>1. Roles!Touched(G) \in SUBSET Uid
    BY DEF TypeOK, Roles!Touched
  <2>2. CASE u \in Roles!Touched(G)
    BY <1>6, <1>12, <2>1, <2>2 DEF GroupEdit
  <2>3. CASE u \notin Roles!Touched(G)
    <3>1. \A g \in Roles!groupIdsForUid(u) : g \notin G
      BY <2>3 DEF Roles!Touched
    <3>2. \A g \in Roles!groupIdsForUid(u) :
             (g \in groups' <=> g \in groups) /\ \A ch \in Chan : req'[ch][g] = req[ch][g]
      BY <1>7, <1>12, <3>1, Repositioned DEF GroupEdit, groupVars
    <3>3. Roles!groupIdsForUid(u)' = Roles!groupIdsForUid(u)
      BY <1>12 DEF GroupEdit, grantVars, Roles!groupIdsForUid, Roles!withBase
    <3>4. UNCHANGED <<privilegedUids, type, parent, rule>>
      BY <1>12 DEF GroupEdit, grantVars, treeVars
    <3>5. QED
      BY <1>5, <1>12, <2>1, <2>3, <3>2, <3>3, <3>4 DEF GroupEdit
  <2>4. QED
    BY <2>2, <2>3
<1>13. ASSUME NEW g \in Group, GroupDelete(g) PROVE Goal
  <2> DEFINE S == {v \in online : groupId[v] = g}
  <2>1. S \in SUBSET Uid
    BY DEF TypeOK
  <2>2. CASE u \in S
    BY <1>6, <1>13, <2>1, <2>2 DEF GroupDelete
  <2>3. CASE groupId[u] # g /\ g \in Roles!groupIdsForUid(u)
    <3>1. g \in groups \ groups'
      BY <1>13 DEF GroupDelete
    <3>2. QED
      BY <2>3, <3>1 DEF Excused
  <2>4. CASE groupId[u] # g /\ g \notin Roles!groupIdsForUid(u)
    <3>1. assignByUid'[u] = assignByUid[u]
      BY <1>13, <2>4 DEF GroupDelete, Roles!Without, Roles!orNormal, Roles!groupIdsForUid,
         Roles!withBase
    <3>2. Roles!groupIdsForUid(u)' = Roles!groupIdsForUid(u)
      BY <3>1 DEF Roles!groupIdsForUid, Roles!withBase
    <3>3. \A h \in Roles!groupIdsForUid(u) :
             (h \in groups' <=> h \in groups) /\ \A ch \in Chan : req'[ch][h] = req[ch][h]
      BY <1>13, <2>4 DEF GroupDelete, ruleVars
    <3>4. UNCHANGED <<privilegedUids, type, parent, rule>>
      BY <1>13 DEF GroupDelete, treeVars, ruleVars
    <3>5. QED
      BY <1>5, <1>13, <2>1, <2>4, <3>2, <3>3, <3>4 DEF GroupDelete
  <2>5. QED
    BY <2>2, <2>3, <2>4
<1>14. ASSUME NEW g \in Group, NEW v \in Uid, NEW byUid \in BOOLEAN, NEW op \in {"add", "remove"},
              byUid /\ v \in online => ByUid, ClientSetGroup(g, v, byUid, op)
       PROVE  Goal
  <2> DEFINE S == IF byUid THEN {} ELSE {v}
  <2>1. S \in SUBSET Uid /\ applyGroup(S)
    BY <1>14 DEF ClientSetGroup
  <2>2. CASE u \in S
    BY <1>6, <2>1, <2>2
  <2>3. CASE u = v /\ assignByUid'[u] # assignByUid[u] /\ u \notin S
    BY <1>14, <2>3 DEF Excused
  <2>4. CASE u \notin S /\ (u # v \/ assignByUid'[u] = assignByUid[u])
    <3>1. assignByUid'[u] = assignByUid[u]
      BY <1>14, <2>4 DEF ClientSetGroup, TypeOK
    <3>2. Roles!groupIdsForUid(u)' = Roles!groupIdsForUid(u)
      BY <3>1 DEF Roles!groupIdsForUid, Roles!withBase
    <3>3. \A h \in Roles!groupIdsForUid(u) :
             (h \in groups' <=> h \in groups) /\ \A ch \in Chan : req'[ch][h] = req[ch][h]
      BY <1>14 DEF ClientSetGroup, ruleVars, groupVars
    <3>4. UNCHANGED <<privilegedUids, type, parent, rule>>
      BY <1>14 DEF ClientSetGroup, treeVars, ruleVars
    <3>5. QED
      BY <1>5, <2>1, <2>4, <3>2, <3>3, <3>4
  <2>5. QED
    BY <2>2, <2>3, <2>4
\* Channels
<1>15. ASSUME NEW kind \in {"temp", "kept"}, NEW r \in Rules, NEW p \in Chan \cup {Root},
              ChanCreate(kind, p, r)
       PROVE  Goal
  <2>1. CASE UNCHANGED <<type, parent, rule, known>>
    BY <1>4, <1>15, <2>1 DEF ChanCreate
  <2>2. CASE syncChannelVisibility(Everybody)
    BY <1>2, <2>2
  <2>3. QED
    BY <1>15, <2>1, <2>2 DEF ChanCreate
<1>16. ASSUME NEW ch \in Chan, ChanEditRefused(ch) PROVE Goal
  <2>1. CASE known[u][ch] = "current"
    <3>1. known'[u][ch] = "old"
      BY <1>16, <2>1 DEF ChanEditRefused, TypeOK
    <3>2. QED
      BY <3>1 DEF Excused
  <2>2. CASE known[u][ch] # "current"
    <3>1. known'[u] = known[u]
      BY <1>16, <2>2 DEF ChanEditRefused, TypeOK
    <3>2. SameRights(u) /\ \A d \in Chan : SameRules(u, d)
      BY <1>16 DEF ChanEditRefused, SameRights, SameRules, groupVars, grantVars, sessionVars,
         ruleVars, Roles!groupIdsForUid, Roles!withBase
    <3>3. QED
      BY <1>16, <3>1, <3>2, RightWhenKept DEF ChanEditRefused, treeVars
  <2>3. QED
    BY <2>1, <2>2
<1>17. ASSUME NEW gone \in SUBSET Chan, NEW linked \in BOOLEAN, Removed(gone, linked) PROVE Goal
  <2>1. CASE \A ch \in Tree!Exists : ch \in gone => ~ \E d \in Tree!Exists : parent[d] = ch
    BY <1>17, <2>1, RightWhenRemoved DEF Right
  <2>2. CASE \E ch \in Tree!Exists : ch \in gone /\ \E d \in Tree!Exists : parent[d] = ch
    <3>1. \A ch \in gone : type'[ch] = "none"
      BY <1>17 DEF Removed
    <3>2. QED
      BY <2>2, <3>1 DEF Excused
  <2>3. QED
    BY <2>1, <2>2
\* The console, and the rest
<1>18. ASSUME NEW g \in Group, Console, QuerySetPosition(g) PROVE Goal
  <2>1. CASE req' # req
    BY <1>18, <2>1 DEF QuerySetPosition, Excused
  <2>2. CASE req' = req
    BY <1>4, <1>18, <2>2 DEF QuerySetPosition, treeVars
  <2>3. QED
    BY <2>1, <2>2
<1>19. ~ Restart
  BY DEF Restart
<1>20. CASE UNCHANGED vars
  BY <1>4, <1>20 DEF vars, treeVars, ruleVars
<1> HIDE DEF Goal
<1>21. ASSUME RoleRequest PROVE Goal
  BY <1>11, <1>12, <1>13, <1>14, <1>21 DEF RoleRequest
<1>22. ASSUME ChanRequest PROVE Goal
  <2>1. ASSUME NEW id \in Chan, NEW p \in Chan \cup {Root}, ChanMove(id, p) PROVE Goal
    BY <1>2, <2>1 DEF ChanMove
  <2>2. ASSUME NEW ch \in Chan, NEW kind \in {"temp", "kept"}, NEW r \in Rules,
               ChanEdit(ch, kind, r)
        PROVE  Goal
    BY <1>2, <2>2 DEF ChanEdit
  <2>3. ASSUME NEW id \in Chan, NEW linked \in BOOLEAN, ChanDelete(id, linked) PROVE Goal
    BY <1>17, <2>3 DEF ChanDelete
  <2>4. QED
    BY <1>15, <1>16, <1>22, <2>1, <2>2, <2>3 DEF ChanRequest
<1>23. ASSUME QueryRequest PROVE Goal
  <2>1. ASSUME NEW g \in Ruled, NEW ch \in Chan, NEW s \in {Allow, Deny, Inherit},
               QuerySetPerm(ch, g, s)
        PROVE  Goal
    BY <1>2, <2>1 DEF QuerySetPerm
  <2>2. ASSUME NEW g \in Ruled, NEW ch \in Chan, NEW r \in {"none", "met", "low"},
               QuerySetReq(ch, g, r)
        PROVE  Goal
    BY <1>2, <2>2 DEF QuerySetReq
  <2>3. QED
    BY <1>18, <1>23, <2>1, <2>2 DEF QueryRequest
<1>24. ASSUME NEW gone \in SUBSET Chan, NEW linked \in BOOLEAN, Cleanup(gone, linked) PROVE Goal
  BY <1>17, <1>24 DEF Cleanup
<1>25. QED
  BY <1>8, <1>9, <1>10, <1>19, <1>20, <1>21, <1>22, <1>23, <1>24 DEF Next

\* TreeStaleOnlyBy: a client is left with an old tree by the steps listed there,
\* and by no other.
THEOREM StaleTreesExplained == Spec => TreeStaleOnlyBy
<1>1. ASSUME TypeOK, [Next]_vars
      PROVE  [\A u \in online \cap online' : InSync(u) /\ ~InSync(u)' => Excused(u)]_vars
  <2> SUFFICES ASSUME NEW u \in online \cap online', InSync(u), ~InSync(u)'
               PROVE  Excused(u)
    OBVIOUS
  <2>1. u \in Uid
    BY <1>1 DEF TypeOK
  <2>2. known[u] = View(u) /\ known'[u] # View(u)'
    BY DEF InSync
  <2>3. QED
    BY <1>1, <2>1, <2>2, TreeStaleStep DEF Right
<1>2. QED
  BY <1>1, VisibilityTypes, PTL DEF Spec, TreeStaleOnlyBy, Excused

-----------------------------------------------------------------------------
(* New groups *)

\* Whatever groups there are have ids below the next one, and people hold no
\* others: not in the assignments, which outlive a restart, nor, those who are
\* online, as the group of their session.
HeldInv ==
    /\ TypeOK
    /\ \A g \in groups : g < nextGroup
    /\ \A u \in Uid : assignByUid[u] \subseteq groups
    /\ \A u \in online : groupId[u] \in groups

LEMMA HeldInit == Init => HeldInv
  BY TypeInit, BuiltInIs DEF Init, HeldInv

\* Steps that leave groups and assignments as they are.
LEMMA HeldKept ==
    ASSUME HeldInv, TypeOK', UNCHANGED <<groupVars, assignByUid>>,
           \A u \in online' : groupId'[u] \in groups
    PROVE  HeldInv'
  BY DEF HeldInv, groupVars

\* The primary group of a session is one that there is.
LEMMA PrimaryIsThere ==
    ASSUME HeldInv, NEW S \in SUBSET Uid, applyGroup(S),
           \A u \in online \ S : groupId[u] \in groups'
    PROVE  \A u \in online' : groupId'[u] \in groups'
<1>1. PICK top \in [S -> Group] :
         /\ \A u \in S : top[u] \in Roles!Primary(assignByUid[u])'
         /\ groupId' = [u \in Uid |-> IF u \in S THEN top[u] ELSE groupId[u]]
  BY DEF applyGroup
<1>2. online' = online /\ online \subseteq Uid
  BY DEF applyGroup, HeldInv, TypeOK
<1>3. \A u \in S : top[u] \in groups'
  BY <1>1 DEF Roles!Primary
<1>4. QED
  BY <1>1, <1>2, <1>3

LEMMA HeldStep == HeldInv /\ [Next]_vars => HeldInv'
<1> SUFFICES ASSUME HeldInv, [Next]_vars PROVE HeldInv'
  OBVIOUS
<1> USE BuiltInIs
<1>0. TypeOK /\ TypeOK'
  BY TypeStep DEF HeldInv
<1>1. ASSUME NEW u \in Uid, NEW admin \in BOOLEAN, Hello(u, admin) PROVE HeldInv'
  <2>1. PICK g \in Roles!Primary(assignByUid[u] \cup IF admin THEN {Roles!Admin} ELSE {}) :
           groupId' = [groupId EXCEPT ![u] = g]
    BY <1>1 DEF Hello
  <2>2. g \in groups
    BY <2>1 DEF Roles!Primary
  <2>3. online' = online \cup {u} /\ UNCHANGED <<groupVars, assignByUid>>
    BY <1>1 DEF Hello, grantVars
  <2>4. \A v \in online' : groupId'[v] \in groups
    BY <1>0, <2>1, <2>2, <2>3 DEF HeldInv, TypeOK
  <2>5. QED
    BY <1>0, <2>3, <2>4, HeldKept
<1>2. ASSUME NEW u \in Uid, Leave(u) \/ Privkey(u) PROVE HeldInv'
  <2>1. \A v \in online' : groupId'[v] \in groups
    BY <1>0, <1>2 DEF Leave, Privkey, sessionVars, HeldInv, TypeOK
  <2>2. QED
    BY <1>0, <1>2, <2>1, HeldKept DEF Leave, Privkey, grantVars
<1>3. CASE GroupCreate
  <2>1. nextGroup \in Nat /\ nextGroup' = nextGroup + 1 /\ UNCHANGED assignByUid
        /\ groups' \subseteq groups \cup {nextGroup} /\ groups \subseteq groups'
    BY <1>3 DEF GroupCreate, Group, grantVars
  <2>2. groups \subseteq Nat
    BY <1>0 DEF TypeOK, Group
  <2>3. \A u \in online' : groupId'[u] \in groups'
    <3>1. CASE applyGroup(Roles!Touched({nextGroup}))
      <4>1. Roles!Touched({nextGroup}) \in SUBSET Uid
        BY <1>0 DEF TypeOK, Roles!Touched
      <4>2. QED
        BY <2>1, <3>1, <4>1, PrimaryIsThere DEF HeldInv
    <3>2. CASE UNCHANGED sessionVars
      BY <2>1, <3>2 DEF sessionVars, HeldInv
    <3>3. QED
      BY <1>3, <3>1, <3>2 DEF GroupCreate
  <2>4. \A g \in groups' : g < nextGroup'
    BY <2>1, <2>2 DEF HeldInv
  <2>5. QED
    BY <1>0, <2>1, <2>3, <2>4 DEF HeldInv
<1>4. ASSUME NEW G \in SUBSET Group, GroupEdit(G) PROVE HeldInv'
  <2>1. Roles!Touched(G) \in SUBSET Uid /\ applyGroup(Roles!Touched(G))
        /\ UNCHANGED <<groupVars, assignByUid>>
    BY <1>0, <1>4 DEF TypeOK, Roles!Touched, GroupEdit, grantVars
  <2>2. \A u \in online' : groupId'[u] \in groups
    BY <2>1, PrimaryIsThere DEF HeldInv, groupVars
  <2>3. QED
    BY <1>0, <2>1, <2>2, HeldKept
<1>5. ASSUME NEW g \in Group, GroupDelete(g) PROVE HeldInv'
  <2> DEFINE S == {u \in online : groupId[u] = g}
  <2>1. /\ groups' = groups \ {g} /\ nextGroup' = nextGroup /\ g \notin Roles!BuiltIn
        /\ assignByUid' = Roles!Without(g) /\ applyGroup(S)
    BY <1>5 DEF GroupDelete
  <2>2. \A u \in Uid : assignByUid'[u] \subseteq groups'
    <3>1. 2 \in groups'
      BY <1>0, <2>1 DEF TypeOK
    <3>2. QED
      BY <1>0, <2>1, <3>1 DEF Roles!Without, Roles!orNormal, HeldInv, TypeOK
  <2>3. S \in SUBSET Uid /\ \A u \in online \ S : groupId[u] \in groups'
    BY <1>0, <2>1 DEF HeldInv, TypeOK
  <2>4. \A u \in online' : groupId'[u] \in groups'
    BY <2>1, <2>3, PrimaryIsThere
  <2>5. QED
    BY <1>0, <2>1, <2>2, <2>4 DEF HeldInv
<1>6. ASSUME NEW g \in Group, NEW u \in Uid, NEW byUid \in BOOLEAN, NEW op \in {"add", "remove"},
             ClientSetGroup(g, u, byUid, op)
      PROVE  HeldInv'
  <2> DEFINE S == IF byUid THEN {} ELSE {u}
  <2>1. g \in groups /\ 2 \in groups /\ UNCHANGED groupVars /\ S \in SUBSET Uid /\ applyGroup(S)
    BY <1>0, <1>6 DEF ClientSetGroup, TypeOK
  <2>2. \A v \in Uid : assignByUid'[v] \subseteq groups
    BY <1>0, <1>6, <2>1 DEF ClientSetGroup, Roles!orNormal, HeldInv, TypeOK
  <2>3. \A v \in online' : groupId'[v] \in groups
    BY <2>1, PrimaryIsThere DEF HeldInv, groupVars
  <2>4. QED
    BY <1>0, <2>1, <2>2, <2>3 DEF HeldInv, groupVars
<1>7. ASSUME UNCHANGED <<groupVars, grantVars, sessionVars>> PROVE HeldInv'
  BY <1>0, <1>7, HeldKept DEF grantVars, sessionVars, HeldInv
<1>8. ASSUME NEW kind \in {"temp", "kept"}, NEW r \in Rules, NEW p \in Chan \cup {Root},
             ChanCreate(kind, p, r)
      PROVE  HeldInv'
  BY <1>7, <1>8 DEF ChanCreate
<1>9. ASSUME NEW id \in Chan, NEW p \in Chan \cup {Root}, ChanMove(id, p) PROVE HeldInv'
  BY <1>7, <1>9 DEF ChanMove
<1>10. ASSUME NEW ch \in Chan,
              ChanEditRefused(ch) \/ \E kind \in {"temp", "kept"}, r \in Rules : ChanEdit(ch, kind, r)
       PROVE  HeldInv'
  BY <1>7, <1>10 DEF ChanEdit, ChanEditRefused
<1>11. ASSUME NEW gone \in SUBSET Chan, NEW linked \in BOOLEAN,
              Cleanup(gone, linked) \/ \E id \in Chan : ChanDelete(id, linked)
       PROVE  HeldInv'
  BY <1>7, <1>11 DEF Cleanup, ChanDelete, Removed
<1>12. CASE QueryRequest
  BY <1>7, <1>12 DEF QueryRequest, QuerySetPosition, QuerySetPerm, QuerySetReq
<1>13. CASE Restart
  <2>1. nextGroup' = Roles!Greatest(groups) + 1 /\ online' = {} /\ UNCHANGED <<groups, assignByUid>>
    BY <1>13 DEF Restart, grantVars
  <2>2. groups \in SUBSET (1..MaxGroup) /\ groups # {} /\ MaxGroup \in Nat
    BY <1>0, VisibilityAssumption DEF TypeOK, Group
  <2>3. \E p \in groups : \A q \in groups : q <= p
    BY <2>2, GreatestIs
  <2>4. PICK p \in groups : p = Roles!Greatest(groups) /\ \A q \in groups : q <= p
    BY <2>3 DEF Roles!Greatest
  <2>5. \A g \in groups : g < nextGroup'
    <3>1. p \in Int /\ nextGroup' = p + 1 /\ \A q \in groups : q \in Int
      BY <2>1, <2>2, <2>4
    <3>2. QED
      BY <2>4, <3>1
  <2>6. QED
    BY <1>0, <2>1, <2>5 DEF HeldInv
<1>14. CASE UNCHANGED vars
  BY <1>7, <1>14 DEF vars
<1>15. QED
  <2>1. ASSUME RoleRequest PROVE HeldInv'
    BY <1>3, <1>4, <1>5, <1>6, <2>1 DEF RoleRequest
  <2>2. ASSUME ChanRequest PROVE HeldInv'
    BY <1>8, <1>9, <1>10, <1>11, <2>2 DEF ChanRequest
  <2>3. QED
    BY <1>1, <1>2, <1>11, <1>12, <1>13, <1>14, <2>1, <2>2 DEF Next

\* NewGroupsChangeNoView: handleGroupDelete takes a group from everybody, online or
\* not, so that its id, given again after a restart, is nobody's; then the rules
\* that channels have for the id, from whatever time, change no view.
THEOREM NewGroupsAreUnseen == Spec => NewGroupsChangeNoView
<1>1. ASSUME HeldInv, [Next]_vars, NEW g \in groups' \ groups, NEW u \in Uid
      PROVE  g \notin Roles!groupIdsForUid(u)' /\ View(u)' = View(u)
  <2> USE BuiltInIs
  <2>0. TypeOK
    BY <1>1 DEF HeldInv
  <2>1. GroupCreate /\ g = nextGroup /\ groups' = groups \cup {nextGroup}
        /\ Reposition({nextGroup}) /\ applyGroup(Roles!Touched({nextGroup}))
    <3>1. GroupCreate
      BY <1>1, <2>0 DEF Next, RoleRequest, ChanRequest, QueryRequest, Hello, Leave,
         Privkey, GroupCreate, GroupEdit, GroupDelete, ClientSetGroup, ChanCreate, ChanMove, ChanEdit,
         ChanEditRefused, ChanDelete, Cleanup, Removed, QuerySetPosition, QuerySetPerm, QuerySetReq,
         Restart, vars, groupVars
    <3>2. QED
      BY <1>1, <3>1 DEF GroupCreate
  <2>2. UNCHANGED <<grantVars, treeVars, rule>> /\ nextGroup \in Group /\ nextGroup \notin groups
    BY <1>1, <2>1 DEF GroupCreate
  <2>3. \A v \in Uid : nextGroup \notin Roles!groupIdsForUid(v)
    BY <1>1, <2>0, <2>2 DEF HeldInv, TypeOK, Roles!groupIdsForUid, Roles!withBase
  <2>4. Roles!groupIdsForUid(u)' = Roles!groupIdsForUid(u)
    BY <2>2 DEF grantVars, Roles!groupIdsForUid, Roles!withBase
  <2>5. Roles!Touched({nextGroup}) = {}
    BY <1>1, <2>0, <2>2, <2>3 DEF Roles!Touched, HeldInv, TypeOK
  <2>6. groupId'[u] = groupId[u] /\ UNCHANGED adminAuthenticated
    BY <2>0, <2>1, <2>5, Applied
  <2>7. SameRights(u)
    BY <2>1, <2>2, <2>3, <2>4, <2>6 DEF SameRights, grantVars
  <2>8. Roles!groupIdsForUid(u) \subseteq Group
    BY <2>0 DEF TypeOK, Roles!groupIdsForUid, Roles!withBase
  <2>9. \A ch \in Chan : SameRules(u, ch)
    BY <2>0, <2>1, <2>2, <2>3, <2>8, Repositioned DEF SameRules
  <2>10. View(u)' = View(u)
    BY <2>0, <2>2, <2>7, <2>9, ViewKept DEF treeVars
  <2>11. QED
    BY <2>1, <2>3, <2>4, <2>10
<1>2. HeldInv /\ [Next]_vars =>
         [\A g \in groups' \ groups, u \in Uid :
             g \notin Roles!groupIdsForUid(u)' /\ View(u)' = View(u)]_vars
  BY <1>1
<1>3. QED
  BY <1>2, HeldInit, HeldStep, PTL DEF Spec, NewGroupsChangeNoView

-----------------------------------------------------------------------------
(* Visibility implements Channels *)

\* Channels again, with what is proved about it.
C == INSTANCE ChannelsProofs WITH
    linkedChannels <- [ch \in Chan |-> {}], tempChannelParent <- {},
    cache <- [ch \in Chan |-> {}], cacheIsOld <- TRUE

\* What the handlers of Visibility ask of the tree is what those of Channels do.
LEMMA SameTree ==
    /\ C!Exists = Tree!Exists
    /\ \A id \in Chan, p \in Chan \cup {Root} : C!Fits(id, p) <=> Tree!Fits(id, p)
    /\ \A saved : C!FirstFree(saved) = Tree!FirstFree(saved)
<1>1. C!Exists = Tree!Exists /\ C!Root = Tree!Root
  BY DEF C!Exists, Tree!Exists, C!Chan, Tree!Chan, C!Root, Tree!Root
<1>2. \A p \in Chan : C!Above(p) = Tree!Above(p)
  BY <1>1 DEF C!Above, Tree!Above
<1>3. \A id \in Chan, p \in Chan \cup {Root} : C!Fits(id, p) <=> Tree!Fits(id, p)
  BY <1>1, <1>2 DEF C!Fits, Tree!Fits, Tree!Root, Root
<1>4. \A saved : C!FirstFree(saved) = Tree!FirstFree(saved)
  BY DEF C!FirstFree, Tree!FirstFree, C!HighestSaved, Tree!HighestSaved
<1>5. QED
  BY <1>1, <1>3, <1>4

LEMMA TreeKept ==
    ASSUME UNCHANGED <<treeVars, restarts>>
    PROVE  UNCHANGED C!vars
  BY DEF treeVars, C!vars, C!treeVars, C!cacheVars

\* A new channel is made in the one that the request names.
LEMMA TreeCreates ==
    ASSUME NEW kind \in {"temp", "kept"}, NEW p \in Chan \cup {Root}, NEW r \in Rules,
           ChanCreate(kind, p, r)
    PROVE  C!Next
<1>1. C!ParentFor(kind, p) = IF p \in Tree!Exists THEN p ELSE Root
  BY SameTree DEF C!ParentFor, C!Root, Root
<1>2. \/ type' = [type EXCEPT ![nextChan] = kind] /\ parent' = [parent EXCEPT ![nextChan] = C!ParentFor(kind, p)]
      \/ UNCHANGED <<type, parent>>
  BY <1>1 DEF ChanCreate
<1>3. C!ChanCreate(kind, p, FALSE)
  BY <1>2 DEF ChanCreate, C!ChanCreate, C!Chan, Chan, C!bumpChannelTopology, C!cacheVars
<1>4. QED
  BY <1>3 DEF C!Next, C!Request, C!Chan, Chan, C!Root, Root

LEMMA TreeRemoves ==
    ASSUME NEW gone \in SUBSET Chan, NEW linked \in BOOLEAN, Removed(gone, linked)
    PROVE  C!Removed(gone)
  BY DEF Removed, C!Removed, C!bumpChannelTopology, C!Chan, Chan, C!Root, Root

LEMMA TreeStep == TypeOK /\ [Next]_vars => C!Next \/ UNCHANGED C!vars
<1> SUFFICES ASSUME TypeOK, [Next]_vars PROVE C!Next \/ UNCHANGED C!vars
  OBVIOUS
<1>0. C!Chan = Chan /\ C!Root = Root /\ C!Lobby = Lobby /\ type[Lobby] = "kept"
  BY DEF C!Chan, Chan, C!Root, Root, C!Lobby, Lobby, TypeOK
<1>1. ASSUME NEW u \in Uid, Leave(u) \/ Privkey(u) \/ \E admin \in BOOLEAN : Hello(u, admin)
      PROVE  UNCHANGED C!vars
  BY <1>1, TreeKept DEF Leave, Privkey, Hello
<1>2. CASE RoleRequest
  BY <1>2, TreeKept DEF RoleRequest, GroupCreate, GroupEdit, GroupDelete, ClientSetGroup
<1>3. CASE QueryRequest
  BY <1>3, TreeKept DEF QueryRequest, QuerySetPosition, QuerySetPerm, QuerySetReq
<1>4. ASSUME NEW kind \in {"temp", "kept"}, NEW r \in Rules, NEW ch \in Chan, ChanEdit(ch, kind, r)
      PROVE  C!Next
  <2>1. C!ChanEdit(ch, kind, FALSE)
    BY <1>0, <1>4, SameTree DEF ChanEdit, C!ChanEdit, C!cacheVars
  <2>2. QED
    BY <1>0, <2>1 DEF C!Next, C!Request
<1>5. ASSUME NEW id \in Chan, NEW p \in Chan \cup {Root}, ChanMove(id, p) PROVE C!Next
  <2>1. C!ChanMove(id, p)
    BY <1>0, <1>5, SameTree DEF ChanMove, C!ChanMove, C!cacheVars
  <2>2. QED
    BY <1>0, <2>1 DEF C!Next, C!Request
<1>6. ASSUME NEW ch \in Chan, ChanEditRefused(ch) PROVE UNCHANGED C!vars
  BY <1>6, TreeKept DEF ChanEditRefused
<1>7. ASSUME NEW id \in Chan, NEW linked \in BOOLEAN, ChanDelete(id, linked) PROVE C!Next
  <2>1. C!ChanDelete(id)
    BY <1>0, <1>7, SameTree, TreeRemoves DEF ChanDelete, C!ChanDelete
  <2>2. QED
    BY <1>0, <2>1 DEF C!Next, C!Request
<1>8. ASSUME NEW gone \in SUBSET Chan, NEW linked \in BOOLEAN, Cleanup(gone, linked) PROVE C!Next
  <2>1. C!Cleanup(gone)
    BY <1>8, TreeRemoves DEF Cleanup, C!Cleanup
  <2>2. QED
    BY <1>0, <2>1 DEF C!Next
<1>9. CASE Restart
  <2>1. C!Restart
    BY <1>0, <1>9, SameTree DEF Restart, C!Restart
  <2>2. QED
    BY <2>1 DEF C!Next
<1>10. CASE UNCHANGED vars
  BY <1>10, TreeKept DEF vars
<1>11. QED
  BY <1>1, <1>2, <1>3, <1>4, <1>5, <1>6, <1>7, <1>8, <1>9, <1>10, TreeCreates DEF Next, ChanRequest

\* The channels that Visibility shows are those of Channels, step by step, its
\* voice components aside: what is proved of the tree there holds here.
THEOREM VisibilityImplementsChannels == Spec => C!Spec
<1>1. Init => C!Init
  BY DEF Init, C!Init, C!Chan, Chan, C!Lobby, Lobby, C!Root, Root
<1>2. TypeOK /\ [Next]_vars => [C!Next]_(C!vars)
  BY TreeStep
<1>3. QED
  BY <1>1, <1>2, VisibilityTypes, PTL DEF Spec, C!Spec

\* What canViewChannel and handleChanMove walk is a tree here as well: until the
\* first restart no channel is above itself.
THEOREM ViewWalksATree == Spec => [](restarts = 0 => Tree!Acyclic)
<1>1. C!Spec => []C!AcyclicUntilRestart
  <2>1. MaxChan \in Nat \ {0} /\ MaxRestarts \in Nat
    BY VisibilityAssumption
  <2>2. QED
    BY <2>1, C!TreeStaysATree
<1>2. C!AcyclicUntilRestart => (restarts = 0 => Tree!Acyclic)
  BY SameTree DEF C!AcyclicUntilRestart, C!Acyclic, Tree!Acyclic
<1>3. QED
  BY <1>1, <1>2, VisibilityImplementsChannels, PTL

\* A channel is shown with all that is above it, not only with the one it is in:
\* a client can place every channel that it shows, up to the top.
THEOREM ShownUpToTheTop ==
    Spec => [](\A u \in online, ch \in Tree!Exists :
                  known[u][ch] # "hidden" => \A q \in Tree!Above(ch) : known[u][q] # "hidden")
<1>1. ASSUME TypeOK, TreeIsWhole, NEW u \in online, NEW ch \in Tree!Exists, known[u][ch] # "hidden",
             NEW q \in Tree!Above(ch)
      PROVE  known[u][q] # "hidden"
  <2> DEFINE shown == {d \in Tree!Exists : known[u][d] # "hidden"}
  <2>1. ch \in shown /\ shown \in SUBSET Tree!Exists
    BY <1>1
  <2>2. \A d \in shown : parent[d] \notin Tree!Exists \ shown
    BY <1>1 DEF TreeIsWhole
  <2>3. q \in shown
    BY <2>1, <2>2 DEF Tree!Above
  <2>4. QED
    BY <2>3
<1>2. TypeOK /\ TreeIsWhole =>
         \A u \in online, ch \in Tree!Exists :
            known[u][ch] # "hidden" => \A q \in Tree!Above(ch) : known[u][q] # "hidden"
  BY <1>1
<1>3. QED
  BY <1>2, VisibilityTypes, ShownTreesAreWhole, PTL

=============================================================================
