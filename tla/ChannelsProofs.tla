-------------------------- MODULE ChannelsProofs --------------------------
(***************************************************************************)
(* Theorems about Channels, for every number of channels and restarts.     *)
(***************************************************************************)
EXTENDS Channels, WellFoundedInduction, TLAPS

-----------------------------------------------------------------------------
(* Type correctness *)

\* The default channel is always there, a channel that does not exist has no
\* links, and ids are handed out above those in use.
Ids == /\ type[Lobby] = "kept"
       /\ \A ch \in Chan : type[ch] = "none" => linkedChannels[ch] = {}
       /\ \A ch \in Exists : ch < nextChan

TypeInv == TypeOK /\ Ids

\* The saved ids have a greatest one, and the next id is above all of them.
LEMMA FirstFreeAbove ==
    ASSUME NEW saved \in SUBSET Chan, Lobby \in saved
    PROVE  /\ FirstFree(saved) \in 2..MaxChan + 1
           /\ \A ch \in saved : ch < FirstFree(saved)
<1>1. \E ch \in saved : \A d \in saved : d <= ch
  <2> DEFINE down == {n \in Nat : \E ch \in saved : n = MaxChan - ch}
  <2>1. MaxChan - Lobby \in down
    BY ChannelsAssumption DEF Lobby
  <2>2. PICK n \in down : \A m \in down : n <= m
    <3> DEFINE less == OpToRel(<, Nat)
    <3>1. \A i, j \in Nat : i < j => <<i, j>> \in less
      BY DEF OpToRel
    <3>2. IsWellFoundedOn(less, Nat) /\ down \subseteq Nat /\ down # {}
      BY <2>1, NatLessThanWellFounded
    <3> HIDE DEF less, down
    <3>3. PICK n \in down : \A m \in down : ~ (<<m, n>> \in less)
      BY <3>2, WFMin
    <3>4. ASSUME NEW m \in down PROVE ~ (m < n) /\ m \in Nat /\ n \in Nat
      BY <3>1, <3>2, <3>3
    <3>5. \A m \in down : n <= m
      BY <3>4
    <3>6. QED
      BY <3>5
  <2>3. PICK ch \in saved : n = MaxChan - ch
    BY <2>2
  <2>4. \A d \in saved : MaxChan - d \in down
    BY ChannelsAssumption DEF Chan
  <2> HIDE DEF down
  <2>5. \A d \in saved : d <= ch
    BY <2>2, <2>3, <2>4, ChannelsAssumption DEF Chan
  <2>6. QED
    BY <2>5
<1>2. HighestSaved(saved) \in saved /\ \A d \in saved : d <= HighestSaved(saved)
  BY <1>1 DEF HighestSaved
<1>3. /\ HighestSaved(saved) \in 1..MaxChan
      /\ \A ch \in saved : ch \in 1..MaxChan /\ ch <= HighestSaved(saved)
  BY <1>2 DEF Chan
<1>4. QED
  BY <1>3, ChannelsAssumption DEF FirstFree

LEMMA TypeInit == Init => TypeInv
  BY ChannelsAssumption DEF Init, TypeInv, TypeOK, Ids, Exists, Chan, Lobby, Root

LEMMA TypeCreate ==
    ASSUME TypeInv, NEW kind \in {"temp", "kept"}, NEW p \in Chan \cup {Root},
           NEW designated \in BOOLEAN, ChanCreate(kind, p, designated)
    PROVE  TypeInv'
<1>1. /\ nextChan \in Chan /\ nextChan' = nextChan + 1
      /\ nextChan # Lobby /\ nextChan' \in 2..MaxChan + 1
      /\ UNCHANGED <<linkedChannels, restarts>>
  BY ChannelsAssumption DEF ChanCreate, Chan, Lobby, TypeInv, TypeOK
<1>2. CASE UNCHANGED <<type, parent, tempChannelParent, cacheVars>>
  BY <1>1, <1>2 DEF TypeInv, TypeOK, Ids, Exists, cacheVars, Chan
<1>3. CASE /\ type' = [type EXCEPT ![nextChan] = kind]
           /\ parent' = [parent EXCEPT ![nextChan] = ParentFor(kind, p)]
           /\ tempChannelParent' = IF designated /\ kind # "temp" THEN {nextChan}
                                   ELSE tempChannelParent
           /\ bumpChannelTopology
  <2>1. ParentFor(kind, p) \in Chan \cup {Root}
    BY DEF ParentFor, Exists
  <2>2. TypeOK'
    BY <1>1, <1>3, <2>1 DEF TypeInv, TypeOK, bumpChannelTopology
  <2>3. Ids'
    BY <1>1, <1>3 DEF TypeInv, TypeOK, Ids, Exists, Chan
  <2>4. QED
    BY <2>2, <2>3 DEF TypeInv
<1>4. QED
  BY <1>2, <1>3 DEF ChanCreate

LEMMA TypeRemoved ==
    ASSUME TypeInv, NEW gone \in SUBSET Chan, Lobby \notin gone, Removed(gone)
    PROVE  TypeInv'
<1>1. TypeOK'
  BY DEF Removed, bumpChannelTopology, TypeInv, TypeOK, Root
<1>2. Ids'
  BY ChannelsAssumption DEF Removed, TypeInv, TypeOK, Ids, Exists, Chan, Lobby
<1>3. QED
  BY <1>1, <1>2 DEF TypeInv

LEMMA TypeRestart == TypeInv /\ Restart => TypeInv'
<1> SUFFICES ASSUME TypeInv, Restart PROVE TypeInv'
  OBVIOUS
<1> DEFINE saved == {ch \in Chan : type[ch] = "kept"}
<1>1. saved \in SUBSET Chan /\ Lobby \in saved
  BY ChannelsAssumption DEF TypeInv, Ids, Chan, Lobby
<1>2. /\ FirstFree(saved) \in 2..MaxChan + 1
      /\ \A ch \in saved : ch < FirstFree(saved)
  BY <1>1, FirstFreeAbove
<1>3. /\ restarts' \in 0..MaxRestarts
      /\ type' = [ch \in Chan |-> IF ch \in saved THEN "kept" ELSE "none"]
      /\ parent' = [ch \in Chan |-> IF ch \in saved THEN parent[ch] ELSE Root]
      /\ linkedChannels' = [ch \in Chan |-> IF ch \in saved THEN linkedChannels[ch] \ {ch}
                                            ELSE {}]
      /\ tempChannelParent' \in SUBSET Chan
      /\ nextChan' = FirstFree(saved)
      /\ cache' \in [Chan -> SUBSET Chan]
      /\ cacheIsOld' \in BOOLEAN
  BY ChannelsAssumption DEF Restart, TypeInv, TypeOK
<1> HIDE DEF saved
<1>4. TypeOK'
  BY <1>1, <1>2, <1>3 DEF TypeInv, TypeOK
<1>5. Ids'
  BY <1>1, <1>2, <1>3 DEF Ids, Exists
<1>6. QED
  BY <1>4, <1>5 DEF TypeInv

THEOREM TypeStep == TypeInv /\ [Next]_vars => TypeInv'
<1> SUFFICES ASSUME TypeInv, [Next]_vars PROVE TypeInv'
  OBVIOUS
<1>1. ASSUME NEW kind \in {"temp", "kept"}, NEW p \in Chan \cup {Root},
             NEW designated \in BOOLEAN, ChanCreate(kind, p, designated)
      PROVE  TypeInv'
  BY <1>1, TypeCreate
<1>2. ASSUME NEW kind \in {"temp", "kept"}, NEW ch \in Chan, NEW designated \in BOOLEAN,
             ChanEdit(ch, kind, designated)
      PROVE  TypeInv'
  BY <1>2 DEF ChanEdit, TypeInv, TypeOK, Ids, Exists, cacheVars
<1>3. ASSUME NEW id \in Chan, NEW p \in Chan \cup {Root}, ChanMove(id, p) PROVE TypeInv'
  BY <1>3 DEF ChanMove, TypeInv, TypeOK, Ids, Exists, cacheVars
<1>4. ASSUME NEW ids \in SUBSET Chan, NEW link \in BOOLEAN, ChanLink(ids, link) PROVE TypeInv'
  BY <1>4 DEF ChanLink, bumpChannelTopology, TypeInv, TypeOK, Ids, Exists
<1>5. ASSUME NEW id \in Chan, ChanDelete(id) PROVE TypeInv'
  <2>1. {id} \in SUBSET Chan /\ Lobby \notin {id} /\ Removed({id})
    BY <1>5 DEF ChanDelete
  <2>2. QED
    BY <2>1, TypeRemoved
<1>6. ASSUME NEW gone \in SUBSET Chan, Cleanup(gone) PROVE TypeInv'
  BY <1>6, TypeRemoved DEF Cleanup, TypeInv, Ids
<1>7. ASSUME NEW ch \in Chan, voiceComponentOf(ch) PROVE TypeInv'
  <2>1. Component(ch) \in SUBSET Chan
    BY DEF Component, Exists
  <2>2. cache' \in [Chan -> SUBSET Chan] /\ cacheIsOld' \in BOOLEAN
    BY <1>7, <2>1 DEF voiceComponentOf, TypeInv, TypeOK
  <2>3. QED
    BY <1>7, <2>2 DEF voiceComponentOf, treeVars, TypeInv, TypeOK, Ids, Exists
<1>8. CASE Restart
  BY <1>8, TypeRestart
<1>9. CASE UNCHANGED vars
  BY <1>9 DEF vars, treeVars, cacheVars, TypeInv, TypeOK, Ids, Exists
<1>10. QED
  BY <1>1, <1>2, <1>3, <1>4, <1>5, <1>6, <1>7, <1>8, <1>9 DEF Next, Request

\* Every variable keeps to its type, for any number of channels and restarts.
THEOREM ChannelTypes == Spec => []TypeOK
<1>1. Init => TypeInv
  BY TypeInit
<1>2. TypeInv /\ [Next]_vars => TypeInv'
  BY TypeStep
<1>3. TypeInv => TypeOK
  BY DEF TypeInv
<1>4. QED
  BY <1>1, <1>2, <1>3, PTL DEF Spec

-----------------------------------------------------------------------------
(* The one destination for temporary channels                               *)

LEMMA DestinationStep == TypeInv /\ OneDestination /\ [Next]_vars => OneDestination'
<1> SUFFICES ASSUME TypeInv, OneDestination, [Next]_vars PROVE OneDestination'
  OBVIOUS
<1>1. ASSUME NEW kind \in {"temp", "kept"}, NEW p \in Chan \cup {Root},
             NEW designated \in BOOLEAN, ChanCreate(kind, p, designated)
      PROVE  OneDestination'
  <2>1. type[nextChan] # "kept"
    BY <1>1 DEF ChanCreate, TypeInv, TypeOK, Ids, Exists, Chan
  <2>2. QED
    BY <1>1, <2>1 DEF ChanCreate, TypeInv, TypeOK, OneDestination
<1>2. ASSUME NEW kind \in {"temp", "kept"}, NEW ch \in Chan, NEW designated \in BOOLEAN,
             ChanEdit(ch, kind, designated)
      PROVE  OneDestination'
  BY <1>2 DEF ChanEdit, TypeInv, TypeOK, OneDestination
<1>3. ASSUME NEW gone \in SUBSET Chan, Removed(gone) PROVE OneDestination'
  BY <1>3 DEF Removed, TypeInv, TypeOK, OneDestination
<1>4. CASE Restart
  BY <1>4 DEF Restart, TypeInv, TypeOK, OneDestination, Chan
<1>5. CASE UNCHANGED <<type, tempChannelParent>>
  BY <1>5 DEF OneDestination
<1>6. QED
  BY <1>1, <1>2, <1>3, <1>4, <1>5 DEF Next, Request, ChanMove, ChanLink, ChanDelete, Cleanup,
     voiceComponentOf, vars, treeVars

\* At no time do two channels receive the temporary ones, nor does one that
\* will vanish itself.
THEOREM SingleDestination == Spec => []OneDestination
<1>1. Init => TypeInv /\ OneDestination
  BY TypeInit DEF Init, OneDestination
<1>2. (TypeInv /\ OneDestination) /\ [Next]_vars => (TypeInv /\ OneDestination)'
  BY TypeStep, DestinationStep
<1>3. QED
  BY <1>1, <1>2, PTL DEF Spec

-----------------------------------------------------------------------------
(* Links *)

LinkInv == restarts = 0 => LinksSymmetric

LEMMA LinkStep == TypeInv /\ LinkInv /\ [Next]_vars => LinkInv'
<1> SUFFICES ASSUME TypeInv, LinkInv, [Next]_vars, restarts' = 0 PROVE LinksSymmetric'
  BY DEF LinkInv
<1>1. restarts = 0 /\ ~Restart
  BY DEF Restart, Next, Request, ChanCreate, ChanEdit, ChanMove, ChanLink, ChanDelete, Cleanup,
     Removed, voiceComponentOf, vars, TypeInv, TypeOK
<1>2. LinksSymmetric
  BY <1>1 DEF LinkInv
<1>3. CASE linkedChannels' = linkedChannels /\ Exists' = Exists
  BY <1>2, <1>3 DEF LinksSymmetric
<1>4. ASSUME NEW kind \in {"temp", "kept"}, NEW p \in Chan \cup {Root},
             NEW designated \in BOOLEAN, ChanCreate(kind, p, designated)
      PROVE  LinksSymmetric'
  <2>1. /\ linkedChannels' = linkedChannels
        /\ nextChan \in Chan /\ nextChan \notin Exists
        /\ linkedChannels[nextChan] = {}
    BY <1>4 DEF ChanCreate, TypeInv, TypeOK, Ids, Exists, Chan
  <2>2. Exists' = Exists \cup {nextChan} \/ Exists' = Exists
    BY <1>4 DEF ChanCreate, TypeInv, TypeOK, Exists
  <2>3. QED
    BY <1>2, <2>1, <2>2 DEF LinksSymmetric
<1>5. ASSUME NEW ids \in SUBSET Chan, NEW link \in BOOLEAN, ChanLink(ids, link)
      PROVE  LinksSymmetric'
  <2>1. /\ ids \subseteq Exists
        /\ Exists' = Exists
        /\ linkedChannels' =
              [ch \in Chan |-> IF ch \notin ids THEN linkedChannels[ch]
                               ELSE IF link THEN linkedChannels[ch] \cup (ids \ {ch})
                               ELSE linkedChannels[ch] \ (ids \ {ch})]
    BY <1>5 DEF ChanLink, Exists
  <2> SUFFICES ASSUME NEW ch \in Exists, NEW d \in linkedChannels'[ch]
               PROVE  d \in Exists \ {ch} /\ ch \in linkedChannels'[d]
    BY <2>1 DEF LinksSymmetric
  <2>2. ch \in Chan /\ \A x \in Exists : x \in Chan
    BY DEF Exists
  <2>3. CASE ch \in ids /\ link /\ d \in ids \ {ch}
    BY <2>1, <2>2, <2>3
  <2>4. CASE d \in linkedChannels[ch] /\ ~(ch \in ids /\ ~link /\ d \in ids)
    <3>1. d \in Exists \ {ch} /\ ch \in linkedChannels[d]
      BY <1>2, <2>4 DEF LinksSymmetric
    <3>2. QED
      BY <2>1, <2>2, <2>4, <3>1
  <2>5. QED
    BY <1>2, <2>1, <2>2, <2>3, <2>4 DEF LinksSymmetric
<1>6. ASSUME NEW gone \in SUBSET Chan, Removed(gone) PROVE LinksSymmetric'
  <2>1. /\ Exists' = Exists \ gone
        /\ \A ch \in Exists' : linkedChannels'[ch] = linkedChannels[ch] \ gone
    BY <1>6 DEF Removed, Exists, TypeInv, TypeOK
  <2>2. QED
    BY <1>2, <2>1 DEF LinksSymmetric
<1>7. ASSUME NEW kind \in {"temp", "kept"}, NEW ch \in Chan, NEW designated \in BOOLEAN,
             ChanEdit(ch, kind, designated)
      PROVE  linkedChannels' = linkedChannels /\ Exists' = Exists
  BY <1>7 DEF ChanEdit, Exists, TypeInv, TypeOK
<1>8. CASE \/ \E id \in Chan, p \in Chan \cup {Root} : ChanMove(id, p)
           \/ \E ch \in Chan : voiceComponentOf(ch)
           \/ UNCHANGED vars
  BY <1>3, <1>8 DEF ChanMove, voiceComponentOf, vars, treeVars, Exists
<1>9. QED
  BY <1>1, <1>3, <1>4, <1>5, <1>6, <1>7, <1>8 DEF Next, Request, ChanDelete, Cleanup

\* Until the server restarts, links are known on both sides and lead to
\* channels that exist.
THEOREM LinksKnownToBoth == Spec => []SymmetricUntilRestart
<1>1. Init => TypeInv /\ LinkInv
  BY TypeInit DEF Init, LinkInv, LinksSymmetric, Exists
<1>2. (TypeInv /\ LinkInv) /\ [Next]_vars => (TypeInv /\ LinkInv)'
  BY TypeStep, LinkStep
<1>3. LinkInv => SymmetricUntilRestart
  BY DEF LinkInv, SymmetricUntilRestart
<1>4. QED
  BY <1>1, <1>2, <1>3, PTL DEF Spec

-----------------------------------------------------------------------------
(* Voice components                                                         *)

\* No link leaves S.
Isolated(S) == \A x \in S, y \in Exists \ S : ~Linked(x, y)

\* The component of ch is the least isolated set of channels that holds ch.
LEMMA ComponentIsLeast ==
    ASSUME NEW ch \in Exists
    PROVE  /\ ch \in Component(ch)
           /\ Component(ch) \in SUBSET Exists
           /\ Isolated(Component(ch))
           /\ \A S \in SUBSET Exists : ch \in S /\ Isolated(S) => Component(ch) \subseteq S
<1>1. \A d : d \in Component(ch) <=>
          d \in Exists /\ \A S \in SUBSET Exists : ch \in S /\ Isolated(S) => d \in S
  BY DEF Component, Isolated
<1>2. ch \in Component(ch) /\ Component(ch) \in SUBSET Exists
  BY <1>1
<1>3. Isolated(Component(ch))
  <2> SUFFICES ASSUME NEW x \in Component(ch), NEW y \in Exists \ Component(ch), Linked(x, y)
               PROVE  FALSE
    BY DEF Isolated
  <2>1. PICK S \in SUBSET Exists : ch \in S /\ Isolated(S) /\ y \notin S
    BY <1>1
  <2>2. x \in S
    BY <1>1, <2>1
  <2>3. QED
    BY <2>1, <2>2 DEF Isolated
<1>4. QED
  BY <1>1, <1>2, <1>3

\* Voice is mutual in every state in which channels exist, whatever the links.
LEMMA VoiceIsMutual == MutualVoice
<1> SUFFICES ASSUME NEW ch \in Exists, NEW d \in Component(ch)
             PROVE  Component(d) = Component(ch)
  BY DEF MutualVoice
<1> DEFINE there == Component(ch)
           back == Component(d)
<1>1. d \in Exists
  BY ComponentIsLeast
<1>2. /\ ch \in there /\ there \in SUBSET Exists /\ Isolated(there)
      /\ \A S \in SUBSET Exists : ch \in S /\ Isolated(S) => there \subseteq S
  BY ComponentIsLeast
<1>3. /\ d \in back /\ back \in SUBSET Exists /\ Isolated(back)
      /\ \A S \in SUBSET Exists : d \in S /\ Isolated(S) => back \subseteq S
  BY <1>1, ComponentIsLeast
<1> HIDE DEF there, back
<1>4. d \in there
  BY DEF there
<1>5. back \subseteq there
  BY <1>2, <1>3, <1>4
\* A link out of the difference would enter back, and links have no direction.
<1>6. Isolated(there \ back)
  BY <1>2, <1>3 DEF Isolated, Linked
<1>7. ch \in back
  <2>1. ch \notin back => there \subseteq there \ back
    BY <1>2, <1>6
  <2>2. QED
    BY <2>1, <1>3, <1>4
<1>8. there \subseteq back
  BY <1>2, <1>3, <1>7
<1>9. QED
  BY <1>5, <1>8 DEF there, back

\* Whoever is heard from a channel hears it, at any time.
THEOREM VoiceBothWays == Spec => []MutualVoice
  BY VoiceIsMutual, PTL

LEMMA ComponentUnchanged ==
    ASSUME NEW ch \in Exists, linkedChannels' = linkedChannels, Exists' = Exists
    PROVE  Component(ch)' = Component(ch)
  BY DEF Component, Linked

LEMMA CacheStep == TypeInv /\ CacheCurrent /\ [Next]_vars => CacheCurrent'
<1> SUFFICES ASSUME TypeInv, CacheCurrent, [Next]_vars PROVE CacheCurrent'
  OBVIOUS
<1>1. CASE cacheIsOld'
  BY <1>1 DEF CacheCurrent
<1>2. CASE UNCHANGED <<cache, cacheIsOld, linkedChannels>> /\ Exists' = Exists
  BY <1>2, ComponentUnchanged DEF CacheCurrent
<1>3. ASSUME NEW kind \in {"temp", "kept"}, NEW p \in Chan \cup {Root},
             NEW designated \in BOOLEAN, ChanCreate(kind, p, designated)
      PROVE  CacheCurrent'
  <2>1. CASE bumpChannelTopology
    BY <1>1, <2>1 DEF bumpChannelTopology
  <2>2. CASE UNCHANGED <<type, parent, tempChannelParent, cacheVars>>
    BY <1>2, <1>3, <2>2 DEF ChanCreate, Exists, cacheVars
  <2>3. QED
    BY <1>3, <2>1, <2>2 DEF ChanCreate
<1>4. ASSUME NEW kind \in {"temp", "kept"}, NEW ch \in Chan, NEW designated \in BOOLEAN,
             ChanEdit(ch, kind, designated)
      PROVE  CacheCurrent'
  <2>1. Exists' = Exists
    BY <1>4 DEF ChanEdit, Exists, TypeInv, TypeOK
  <2>2. QED
    BY <1>2, <1>4, <2>1 DEF ChanEdit, cacheVars
<1>5. ASSUME NEW ch \in Chan, voiceComponentOf(ch) PROVE CacheCurrent'
  <2> DEFINE valid == IF cacheIsOld THEN [d \in Chan |-> {}] ELSE cache
  <2>1. /\ ch \in Exists
        /\ cache' = IF valid[ch] # {} THEN valid ELSE [valid EXCEPT ![ch] = Component(ch)]
        /\ linkedChannels' = linkedChannels
        /\ Exists' = Exists
    BY <1>5 DEF voiceComponentOf, treeVars, Exists
  <2>2. \A d \in Chan : valid[d] # {} => d \in Exists /\ valid[d] = Component(d)
    BY DEF CacheCurrent
  <2>3. valid \in [Chan -> SUBSET Chan]
    BY DEF TypeInv, TypeOK
  <2> HIDE DEF valid
  <2>4. ASSUME NEW d \in Chan, cache'[d] # {} PROVE d \in Exists /\ cache'[d] = Component(d)
    BY <2>1, <2>2, <2>3, <2>4
  <2>5. QED
    BY <2>1, <2>4, ComponentUnchanged DEF CacheCurrent
<1>6. CASE \/ \E id \in Chan, p \in Chan \cup {Root} : ChanMove(id, p)
           \/ UNCHANGED vars
  BY <1>2, <1>6 DEF ChanMove, vars, treeVars, cacheVars, Exists
<1>7. CASE \/ \E ids \in SUBSET Chan, link \in BOOLEAN : ChanLink(ids, link)
           \/ \E id \in Chan : ChanDelete(id)
           \/ \E gone \in SUBSET Chan : Cleanup(gone)
           \/ Restart
  BY <1>1, <1>7 DEF ChanLink, ChanDelete, Cleanup, Removed, Restart, bumpChannelTopology
<1>8. QED
  BY <1>3, <1>4, <1>5, <1>6, <1>7 DEF Next, Request

\* What relayVoice reads from the cache is what the links say at that moment.
THEOREM CacheNeverStale == Spec => []CacheCurrent
<1>1. Init => TypeInv /\ CacheCurrent
  BY TypeInit DEF Init, CacheCurrent
<1>2. (TypeInv /\ CacheCurrent) /\ [Next]_vars => (TypeInv /\ CacheCurrent)'
  BY TypeStep, CacheStep
<1>3. QED
  BY <1>1, <1>2, PTL DEF Spec

-----------------------------------------------------------------------------
(* The tree                                                                 *)

\* A set of channels that no parent leaves, and the channels above p.
Upward(S) == \A x \in S : parent[x] \notin Exists \ S

LEMMA AboveIsUpward ==
    ASSUME NEW p \in Exists
    PROVE  p \in Above(p) /\ Above(p) \subseteq Exists /\ Upward(Above(p))
<1>1. \A q : q \in Above(p) <=>
          q \in Exists /\ \A S \in SUBSET Exists : p \in S /\ Upward(S) => q \in S
  BY DEF Above, Upward
<1>2. Upward(Above(p))
  <2> SUFFICES ASSUME NEW x \in Above(p), parent[x] \in Exists \ Above(p) PROVE FALSE
    BY DEF Upward
  <2>1. PICK S \in SUBSET Exists : p \in S /\ Upward(S) /\ parent[x] \notin S
    BY <1>1
  <2>2. QED
    BY <1>1, <2>1 DEF Upward
<1>3. QED
  BY <1>1, <1>2

\* A move that is allowed closes no cycle.
LEMMA MoveKeepsTree ==
    ASSUME TypeInv, Acyclic, NEW id \in Chan, NEW p \in Chan \cup {Root}, ChanMove(id, p)
    PROVE  Acyclic'
<1>1. /\ Exists' = Exists /\ Exists \subseteq Chan
      /\ parent' = [parent EXCEPT ![id] = p]
      /\ Fits(id, p)
  BY DEF ChanMove, Exists
<1> SUFFICES ASSUME NEW S \in SUBSET Exists, \A ch \in S : parent'[ch] \in S PROVE S = {}
  BY <1>1 DEF Acyclic
<1>2. CASE id \notin S
  <2>1. \A ch \in S : parent[ch] \in S
    BY <1>1, <1>2 DEF TypeInv, TypeOK
  <2>2. QED
    BY <2>1 DEF Acyclic
<1>3. CASE id \in S
  <2>1. p \in S
    BY <1>1, <1>3 DEF TypeInv, TypeOK
  <2>2. p \in Exists /\ p # Root
    BY <1>1, <2>1 DEF Chan, Root
  <2>3. id \notin Above(p)
    BY <1>1, <2>2 DEF Fits
  <2> DEFINE T == S \cap Above(p)
  <2>4. p \in T
    BY <2>1, <2>2, AboveIsUpward
  <2>5. ASSUME NEW x \in T PROVE parent[x] \in T
    <3>1. parent[x] = parent'[x] /\ parent[x] \in S
      BY <1>1, <2>3, <2>5 DEF TypeInv, TypeOK
    <3>2. parent[x] \in Above(p)
      BY <2>2, <3>1, AboveIsUpward DEF Upward
    <3>3. QED
      BY <3>1, <3>2
  <2>6. T = {}
    BY <2>5 DEF Acyclic
  <2>7. QED
    BY <2>4, <2>6
<1>4. QED
  BY <1>2, <1>3

\* A new channel closes a cycle only when another one already names its id.
LEMMA CreateKeepsTree ==
    ASSUME TypeInv, Acyclic, NEW kind \in {"temp", "kept"}, NEW p \in Chan \cup {Root},
           NEW designated \in BOOLEAN, ChanCreate(kind, p, designated),
           \A ch \in Exists : parent[ch] # nextChan
    PROVE  Acyclic'
<1>1. nextChan \in Chan /\ nextChan \notin Exists
  BY DEF ChanCreate, TypeInv, TypeOK, Ids, Chan
<1>2. CASE UNCHANGED <<type, parent, tempChannelParent, cacheVars>>
  BY <1>2 DEF Acyclic, Exists
<1>3. CASE /\ type' = [type EXCEPT ![nextChan] = kind]
           /\ parent' = [parent EXCEPT ![nextChan] = ParentFor(kind, p)]
  <2>1. ParentFor(kind, p) \in Exists \cup {Root}
    BY DEF ParentFor
  <2>2. /\ Exists' = Exists \cup {nextChan}
        /\ parent'[nextChan] # nextChan
        /\ \A ch \in Exists : parent'[ch] = parent[ch]
    BY <1>1, <1>3, <2>1 DEF Exists, TypeInv, TypeOK, Chan, Root
  <2> SUFFICES ASSUME NEW S \in SUBSET Exists', \A ch \in S : parent'[ch] \in S PROVE S = {}
    BY DEF Acyclic
  <2> DEFINE T == S \ {nextChan}
  <2>3. T \in SUBSET Exists /\ \A ch \in T : parent[ch] \in T
    BY <2>2
  <2>4. T = {}
    BY <2>3 DEF Acyclic
  <2>5. QED
    BY <2>2, <2>4
<1>4. QED
  BY <1>2, <1>3 DEF ChanCreate

\* Taking channels away closes no cycle.
LEMMA FewerKeepTree ==
    ASSUME Acyclic, Exists' \subseteq Exists, \A ch \in Exists' : parent'[ch] = parent[ch]
    PROVE  Acyclic'
  BY DEF Acyclic

LEMMA TreeStep ==
    ASSUME TypeInv, Acyclic, [Next]_vars, \A ch \in Exists : parent[ch] # nextChan
    PROVE  Acyclic'
<1>1. ASSUME NEW gone \in SUBSET Chan, Removed(gone) PROVE Acyclic'
  <2>1. Exists' \subseteq Exists /\ \A ch \in Exists' : parent'[ch] = parent[ch]
    BY <1>1 DEF Removed, Exists, TypeInv, TypeOK
  <2>2. QED
    BY <2>1, FewerKeepTree
<1>2. CASE Restart
  <2>1. Exists' \subseteq Exists /\ \A ch \in Exists' : parent'[ch] = parent[ch]
    BY <1>2 DEF Restart, Exists, TypeInv, TypeOK
  <2>2. QED
    BY <2>1, FewerKeepTree
<1>3. ASSUME NEW kind \in {"temp", "kept"}, NEW ch \in Chan, NEW designated \in BOOLEAN,
             ChanEdit(ch, kind, designated)
      PROVE  Acyclic'
  <2>1. Exists' \subseteq Exists /\ parent' = parent
    BY <1>3 DEF ChanEdit, Exists, TypeInv, TypeOK
  <2>2. QED
    BY <2>1, FewerKeepTree
<1>4. CASE UNCHANGED <<type, parent>>
  BY <1>4, FewerKeepTree DEF Exists
<1>5. QED
  BY <1>1, <1>2, <1>3, <1>4, MoveKeepsTree, CreateKeepsTree
     DEF Next, Request, ChanLink, ChanDelete, Cleanup, voiceComponentOf, vars, treeVars

\* Only a channel that takes an id which is still named as a parent can close
\* a cycle.
THEOREM CyclesNeedReuse == Spec => CyclesOnlyByReuse
<1>1. Init => TypeInv
  BY TypeInit
<1>2. TypeInv /\ [Next]_vars => TypeInv'
  BY TypeStep
<1>3. TypeInv /\ [Next]_vars => [Acyclic /\ ~Acyclic' => \E ch \in Exists : parent[ch] = nextChan]_vars
  BY TreeStep
<1>4. QED
  BY <1>1, <1>2, <1>3, PTL DEF Spec, CyclesOnlyByReuse

\* Until the server restarts the channels form a tree: ids are not handed out
\* twice, so that nobody names an id before it is in use.
TreeInv == restarts = 0 => Acyclic /\ \A ch \in Exists : parent[ch] < nextChan

LEMMA TreeInvStep == TypeInv /\ TreeInv /\ [Next]_vars => TreeInv'
<1> SUFFICES ASSUME TypeInv, TreeInv, [Next]_vars, restarts' = 0
             PROVE  Acyclic' /\ \A ch \in Exists' : parent'[ch] < nextChan'
  BY DEF TreeInv
<1>1. restarts = 0 /\ ~Restart
  BY DEF Restart, Next, Request, ChanCreate, ChanEdit, ChanMove, ChanLink, ChanDelete, Cleanup,
     Removed, voiceComponentOf, vars, TypeInv, TypeOK
<1>2. Acyclic /\ \A ch \in Exists : parent[ch] < nextChan
  BY <1>1 DEF TreeInv
<1>3. Acyclic'
  BY <1>2, TreeStep DEF TypeInv, TypeOK
<1>4. ASSUME NEW kind \in {"temp", "kept"}, NEW p \in Chan \cup {Root},
             NEW designated \in BOOLEAN, ChanCreate(kind, p, designated)
      PROVE  \A ch \in Exists' : parent'[ch] < nextChan'
  <2>1. ParentFor(kind, p) < nextChan /\ ParentFor(kind, p) \in Int
    BY DEF ParentFor, TypeInv, TypeOK, Ids, Exists, Chan, Root
  <2>2. nextChan \in Int /\ nextChan' = nextChan + 1 /\ \A ch \in Chan : parent[ch] \in Int
    BY <1>4 DEF ChanCreate, TypeInv, TypeOK, Chan, Root
  <2>3. ASSUME NEW ch \in Exists'
        PROVE  \/ ch \in Exists /\ parent'[ch] = parent[ch]
               \/ ch \in Chan /\ parent'[ch] = ParentFor(kind, p)
    BY <1>4 DEF ChanCreate, Exists, TypeInv, TypeOK
  <2>4. QED
    BY <1>2, <2>1, <2>2, <2>3 DEF Exists
<1>5. ASSUME NEW id \in Chan, NEW p \in Chan \cup {Root}, ChanMove(id, p)
      PROVE  \A ch \in Exists' : parent'[ch] < nextChan'
  <2>1. p < nextChan
    BY <1>5 DEF ChanMove, Fits, TypeInv, TypeOK, Ids, Chan, Root
  <2>2. QED
    BY <1>2, <1>5, <2>1 DEF ChanMove, Exists, TypeInv, TypeOK
<1>6. ASSUME NEW gone \in SUBSET Chan, Removed(gone)
      PROVE  \A ch \in Exists' : parent'[ch] < nextChan'
  BY <1>2, <1>6 DEF Removed, Exists, TypeInv, TypeOK
<1>7. ASSUME NEW kind \in {"temp", "kept"}, NEW ch \in Chan, NEW designated \in BOOLEAN,
             ChanEdit(ch, kind, designated)
      PROVE  \A d \in Exists' : parent'[d] < nextChan'
  BY <1>2, <1>7 DEF ChanEdit, Exists, TypeInv, TypeOK
<1>8. CASE UNCHANGED <<type, parent, nextChan>>
  BY <1>2, <1>3, <1>8 DEF Exists
<1>9. QED
  BY <1>1, <1>3, <1>4, <1>5, <1>6, <1>7, <1>8
     DEF Next, Request, ChanLink, ChanDelete, Cleanup, voiceComponentOf, vars, treeVars

\* As long as the server runs no channel is ever above itself.
THEOREM TreeStaysATree == Spec => []AcyclicUntilRestart
<1>1. Init => TypeInv /\ TreeInv
  <2>1. Init => \A ch \in Exists : parent[ch] < nextChan
    BY DEF Init, Exists, Root
  <2>2. Init => Acyclic
    BY DEF Init, Acyclic, Exists, Chan, Root
  <2>3. QED
    BY <2>1, <2>2, TypeInit DEF TreeInv
<1>2. (TypeInv /\ TreeInv) /\ [Next]_vars => (TypeInv /\ TreeInv)'
  BY TypeStep, TreeInvStep
<1>3. TreeInv => AcyclicUntilRestart
  BY DEF TreeInv, AcyclicUntilRestart
<1>4. QED
  BY <1>1, <1>2, <1>3, PTL DEF Spec

=============================================================================
