------------------------------ MODULE Channels ------------------------------
(***************************************************************************)
(* The channel tree, the links between channels, and the voice components  *)
(* that relayVoice takes from a cache.                                     *)
(*                                                                         *)
(* A handler is one step, and saves what it changed before it returns.     *)
(* Permission checks are inputs.  Semi-permanent and permanent channels    *)
(* differ in the permission they ask for only, and are both "kept".  Who   *)
(* sits where is the subject of Sessions: here the timer may find any      *)
(* temporary channel empty.                                                *)
(***************************************************************************)
EXTENDS Integers, FiniteSets

CONSTANTS
    MaxChan,      \* bound on channel ids
    MaxRestarts   \* bound on the restarts of the server

ASSUME ChannelsAssumption == MaxChan \in Nat \ {0} /\ MaxRestarts \in Nat

Chan == 1..MaxChan
Lobby == 1
Root == 0         \* the parent of a channel at the top

VARIABLES
    type,              \* SvrChan::type; "none" when the channel does not exist
    parent,            \* SvrChan::parent
    linkedChannels,    \* SvrChan::linkedChannels
    tempChannelParent, \* the channels with SvrChan::tempChannelParent set
    nextChan,          \* m_nextChanId
    cache,             \* m_voiceComponentCache; {} when there is no entry
    cacheIsOld,        \* m_voiceComponentCacheRev # m_channelTopologyRev
    restarts           \* how often the server was restarted

treeVars == <<type, parent, linkedChannels, tempChannelParent, nextChan>>
cacheVars == <<cache, cacheIsOld>>
vars == <<treeVars, cacheVars, restarts>>

TypeOK ==
    /\ type \in [Chan -> {"none", "temp", "kept"}]
    /\ parent \in [Chan -> Chan \cup {Root}]
    /\ linkedChannels \in [Chan -> SUBSET Chan]
    /\ tempChannelParent \in SUBSET Chan
    /\ nextChan \in 2..MaxChan + 1
    /\ cache \in [Chan -> SUBSET Chan]
    /\ cacheIsOld \in BOOLEAN
    /\ restarts \in 0..MaxRestarts

Init ==
    /\ type = [ch \in Chan |-> IF ch = Lobby THEN "kept" ELSE "none"]
    /\ parent = [ch \in Chan |-> Root]
    /\ linkedChannels = [ch \in Chan |-> {}]
    /\ tempChannelParent = {}
    /\ nextChan = 2
    /\ cache = [ch \in Chan |-> {}]
    /\ cacheIsOld = TRUE
    /\ restarts = 0

Exists == {ch \in Chan : type[ch] # "none"}

-----------------------------------------------------------------------------
(* Voice components *)

\* Mutant of Linked: a link is followed in one direction.
LinkedAhead(x, y) == y \in linkedChannels[x]

\* A link counts, whichever of the two channels knows of it.
Linked(x, y) == y \in linkedChannels[x] \/ x \in linkedChannels[y]

\* What the search from ch along links visits: the least set of channels that
\* holds ch and that no link leaves.
Component(ch) ==
    LET there == Exists
        closed == {S \in SUBSET there : ch \in S /\ \A x \in S, y \in there \ S : ~Linked(x, y)}
    IN  {d \in there : \A S \in closed : d \in S}

voiceComponentOf(ch) ==
    LET valid == IF cacheIsOld THEN [d \in Chan |-> {}] ELSE cache
    IN  /\ ch \in Exists
        /\ cache' = IF valid[ch] # {} THEN valid ELSE [valid EXCEPT ![ch] = Component(ch)]
        /\ cacheIsOld' = FALSE
        /\ UNCHANGED <<treeVars, restarts>>

bumpChannelTopology == cacheIsOld' = TRUE /\ UNCHANGED cache

-----------------------------------------------------------------------------
(* The tree *)

\* What the walk from p towards the root visits: the least set of channels
\* that holds p and the parents that exist of what it holds.
Above(p) ==
    LET there == Exists
        closed == {S \in SUBSET there : p \in S /\ \A x \in S : parent[x] \notin there \ S}
    IN  {q \in there : \A S \in closed : q \in S}

\* Mutants of Fits: the walk is left out, or does not look at where it starts.
FitsBeside(id, p) == p = Root \/ p \in Exists \ {id}
FitsAbove(id, p) == p = Root \/ (p \in Exists /\ (p = id \/ id \notin Above(p)))

\* The walk from the new parent meets neither id nor a channel it has seen:
\* it ends, at the root or at a parent that does not exist.
Fits(id, p) ==
    \/ p = Root
    \/ /\ p \in Exists
       /\ id \notin Above(p)
       /\ \E top \in Above(p) : parent[top] \notin Exists

\* Temporary channels go below the channel designated for them, if any.
ParentFor(kind, p) ==
    LET wanted == IF kind = "temp" /\ tempChannelParent # {}
                  THEN CHOOSE d \in tempChannelParent : TRUE ELSE p
    IN  IF wanted \in Exists THEN wanted ELSE Root

\* Mutant of ChanCreate: the cached components are not invalidated.
ChanCreateQuietly(kind, p, designated) ==
    /\ nextChan \in Chan
    /\ nextChan' = nextChan + 1
    /\ type' = [type EXCEPT ![nextChan] = kind]
    /\ parent' = [parent EXCEPT ![nextChan] = ParentFor(kind, p)]
    /\ UNCHANGED <<linkedChannels, tempChannelParent, cacheVars, restarts>>

\* A request refused for its parent or its fields has used up an id.
ChanCreate(kind, p, designated) ==
    /\ nextChan \in Chan
    /\ nextChan' = nextChan + 1
    /\ \/ /\ type' = [type EXCEPT ![nextChan] = kind]
          /\ parent' = [parent EXCEPT ![nextChan] = ParentFor(kind, p)]
          /\ tempChannelParent' = IF designated /\ kind # "temp" THEN {nextChan}
                                  ELSE tempChannelParent
          /\ bumpChannelTopology
       \/ UNCHANGED <<type, parent, tempChannelParent, cacheVars>>
    /\ UNCHANGED <<linkedChannels, restarts>>

ChanMove(id, p) ==
    /\ id \in Exists \ {Lobby}
    /\ Fits(id, p)
    /\ parent' = [parent EXCEPT ![id] = p]
    /\ UNCHANGED <<type, linkedChannels, tempChannelParent, nextChan, cacheVars, restarts>>

\* Mutant of ChanLink: only the first channel of a pair learns of the link.
ChanLinkAhead(ids, link) ==
    LET first == CHOOSE ch \in ids : TRUE
    IN  /\ ids \in SUBSET Exists
        /\ Cardinality(ids) >= 2
        /\ link
        /\ linkedChannels' = [linkedChannels EXCEPT ![first] = @ \cup (ids \ {first})]
        /\ bumpChannelTopology
        /\ UNCHANGED <<type, parent, tempChannelParent, nextChan, restarts>>

\* Every pair of the channels selected is linked, or unlinked.
ChanLink(ids, link) ==
    /\ ids \in SUBSET Exists
    /\ Cardinality(ids) >= 2
    /\ linkedChannels' =
          [ch \in Chan |-> IF ch \notin ids THEN linkedChannels[ch]
                           ELSE IF link THEN linkedChannels[ch] \cup (ids \ {ch})
                           ELSE linkedChannels[ch] \ (ids \ {ch})]
    /\ bumpChannelTopology
    /\ UNCHANGED <<type, parent, tempChannelParent, nextChan, restarts>>

\* Mutant of ChanEdit: a channel that becomes temporary keeps its designation.
ChanEditType(ch, kind, designated) ==
    /\ ch \in Exists
    /\ type' = [type EXCEPT ![ch] = IF ch = Lobby THEN "kept" ELSE kind]
    /\ tempChannelParent' = IF designated THEN {ch} ELSE tempChannelParent
    /\ UNCHANGED <<parent, linkedChannels, nextChan, cacheVars, restarts>>

\* The designation ends when the channel becomes temporary, or another takes it.
ChanEdit(ch, kind, designated) ==
    /\ ch \in Exists
    /\ ch = Lobby => kind = type[Lobby]
    /\ type' = [type EXCEPT ![ch] = kind]
    /\ tempChannelParent' = IF designated /\ kind # "temp" THEN {ch}
                            ELSE tempChannelParent \ {ch}
    /\ UNCHANGED <<parent, linkedChannels, nextChan, cacheVars, restarts>>

Removed(gone) ==
    /\ type' = [ch \in Chan |-> IF ch \in gone THEN "none" ELSE type[ch]]
    /\ parent' = [ch \in Chan |-> IF ch \in gone THEN Root ELSE parent[ch]]
    /\ linkedChannels' = [ch \in Chan |-> IF ch \in gone THEN {}
                                          ELSE linkedChannels[ch] \ gone]
    /\ tempChannelParent' = tempChannelParent \ gone
    /\ bumpChannelTopology
    /\ UNCHANGED <<nextChan, restarts>>

ChanDelete(id) ==
    /\ id \in Exists \ {Lobby}
    /\ \A ch \in Exists : parent[ch] # id
    /\ Removed({id})

\* The timer finds these temporary channels empty.  It does not ask whether
\* they have sub-channels.
Cleanup(gone) ==
    /\ gone # {}
    /\ \A ch \in gone : type[ch] = "temp"
    /\ Removed(gone)

HighestSaved(saved) == CHOOSE ch \in saved : \A d \in saved : d <= ch

\* Mutant of FirstFree: the highest id is handed out again.
FirstFreeOffByOne(saved) == HighestSaved(saved)

FirstFree(saved) == HighestSaved(saved) + 1

\* Temporary channels are not saved, but what the others say of them is, and
\* ids start again above the highest one saved.
Restart ==
    LET saved == {ch \in Chan : type[ch] = "kept"}
        designated == tempChannelParent \cap saved
    IN  /\ restarts < MaxRestarts
        /\ restarts' = restarts + 1
        /\ type' = [ch \in Chan |-> IF ch \in saved THEN "kept" ELSE "none"]
        /\ parent' = [ch \in Chan |-> IF ch \in saved THEN parent[ch] ELSE Root]
        /\ linkedChannels' = [ch \in Chan |-> IF ch \in saved THEN linkedChannels[ch] \ {ch}
                                              ELSE {}]
        /\ tempChannelParent' = {ch \in designated : \A d \in designated : ch <= d}
        /\ nextChan' = FirstFree(saved)
        /\ cache' = [ch \in Chan |-> {}]
        /\ cacheIsOld' = TRUE

Request ==
    \/ \E kind \in {"temp", "kept"}, designated \in BOOLEAN :
          \/ \E p \in Chan \cup {Root} : ChanCreate(kind, p, designated)
          \/ \E ch \in Chan : ChanEdit(ch, kind, designated)
    \/ \E id \in Chan, p \in Chan \cup {Root} : ChanMove(id, p)
    \/ \E ids \in SUBSET Chan, link \in BOOLEAN : ChanLink(ids, link)
    \/ \E id \in Chan : ChanDelete(id)

Next ==
    \/ Request
    \/ \E ch \in Chan : voiceComponentOf(ch)
    \/ \E gone \in SUBSET Chan : Cleanup(gone)
    \/ Restart

Spec == Init /\ [][Next]_vars

-----------------------------------------------------------------------------
(* Properties *)

\* No channel is above itself: canViewChannel and handleChanMove walk upwards.
Acyclic == \A S \in SUBSET Exists : (\A ch \in S : parent[ch] \in S) => S = {}

\* As long as the server runs, no order of creations, moves, deletions and
\* vanishing channels puts a channel below itself.
AcyclicUntilRestart == restarts = 0 => Acyclic

\* At any time, the only step that can close a cycle is the creation of a
\* channel under an id that another channel still names as its parent.
CyclesOnlyByReuse ==
    [][Acyclic /\ ~Acyclic' => \E ch \in Exists : parent[ch] = nextChan]_vars

\* Links are symmetric, lead to other channels, and those exist.
LinksSymmetric ==
    \A ch \in Exists : \A d \in linkedChannels[ch] :
        d \in Exists \ {ch} /\ ch \in linkedChannels[d]

\* As long as the server runs, every link is known on both sides and none
\* survives its channel.
SymmetricUntilRestart == restarts = 0 => LinksSymmetric

\* Between two channels that exist a link is known on both sides.
LinkedBothWays ==
    \A ch, d \in Exists : d \in linkedChannels[ch] => ch \in linkedChannels[d]

\* A component in the cache that relayVoice would use is the component that
\* the links of this moment give.
CacheCurrent ==
    ~cacheIsOld => \A ch \in Chan : cache[ch] # {} => ch \in Exists /\ cache[ch] = Component(ch)

\* Whom a channel speaks to speaks to it, even with links known on one side.
MutualVoice == \A ch \in Exists : LET heardBy == Component(ch)
                                    IN  \A d \in heardBy : Component(d) = heardBy

\* At most one channel is designated for temporary channels, and it exists
\* and is not temporary itself.
OneDestination ==
    /\ \A ch \in tempChannelParent : type[ch] = "kept"
    /\ \A ch, d \in tempChannelParent : ch = d

=============================================================================
