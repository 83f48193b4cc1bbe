--------------------------- MODULE PresenceProofs ---------------------------
(***************************************************************************)
(* Theorems about who is online, under which name and where, for every     *)
(* value of the constants of Sessions: nicknames, bans, seats, evictions,  *)
(* limits, and that Sessions implements Roster.  They rest on what         *)
(* SessionsProofs shows of ids and identities, and so they hold whatever   *)
(* lines a session reads after it closed itself; only EverybodyIsSeated,   *)
(* which is also about the ids of those who are gone, needs that it reads  *)
(* none.                                                                   *)
(***************************************************************************)
EXTENDS SessionsProofs, FiniteSetTheorems

-----------------------------------------------------------------------------
(* The kinds of steps *)

\* A login that passed the checks.
Arrives(c, u, n, drawn) ==
    /\ sid[c] = 0 /\ Speaks(c)
    /\ ~Banned(u, IpOf[c])
    /\ ~NickTaken(u, EffectiveNick(u, n))
    /\ Enter(c, u, n, drawn)

\* The sessions of C go, for whatever reason; what is written down about a ban
\* concerns somebody who goes.
Exit(C) ==
    /\ Leave(C)
    /\ UNCHANGED chanVars
    /\ \A b \in bans' \ bans : \E c \in C : \E i \in Live : clients[i] = c /\ b.uid = uid[c]

\* Somebody changes channel.  A session that closed itself may do so under the
\* id it had.
Walks(i, ch) ==
    /\ i \in Live \/ \E c \in Conn : LoggedIn(c) /\ sid[c] = i
    /\ chanType[ch] # "none" /\ HasRoom(ch)
    /\ Seat(i, ch)
    /\ UNCHANGED <<objVars, tableVars, chanVars, keptVars>>

\* The bans made by uid, lifted or lapsed.
Bans ==
    /\ \A b \in bans' \ bans : b.ip = None
    /\ UNCHANGED <<objVars, tableVars, seatVars, chanVars, registry>>

\* Nothing that others see changes.
Unseen ==
    /\ UNCHANGED <<clients, nextId, seatVars, chanVars, keptVars>>
    /\ \A i \in Live : uid'[clients[i]] = uid[clients[i]] /\ nick'[clients[i]] = nick[clients[i]]

StepKind ==
    \/ \E c \in Conn, u \in Uid, n \in Nick, drawn \in BOOLEAN : Arrives(c, u, n, drawn)
    \/ \E C \in SUBSET Conn : Exit(C)
    \/ \E idle \in SUBSET Conn : Tick(idle)
    \/ \E c \in Conn, d \in Conn, n \in Nick : Rename(c, d, n)
    \/ \E i \in Sid, ch \in Chan : Walks(i, ch)
    \/ \E c \in Conn, i \in Sid : KickFromChannel(c, i)
    \/ \E c \in Conn, ch \in Chan : ChanDelete(c, ch)
    \/ \E c \in Conn, type \in {"temp", "perm"}, max \in Caps :
          \/ ChanCreate(c, type, max)
          \/ \E ch \in Chan : ChanEdit(c, ch, type, max)
    \/ Bans
    \/ Unseen

LEMMA KindOfAdmission ==
    ASSUME TypeInv, IdInv, NEW c \in Conn, NEW u \in Uid, NEW n \in Nick,
           Speaks(c), sid[c] = 0, Admission(c, u, n)
    PROVE  StepKind
<1>1. PICK passOk \in BOOLEAN, drawn \in TokenDraw :
          IF Fault(c, u, n, passOk) = "none" THEN Enter(c, u, n, drawn)
          ELSE Refused(c, Fault(c, u, n, passOk))
  BY DEF Admission
<1>2. CASE Fault(c, u, n, passOk) = "none"
  <2>1. ~Banned(u, IpOf[c]) /\ ~NickTaken(u, EffectiveNick(u, n))
    BY <1>2 DEF Fault
  <2>2. drawn \in BOOLEAN
    BY SessionsAssumption
  <2>3. Arrives(c, u, n, drawn)
    BY <1>1, <1>2, <2>1 DEF Arrives
  <2>4. QED
    BY <2>2, <2>3 DEF StepKind
<1>3. CASE Fault(c, u, n, passOk) # "none"
  <2>1. Unseen
    BY <1>1, <1>3 DEF Refused, Unseen, tableVars
  <2>2. QED
    BY <2>1 DEF StepKind
<1>4. QED
  BY <1>2, <1>3

LEMMA KindOfExit ==
    ASSUME TypeInv, IdInv,
           \/ \E c \in Conn : Dropped(c) \/ Quit(c)
           \/ \E c \in Conn, i \in Sid : KickFromServer(c, i) \/ BanSession(c, i)
           \/ \E i \in Sid : QueryKick(i) \/ QueryBan(i)
    PROVE  StepKind
<1>1. ASSUME NEW c \in Conn, Dropped(c) \/ Quit(c) PROVE StepKind
  <2>1. Exit({c})
    BY <1>1, Exits DEF Exit
  <2>2. QED
    BY <2>1 DEF StepKind
<1>2. ASSUME NEW i \in Live, Expel(i),
             \A b \in bans' \ bans : b.uid = uid[clients[i]]
      PROVE  StepKind
  <2>1. Exit({clients[i]}) /\ {clients[i]} \in SUBSET Conn
    BY <1>2, Exits, LiveObject DEF Exit
  <2>2. QED
    BY <2>1 DEF StepKind
<1>3. ASSUME NEW c \in Conn, NEW i \in Sid, KickFromServer(c, i) \/ BanSession(c, i) PROVE StepKind
  BY <1>2, <1>3 DEF KickFromServer, BanSession
<1>4. ASSUME NEW i \in Sid, QueryKick(i) \/ QueryBan(i) PROVE StepKind
  BY <1>2, <1>4 DEF QueryKick, QueryBan
<1>5. QED
  BY <1>1, <1>3, <1>4

LEMMA KindOfLine ==
    ASSUME TypeInv, IdInv, NEW c \in Conn, Line(c)
    PROVE  StepKind
<1>1. ASSUME NEW u \in Uid, NEW n \in Nick, SayHello(c, u, n) PROVE StepKind
  <2>1. CASE verified[c]
    BY <1>1, <2>1, KindOfAdmission DEF SayHello
  <2>2. CASE ~verified[c]
    BY <1>1, <2>2 DEF SayHello, StepKind, Unseen, tableVars
  <2>3. QED
    BY <2>1, <2>2
<1>2. CASE Prove(c)
  <2>1. pending[c].uid \in Uid /\ pending[c].nick \in Nick
    BY <1>2 DEF Prove, TypeInv, TypeOK, Hello
  <2>2. QED
    BY <1>2, <2>1, KindOfAdmission DEF Prove
<1>3. CASE Dismissed(c) \/ VoiceHello(c) \/ \E I \in SUBSET Live : Whisper(c, I)
  <2>1. Unseen
    BY <1>3 DEF Dismissed, VoiceHello, Whisper, Unseen, tableVars
  <2>2. QED
    BY <2>1 DEF StepKind
<1>4. ASSUME NEW ch \in Chan, Move(c, ch) PROVE StepKind
  <2>1. sid[c] \in Sid
    BY <1>4 DEF Move, LoggedIn, TypeInv, TypeOK
  <2>2. Walks(sid[c], ch)
    BY <1>4, <2>1 DEF Move, Walks
  <2>3. QED
    BY <2>1, <2>2 DEF StepKind
<1>5. ASSUME NEW i \in Sid, NEW ch \in Chan, MoveOther(c, i, ch) PROVE StepKind
  <2>1. i \in Live /\ Walks(i, ch)
    BY <1>5 DEF MoveOther, Walks
  <2>2. QED
    BY <2>1 DEF StepKind
<1>6. ASSUME NEW u \in Uid, Unban(c, u) PROVE StepKind
  <2>1. Bans
    BY <1>6 DEF Unban, Bans
  <2>2. QED
    BY <2>1 DEF StepKind
<1>7. CASE Quit(c) \/ \E i \in Sid : KickFromServer(c, i) \/ BanSession(c, i)
  BY <1>7, KindOfExit
<1>8. CASE \/ \E d \in Conn, n \in Nick : Rename(c, d, n)
           \/ \E ch \in Chan : ChanDelete(c, ch)
           \/ \E i \in Sid : KickFromChannel(c, i)
           \/ \E type \in {"temp", "perm"}, max \in Caps :
                 \/ ChanCreate(c, type, max)
                 \/ \E ch \in Chan : ChanEdit(c, ch, type, max)
  BY <1>8 DEF StepKind
<1>9. QED
  BY <1>1, <1>2, <1>3, <1>4, <1>5, <1>6, <1>7, <1>8 DEF Line

LEMMA KindOfStep ==
    ASSUME TypeInv, IdInv, [Next]_vars
    PROVE  StepKind
<1>1. ASSUME NEW c \in Conn, Line(c) PROVE StepKind
  BY <1>1, KindOfLine
<1>2. ASSUME NEW c \in Conn, Connect(c) \/ Oversize(c) \/ EndOfRead(c) PROVE StepKind
  <2>1. Unseen
    BY <1>2 DEF Connect, Oversize, EndOfRead, Unseen, tableVars
  <2>2. QED
    BY <2>1 DEF StepKind
<1>3. ASSUME NEW c \in Conn, Deleted(c) PROVE StepKind
  <2>1. \A i \in Live : clients[i] # c /\ clients[i] \in Conn
    BY <1>3, LiveObject DEF Deleted, ObjectsOf
  <2>2. Unseen
    BY <1>3, <2>1 DEF Deleted, Unseen, tableVars, TypeInv, TypeOK
  <2>3. QED
    BY <2>2 DEF StepKind
<1>4. CASE Event
  <2>1. ASSUME NEW idle \in SUBSET Conn, Tick(idle) PROVE StepKind
    BY <2>1 DEF StepKind
  <2>2. CASE \/ \E u \in Uid : QueryBanAdd(u) \/ QueryUnban(u)
             \/ \E b \in bans : BanLapses(b)
    <3>1. Bans
      BY <2>2 DEF QueryBanAdd, QueryUnban, BanLapses, Bans
    <3>2. QED
      BY <3>1 DEF StepKind
  <2>3. QED
    BY <1>2, <1>3, <1>4, <2>1, <2>2, KindOfExit DEF Event
<1>5. CASE UNCHANGED vars
  BY <1>5 DEF vars, objVars, tableVars, StepKind, Unseen
<1>6. QED
  BY <1>1, <1>2, <1>4, <1>5 DEF Next

\* Who is in m_clients after a login, and after an exit.
LEMMA AfterArrival ==
    ASSUME TypeInv, IdInv, NEW c \in Conn, NEW u \in Uid, NEW n \in Nick, NEW drawn \in BOOLEAN,
           Arrives(c, u, n, drawn)
    PROVE  /\ nextId \in Sid \ Live /\ nextId \notin Duplicate(u)
           /\ Live' = (Live \ Duplicate(u)) \cup {nextId}
           /\ clients'[nextId] = c
           /\ \A i \in Live \ Duplicate(u) : clients'[i] = clients[i] /\ clients[i] # c /\ i # nextId
           /\ \A i \in Live : (i \in Duplicate(u) <=> uid[clients[i]] = u) /\ clients[i] # c
           /\ uid' = [uid EXCEPT ![c] = u]
           /\ nick' = [nick EXCEPT ![c] = EffectiveNick(u, n)]
           /\ registry' = [registry EXCEPT ![u] = EffectiveNick(u, n)]
           /\ UNCHANGED <<bans, chanVars>>
<1>1. /\ nextId \in Sid
      /\ clients' = [ClientsWithout(Duplicate(u)) EXCEPT ![nextId] = c]
      /\ uid' = [uid EXCEPT ![c] = u]
      /\ nick' = [nick EXCEPT ![c] = EffectiveNick(u, n)]
      /\ registry' = [registry EXCEPT ![u] = EffectiveNick(u, n)]
      /\ UNCHANGED <<bans, chanVars>>
  BY DEF Arrives, Enter
<1>2. \A i \in Live : i # nextId /\ clients[i] # c /\ i \in Sid /\ clients[i] # None
  BY LiveObject, LiveIds DEF Arrives, TypeInv, Filed, Live, Sid
<1>3. \A i \in Live : i \in Duplicate(u) <=> uid[clients[i]] = u
  BY DEF Duplicate, IdInv, OneSessionPerIdentity, Live, Sid
<1>4. Duplicate(u) \subseteq Live
  BY DEF Duplicate
<1>5. c # None
  BY SessionsAssumption
<1>6. \A i \in Sid : clients'[i] = IF i = nextId THEN c ELSE IF i \in Duplicate(u) THEN None ELSE clients[i]
  BY <1>1 DEF ClientsWithout
<1>7. Live' = (Live \ Duplicate(u)) \cup {nextId}
  BY <1>1, <1>2, <1>4, <1>5, <1>6 DEF Live
<1>8. QED
  BY <1>1, <1>2, <1>3, <1>4, <1>6, <1>7

LEMMA AfterExit ==
    ASSUME TypeInv, IdInv, NEW C \in SUBSET Conn, Leave(C)
    PROVE  /\ Live' = {i \in Live : clients[i] \notin C}
           /\ \A i \in Live' : clients'[i] = clients[i]
           /\ UNCHANGED <<uid, nick, registry, nextId, nextChan>>
           /\ users' = UsersWithout(SidsOf(C))
           /\ userChannelCache' = CacheWithout(SidsOf(C))
           /\ SidsOf(C) = {i \in Live : clients[i] \in C}
<1>1. /\ clients' = ClientsWithout(SidsOf(C))
      /\ users' = UsersWithout(SidsOf(C))
      /\ userChannelCache' = CacheWithout(SidsOf(C))
      /\ UNCHANGED <<uid, nick, registry, nextId, nextChan>>
  BY DEF Leave, Reap
<1>2. SidsOf(C) = {i \in Live : clients[i] \in C}
  BY LeavingIds
<1>3. Live' = Live \ SidsOf(C) /\ \A i \in Live' : clients'[i] = clients[i]
  BY <1>1 DEF ClientsWithout, Live
<1>4. QED
  BY <1>1, <1>2, <1>3

-----------------------------------------------------------------------------
(* Nicknames *)

LEMMA NickInit == Init => DistinctNicks
  BY DEF Init, DistinctNicks, Live

LEMMA NickArrival ==
    ASSUME TypeInv, IdInv, DistinctNicks, NEW c \in Conn, NEW u \in Uid, NEW n \in Nick,
           NEW drawn \in BOOLEAN, Arrives(c, u, n, drawn)
    PROVE  DistinctNicks'
<1> DEFINE name == EffectiveNick(u, n)
           me == nextId
           stay == Live \ Duplicate(u)
<1>1. /\ Live' = stay \cup {me} /\ clients'[me] = c
      /\ \A i \in stay : clients'[i] = clients[i] /\ clients[i] # c /\ i # me
      /\ \A i \in stay : uid[clients[i]] # u
      /\ uid' = [uid EXCEPT ![c] = u] /\ nick' = [nick EXCEPT ![c] = name]
      /\ registry' = [registry EXCEPT ![u] = name]
  BY AfterArrival
<1>2. \A i \in stay : clients[i] \in Conn /\ uid[clients[i]] \in Uid
  BY LiveObject
<1>3. \A i \in stay : nick[clients[i]] # name
  BY <1>1 DEF Arrives, NickTaken
<1>4. nick'[c] = name /\ uid'[c] = u /\ registry'[u] = name
  BY <1>1 DEF TypeInv, TypeOK
<1>5. \A i \in stay : /\ nick'[clients'[i]] = nick[clients[i]] /\ uid'[clients'[i]] = uid[clients[i]]
                      /\ registry'[uid[clients[i]]] = registry[uid[clients[i]]]
  BY <1>1, <1>2 DEF TypeInv, TypeOK
<1> HIDE DEF name, me, stay
<1>6. stay \subseteq Live
  BY DEF stay
<1>7. ASSUME NEW i \in Live', NEW j \in Live', nick'[clients'[i]] = nick'[clients'[j]] PROVE i = j
  BY <1>1, <1>3, <1>4, <1>5, <1>6, <1>7 DEF DistinctNicks
<1>8. ASSUME NEW i \in Live' PROVE registry'[uid'[clients'[i]]] = nick'[clients'[i]]
  BY <1>1, <1>4, <1>5, <1>6, <1>8 DEF DistinctNicks
<1>9. QED
  BY <1>7, <1>8 DEF DistinctNicks

LEMMA NickRename ==
    ASSUME TypeInv, IdInv, DistinctNicks, NEW c \in Conn, NEW d \in Conn, NEW n \in Nick,
           Rename(c, d, n)
    PROVE  DistinctNicks'
<1>1. /\ Live' = Live /\ UNCHANGED <<clients, uid>>
      /\ nick' = [nick EXCEPT ![d] = n] /\ registry' = [registry EXCEPT ![uid[d]] = n]
      /\ \A i \in Live : clients[i] # d => nick[clients[i]] # n
  BY DEF Rename, tableVars, Live
<1>2. \A i \in Live : clients[i] \in Conn /\ uid[clients[i]] \in Uid
  BY LiveObject
\* Who is renamed is the only one with that identity, online or not.
<1>3. ASSUME NEW i \in Live PROVE uid[clients[i]] = uid[d] <=> clients[i] = d
  <2>1. CASE d \in ObjectsOf(Live)
    BY <1>3, <2>1 DEF ObjectsOf, IdInv, OneSessionPerIdentity
  <2>2. CASE d = c
    BY <1>3, <2>2, SpeakerIsLast DEF Rename
  <2>3. QED
    BY <2>1, <2>2 DEF Rename
<1>4. ASSUME NEW i \in Live, NEW j \in Live, clients[i] = clients[j] PROVE i = j
  BY <1>4, LiveIds
<1>5. ASSUME NEW i \in Live
      PROVE  /\ nick'[clients[i]] = IF clients[i] = d THEN n ELSE nick[clients[i]]
             /\ registry'[uid[clients[i]]] = IF clients[i] = d THEN n
                                             ELSE registry[uid[clients[i]]]
  BY <1>1, <1>2, <1>3, <1>5 DEF TypeInv, TypeOK
<1>6. ASSUME NEW i \in Live, NEW j \in Live, nick'[clients[i]] = nick'[clients[j]] PROVE i = j
  BY <1>1, <1>4, <1>5, <1>6 DEF DistinctNicks
<1>7. ASSUME NEW i \in Live PROVE registry'[uid[clients[i]]] = nick'[clients[i]]
  BY <1>5, <1>7 DEF DistinctNicks
<1>8. QED
  BY <1>1, <1>6, <1>7 DEF DistinctNicks

\* Of the sessions that stay nothing changes.
LEMMA NickKept ==
    ASSUME DistinctNicks, Live' \subseteq Live,
           \A i \in Live' : clients'[i] = clients[i],
           \A i \in Live : uid'[clients[i]] = uid[clients[i]] /\ nick'[clients[i]] = nick[clients[i]],
           registry' = registry
    PROVE  DistinctNicks'
  BY DEF DistinctNicks

LEMMA NickStep == (TypeInv /\ IdInv) /\ DistinctNicks /\ [Next]_vars => DistinctNicks'
<1> SUFFICES ASSUME TypeInv, IdInv, DistinctNicks, [Next]_vars PROVE DistinctNicks'
  OBVIOUS
<1>1. ASSUME NEW C \in SUBSET Conn, Leave(C) PROVE DistinctNicks'
  BY <1>1, AfterExit, NickKept
<1>2. ASSUME NEW C \in SUBSET Conn, Exit(C) PROVE DistinctNicks'
  BY <1>1, <1>2 DEF Exit
<1>3. ASSUME NEW idle \in SUBSET Conn, Tick(idle) PROVE DistinctNicks'
  BY <1>1, <1>3, Exits
<1>4. ASSUME UNCHANGED <<clients, uid, nick, registry>> PROVE DistinctNicks'
  BY <1>4, NickKept DEF Live
<1>5. ASSUME NEW i \in Sid, NEW ch \in Chan, Walks(i, ch) PROVE DistinctNicks'
  BY <1>4, <1>5 DEF Walks, objVars, tableVars, keptVars
<1>6. ASSUME NEW c \in Conn, NEW i \in Sid, KickFromChannel(c, i) PROVE DistinctNicks'
  BY <1>4, <1>6 DEF KickFromChannel, objVars, tableVars, keptVars
<1>7. ASSUME NEW c \in Conn, NEW ch \in Chan, ChanDelete(c, ch) PROVE DistinctNicks'
  BY <1>4, <1>7 DEF ChanDelete, objVars, tableVars, keptVars
<1>8. ASSUME NEW c \in Conn, NEW type \in {"temp", "perm"}, NEW max \in Caps,
             ChanCreate(c, type, max) \/ \E ch \in Chan : ChanEdit(c, ch, type, max)
      PROVE  DistinctNicks'
  BY <1>4, <1>8 DEF ChanCreate, ChanEdit, objVars, tableVars, keptVars
<1>9. CASE Bans
  BY <1>4, <1>9 DEF Bans, objVars, tableVars
<1>10. CASE Unseen
  BY <1>10, NickKept DEF Unseen, keptVars, Live
<1>11. QED
  BY <1>2, <1>3, <1>5, <1>6, <1>7, <1>8, <1>9, <1>10, KindOfStep, NickArrival, NickRename
     DEF StepKind

\* DistinctNicks: no two people online share a nickname, and the one that is
\* shown is the one that is remembered.
THEOREM NicksAreDistinct == Spec => []DistinctNicks
  BY NickInit, NickStep, IdAlways, PTL DEF Spec

-----------------------------------------------------------------------------
(* Bans *)

LEMMA BanInit == Init => BannedAreGone
  BY DEF Init, BannedAreGone

\* Nobody comes, and no ban that was not there concerns an address.
LEMMA BanKept ==
    ASSUME BannedAreGone, Live' \subseteq Live,
           \A i \in Live' : clients'[i] = clients[i] /\ uid'[clients[i]] = uid[clients[i]],
           \A b \in bans' \ bans : b.ip = None
    PROVE  BannedAreGone'
  BY DEF BannedAreGone

LEMMA BanStep == (TypeInv /\ IdInv) /\ BannedAreGone /\ [Next]_vars => BannedAreGone'
<1> SUFFICES ASSUME TypeInv, IdInv, BannedAreGone, [Next]_vars PROVE BannedAreGone'
  OBVIOUS
<1>1. ASSUME NEW c \in Conn, NEW u \in Uid, NEW n \in Nick, NEW drawn \in BOOLEAN,
             Arrives(c, u, n, drawn)
      PROVE  BannedAreGone'
  <2>1. \A b \in bans : b.uid # u
    BY <1>1 DEF Arrives, Banned
  <2>2. uid'[c] = u
    BY <1>1, AfterArrival DEF TypeInv, TypeOK
  <2>3. /\ Live' = (Live \ Duplicate(u)) \cup {nextId} /\ clients'[nextId] = c /\ bans' = bans
        /\ \A i \in Live \ Duplicate(u) : clients'[i] = clients[i] /\ uid'[clients[i]] = uid[clients[i]]
    BY <1>1, AfterArrival, LiveObject DEF TypeInv, TypeOK
  <2>4. QED
    BY <2>1, <2>2, <2>3 DEF BannedAreGone
<1>2. ASSUME NEW C \in SUBSET Conn, Exit(C) PROVE BannedAreGone'
  <2>1. /\ Live' = {i \in Live : clients[i] \notin C}
        /\ \A i \in Live' : clients'[i] = clients[i] /\ uid' = uid
    BY <1>2, AfterExit DEF Exit
  <2>2. ASSUME NEW b \in bans' \ bans, NEW i \in Live' PROVE uid'[clients'[i]] # b.uid
    <3>1. PICK c \in C, j \in Live : clients[j] = c /\ b.uid = uid[c]
      BY <1>2 DEF Exit
    <3>2. i \in Live /\ i # j
      BY <2>1, <3>1
    <3>3. QED
      BY <2>1, <3>1, <3>2 DEF IdInv, OneSessionPerIdentity
  <2>3. ASSUME NEW b \in bans, b.ip # None, NEW i \in Live' PROVE uid'[clients'[i]] # b.uid
    BY <2>1, <2>3 DEF BannedAreGone
  <2>4. QED
    BY <2>2, <2>3 DEF BannedAreGone
<1>3. ASSUME NEW idle \in SUBSET Conn, Tick(idle) PROVE BannedAreGone'
  <2>1. Leave(idle) /\ bans' = bans
    BY <1>3, Exits
  <2>2. QED
    BY <2>1, AfterExit, BanKept
<1>4. ASSUME UNCHANGED <<clients, uid>>, \A b \in bans' \ bans : b.ip = None PROVE BannedAreGone'
  BY <1>4, BanKept DEF Live
<1>5. ASSUME NEW c \in Conn, NEW d \in Conn, NEW n \in Nick, Rename(c, d, n) PROVE BannedAreGone'
  BY <1>4, <1>5 DEF Rename, tableVars
<1>6. ASSUME NEW i \in Sid, NEW ch \in Chan, Walks(i, ch) PROVE BannedAreGone'
  BY <1>4, <1>6 DEF Walks, objVars, tableVars, keptVars
<1>7. ASSUME NEW c \in Conn, NEW i \in Sid, KickFromChannel(c, i) PROVE BannedAreGone'
  BY <1>4, <1>7 DEF KickFromChannel, objVars, tableVars, keptVars
<1>8. ASSUME NEW c \in Conn, NEW ch \in Chan, ChanDelete(c, ch) PROVE BannedAreGone'
  BY <1>4, <1>8 DEF ChanDelete, objVars, tableVars, keptVars
<1>9. ASSUME NEW c \in Conn, NEW type \in {"temp", "perm"}, NEW max \in Caps,
             ChanCreate(c, type, max) \/ \E ch \in Chan : ChanEdit(c, ch, type, max)
      PROVE  BannedAreGone'
  BY <1>4, <1>9 DEF ChanCreate, ChanEdit, objVars, tableVars, keptVars
<1>10. CASE Bans
  BY <1>4, <1>10 DEF Bans, objVars, tableVars
<1>11. CASE Unseen
  BY <1>11, BanKept DEF Unseen, keptVars, Live
<1>12. QED
  BY <1>1, <1>2, <1>3, <1>5, <1>6, <1>7, <1>8, <1>9, <1>10, <1>11, KindOfStep DEF StepKind

\* BannedAreGone: whoever was banned while online stays offline.
THEOREM BansHold == Spec => []BannedAreGone
  BY BanInit, BanStep, IdAlways, PTL DEF Spec

-----------------------------------------------------------------------------
(* Evictions and limits *)

\* NobodyElseEvicted: a login ends at most a session of the same identity.
THEOREM LoginsEvictNobodyElse == Spec => NobodyElseEvicted
<1>1. ASSUME TypeInv, IdInv, [Next]_vars
      PROVE  [\A i \in Live : nextId' # nextId /\ clients'[i] # clients[i]
                              => uid[clients[i]] = uid'[clients'[nextId]]]_vars
  <2> SUFFICES ASSUME NEW i \in Live, nextId' # nextId, clients'[i] # clients[i]
               PROVE  uid[clients[i]] = uid'[clients'[nextId]]
    OBVIOUS
  <2>1. PICK c \in Conn, u \in Uid, n \in Nick, drawn \in BOOLEAN : Arrives(c, u, n, drawn)
    <3>1. StepKind
      BY <1>1, KindOfStep
    <3>2. \A C \in SUBSET Conn : ~Leave(C)
      BY DEF Leave
    <3>3. (\A C \in SUBSET Conn : ~Exit(C)) /\ \A idle \in SUBSET Conn : ~Tick(idle)
      BY <1>1, <3>2, Exits DEF Exit
    <3>4. QED
      BY <3>1, <3>3 DEF StepKind, Rename, Walks, KickFromChannel, ChanDelete, ChanCreate, ChanEdit,
         Bans, Unseen, tableVars
  <2>2. clients'[nextId] = c /\ uid'[c] = u
    BY <1>1, <2>1, AfterArrival DEF TypeInv, TypeOK
  <2>3. uid[clients[i]] = u
    BY <1>1, <2>1, AfterArrival
  <2>4. QED
    BY <2>2, <2>3
<1>2. QED
  BY <1>1, IdAlways, PTL DEF Spec, NobodyElseEvicted

LEMMA SidsAreFinite == IsFiniteSet(Sid)
<1>1. 1 \in Int /\ MaxSid \in Int
  BY SessionsAssumption
<1>2. IsFiniteSet(1..MaxSid)
  BY <1>1, FS_Interval
<1>3. QED
  BY <1>2 DEF Sid

LEMMA CapsAreNumbers == \A m \in Caps \cup {0, Unlimited} : m \in Int
<1>1. Caps \subseteq Int
  BY SessionsAssumption
<1>2. QED
  BY <1>1 DEF Unlimited

LEMMA FewerInside ==
    ASSUME NEW S \in SUBSET Sid, NEW T \in SUBSET S
    PROVE  /\ Cardinality(S) \in Nat /\ Cardinality(T) \in Nat
           /\ Cardinality(T) <= Cardinality(S)
<1>1. IsFiniteSet(S) /\ IsFiniteSet(T)
  BY SidsAreFinite, FS_Subset
<1>2. QED
  BY <1>1, FS_Subset, FS_CardinalityType

LEMMA RoomStep ==
    ASSUME TypeInv, IdInv, [Next]_vars, NEW ch \in Chan \ {Lobby},
           Cardinality(users'[ch]) > Cardinality(users[ch])
    PROVE  maxIn[ch] < 0 \/ Cardinality(users'[ch]) <= maxIn[ch]
<1>1. users[ch] \in SUBSET Sid
  BY DEF TypeInv, TypeOK
<1>2. ~ (users'[ch] \subseteq users[ch])
  <2> SUFFICES ASSUME users'[ch] \in SUBSET users[ch] PROVE FALSE
    OBVIOUS
  <2>1. /\ Cardinality(users'[ch]) <= Cardinality(users[ch])
        /\ Cardinality(users'[ch]) \in Nat /\ Cardinality(users[ch]) \in Nat
    BY <1>1, FewerInside
  <2>2. QED
    BY <2>1
<1>3. ASSUME NEW i \in Sid, NEW d \in Chan, Walks(i, d)
      PROVE  maxIn[ch] < 0 \/ Cardinality(users'[ch]) <= maxIn[ch]
  <2>1. users'[ch] = IF ch = d THEN users[ch] \cup {i} ELSE users[ch] \ {i}
    BY <1>3 DEF Walks, Seat
  <2>2. ch = d /\ i \notin users[ch] /\ users'[ch] = users[ch] \cup {i}
    BY <1>2, <2>1
  <2>3. IsFiniteSet(users[ch])
    BY <1>1, SidsAreFinite, FS_Subset
  <2>4. Cardinality(users'[ch]) = Cardinality(users[ch]) + 1 /\ Cardinality(users[ch]) \in Nat
    BY <2>2, <2>3, FS_AddElement, FS_CardinalityType
  <2>5. maxIn[ch] < 0 \/ Cardinality(users[ch]) < maxIn[ch]
    BY <1>3, <2>2 DEF Walks, HasRoom
  <2>6. maxIn[ch] \in Int
    BY CapsAreNumbers DEF TypeInv, TypeOK
  <2>7. QED
    BY <2>4, <2>5, <2>6
<1>4. ASSUME NEW c \in Conn, NEW u \in Uid, NEW n \in Nick, NEW drawn \in BOOLEAN,
             Arrives(c, u, n, drawn)
      PROVE  FALSE
  BY <1>2, <1>4 DEF Arrives, Enter, UsersWithout
<1>5. ASSUME NEW C \in SUBSET Conn, Leave(C) PROVE FALSE
  BY <1>2, <1>5 DEF Leave, Reap, UsersWithout
<1>6. ASSUME NEW idle \in SUBSET Conn, Tick(idle) PROVE FALSE
  BY <1>5, <1>6, Exits
<1>7. ASSUME NEW c \in Conn, NEW i \in Sid, KickFromChannel(c, i) PROVE FALSE
  BY <1>2, <1>7 DEF KickFromChannel, Seat, seatVars
<1>8. ASSUME NEW c \in Conn, NEW d \in Chan, ChanDelete(c, d) PROVE FALSE
  BY <1>2, <1>8 DEF ChanDelete
<1>9. users' # users
  BY <1>2
<1>10. QED
  BY <1>3, <1>4, <1>5, <1>6, <1>7, <1>8, <1>9, KindOfStep
     DEF StepKind, Exit, Rename, ChanCreate, ChanEdit, Bans, Unseen, seatVars

\* RoomForOne: no step brings a channel other than the lobby above its limit.
THEOREM LimitsHold == Spec => RoomForOne
<1>1. ASSUME TypeInv, IdInv, [Next]_vars
      PROVE  [\A ch \in Chan \ {Lobby} :
                 Cardinality(users'[ch]) > Cardinality(users[ch])
                   => maxIn[ch] < 0 \/ Cardinality(users'[ch]) <= maxIn[ch]]_vars
  BY <1>1, RoomStep
<1>2. QED
  BY <1>1, IdAlways, PTL DEF Spec, RoomForOne

-----------------------------------------------------------------------------
(* Seats, when no channel is deleted with more than two people in it *)

\* The lobby stays, no channel is brought back by a kick, and ids that were not
\* handed out name no channel.
ChannelsInOrder ==
    /\ chanType[Lobby] = "perm"
    /\ \A ch \in Chan : /\ chanType[ch] # "phantom"
                        /\ ch >= nextChan => chanType[ch] = "none"

\* Everybody online is listed in exactly one channel, which exists and is the
\* one in the cache.
PeopleSeated ==
    \A i \in Live : /\ userChannelCache[i] # Nowhere
                    /\ chanType[userChannelCache[i]] \in {"temp", "perm"}
                    /\ \A ch \in Chan : i \in users[ch] <=> userChannelCache[i] = ch

SeatInv == PeopleSeated /\ ChannelsInOrder

Behind == TypeInv /\ IdInv

LEMMA LobbyIs == Lobby \in Chan /\ Nowhere \notin Chan /\ Lobby = 1 /\ Nowhere = 0
  BY SessionsAssumption DEF Lobby, Chan, Nowhere

LEMMA SeatInit == Init => SeatInv
  BY LobbyIs, SessionsAssumption DEF Init, SeatInv, PeopleSeated, ChannelsInOrder, Live, Chan

\* The place of somebody online.
LEMMA SeatOf ==
    ASSUME Behind, SeatInv, NEW i \in Live
    PROVE  /\ i \in Sid /\ userChannelCache[i] \in Chan
           /\ chanType[userChannelCache[i]] \in {"temp", "perm"}
           /\ \A ch \in Chan : i \in users[ch] <=> userChannelCache[i] = ch
  BY DEF SeatInv, PeopleSeated, Live, Behind, TypeInv, TypeOK

LEMMA SeatArrival ==
    ASSUME Behind, SeatInv, NEW c \in Conn, NEW u \in Uid, NEW n \in Nick, NEW drawn \in BOOLEAN,
           Arrives(c, u, n, drawn)
    PROVE  SeatInv'
<1> DEFINE old == Duplicate(u)
           me == nextId
<1>1. /\ me \in Sid \ Live /\ old \subseteq Live
      /\ Live' = (Live \ old) \cup {me}
      /\ UNCHANGED chanVars
  BY AfterArrival DEF Behind, Duplicate
<1>2. /\ users' = [ch \in Chan |-> IF ch = Lobby THEN (users[ch] \ old) \cup {me}
                                   ELSE (users[ch] \ old) \ {me}]
      /\ userChannelCache' = [i \in Sid |-> IF i = me THEN Lobby
                                            ELSE IF i \in old THEN Nowhere ELSE userChannelCache[i]]
  BY <1>1 DEF Arrives, Enter, UsersWithout, CacheWithout, Behind, TypeInv, TypeOK
<1> HIDE DEF old, me
<1>3. ASSUME NEW i \in Sid, i = me
      PROVE  /\ userChannelCache'[i] = Lobby
             /\ \A ch \in Chan : i \in users'[ch] <=> ch = Lobby
  BY <1>1, <1>2, <1>3
<1>4. ASSUME NEW i \in Live \ old
      PROVE  /\ userChannelCache'[i] = userChannelCache[i]
             /\ \A ch \in Chan : i \in users'[ch] <=> i \in users[ch]
  BY <1>1, <1>2, SeatOf
<1>5. chanType' = chanType /\ chanType[Lobby] = "perm"
  BY <1>1 DEF chanVars, SeatInv, ChannelsInOrder
<1>6. ASSUME NEW i \in Live'
      PROVE  /\ userChannelCache'[i] # Nowhere
             /\ chanType'[userChannelCache'[i]] \in {"temp", "perm"}
             /\ \A ch \in Chan : i \in users'[ch] <=> userChannelCache'[i] = ch
  <2>1. CASE i = me
    BY <1>1, <1>3, <1>5, <2>1, LobbyIs
  <2>2. CASE i \in Live \ old
    BY <1>4, <1>5, <2>2, SeatOf, LobbyIs
  <2>3. QED
    BY <1>1, <2>1, <2>2
<1>7. ChannelsInOrder'
  BY <1>1 DEF chanVars, SeatInv, ChannelsInOrder
<1>8. QED
  BY <1>6, <1>7 DEF SeatInv, PeopleSeated

\* Those who stay keep their places, in channels that stay.
LEMMA SeatLeave ==
    ASSUME Behind, SeatInv, NEW C \in SUBSET Conn, Leave(C), ChannelsInOrder',
           \A i \in Live' : chanType'[userChannelCache[i]] = chanType[userChannelCache[i]]
    PROVE  SeatInv'
<1> DEFINE gone == SidsOf(C)
<1>1. /\ Live' = Live \ gone
      /\ users' = [ch \in Chan |-> users[ch] \ gone]
      /\ userChannelCache' = [i \in Sid |-> IF i \in gone THEN Nowhere ELSE userChannelCache[i]]
  BY AfterExit DEF Behind, UsersWithout, CacheWithout
<1> HIDE DEF gone
<1>2. ASSUME NEW i \in Live'
      PROVE  /\ userChannelCache'[i] # Nowhere
             /\ chanType'[userChannelCache'[i]] \in {"temp", "perm"}
             /\ \A ch \in Chan : i \in users'[ch] <=> userChannelCache'[i] = ch
  <2>1. i \in Live /\ i \notin gone
    BY <1>1, <1>2
  <2>2. userChannelCache'[i] = userChannelCache[i]
    BY <1>1, <2>1, SeatOf
  <2>3. QED
    BY <1>1, <2>1, <2>2, SeatOf, LobbyIs
<1>3. QED
  BY <1>2 DEF SeatInv, PeopleSeated

LEMMA SeatTick ==
    ASSUME Behind, SeatInv, NEW idle \in SUBSET Conn, Tick(idle)
    PROVE  SeatInv'
<1> DEFINE gone == SidsOf(idle)
           empty == Abandoned(gone)
<1>1. /\ Leave(idle)
      /\ chanType' = [ch \in Chan |-> IF ch \in empty THEN "none" ELSE chanType[ch]]
  BY Exits DEF Behind, Tick
<1>2. Live' = Live \ gone /\ UNCHANGED nextChan
  BY <1>1, AfterExit DEF Behind
<1>3. \A i \in Live' : userChannelCache[i] \notin empty
  BY <1>2, SeatOf DEF Abandoned
<1>4. Lobby \notin empty
  BY DEF Abandoned, SeatInv, ChannelsInOrder
<1> HIDE DEF empty, gone
<1>5. ChannelsInOrder'
  BY <1>1, <1>2, <1>4, LobbyIs DEF SeatInv, ChannelsInOrder
<1>6. \A i \in Live' : chanType'[userChannelCache[i]] = chanType[userChannelCache[i]]
  BY <1>1, <1>2, <1>3, SeatOf
<1>7. QED
  BY <1>1, <1>5, <1>6, SeatLeave

LEMMA SeatSeat ==
    ASSUME Behind, SeatInv, NEW i \in Sid, NEW ch \in Chan, chanType[ch] # "none", Seat(i, ch),
           UNCHANGED <<clients, chanVars>>
    PROVE  SeatInv'
<1>1. chanType[ch] \in {"temp", "perm"}
  BY DEF SeatInv, ChannelsInOrder, Behind, TypeInv, TypeOK, ChanTypes
<1>2. \A j \in Live : j \in Sid
  BY SeatOf
<1>3. \A j \in Sid : userChannelCache'[j] = IF j = i THEN ch ELSE userChannelCache[j]
  BY DEF Seat, Behind, TypeInv, TypeOK
<1>4. \A j \in Sid, d \in Chan :
         j \in users'[d] <=> IF j = i THEN d = ch ELSE j \in users[d]
  BY DEF Seat
<1>5. ASSUME NEW j \in Live
      PROVE  /\ userChannelCache'[j] # Nowhere
             /\ chanType[userChannelCache'[j]] \in {"temp", "perm"}
             /\ \A d \in Chan : j \in users'[d] <=> userChannelCache'[j] = d
  <2>1. CASE j = i
    BY <1>1, <1>2, <1>3, <1>4, <2>1, LobbyIs
  <2>2. CASE j # i
    BY <1>2, <1>3, <1>4, <2>2, SeatOf, LobbyIs
  <2>3. QED
    BY <2>1, <2>2
<1>6. Live' = Live /\ chanType' = chanType
  BY DEF Live, chanVars
<1>7. ChannelsInOrder'
  BY DEF ChannelsInOrder, SeatInv, chanVars
<1>8. QED
  BY <1>5, <1>6, <1>7 DEF SeatInv, PeopleSeated

LEMMA SeatKick ==
    ASSUME Behind, SeatInv, NEW c \in Conn, NEW i \in Sid, KickFromChannel(c, i)
    PROVE  i \in Live /\ UNCHANGED <<tableVars, objVars, chanVars, keptVars>>
           /\ (Seat(i, Lobby) \/ UNCHANGED seatVars)
<1>1. i \in Live /\ UNCHANGED <<tableVars, objVars, nextChan, keptVars>>
      /\ (Seat(i, Lobby) \/ UNCHANGED seatVars)
  BY DEF KickFromChannel
<1>2. ChannelOf(i) # Nowhere /\ chanType[ChannelOf(i)] # "none"
  BY <1>1, SeatOf, LobbyIs DEF ChannelOf
<1>3. UNCHANGED <<chanType, maxIn>>
  BY <1>2 DEF KickFromChannel
<1>4. QED
  BY <1>1, <1>3 DEF chanVars

\* Of one or two people in a channel that is deleted, the loop passes over none.
LEMMA FewAreMoved ==
    ASSUME NEW S \in SUBSET Sid, Cardinality(S) <= 2
    PROVE  PassedOver(S) = {{}}
<1>1. IsFiniteSet(S) /\ Cardinality(S) \in Nat
  BY SidsAreFinite, FS_Subset, FS_CardinalityType
<1>2. S # {} => Cardinality(S) # 0
  BY <1>1, FS_EmptySet
<1>3. (IF S = {} THEN 0 ELSE (Cardinality(S) - 1) \div 2) = 0
  <2>1. Cardinality(S) \in {0, 1, 2}
    BY <1>1
  <2>2. 0 \div 2 = 0 /\ 1 \div 2 = 0
    OBVIOUS
  <2>3. QED
    BY <1>2, <2>1, <2>2
<1>4. \A T \in SUBSET S : Cardinality(T) = 0 <=> T = {}
  <2>1. \A T \in SUBSET S : IsFiniteSet(T)
    BY <1>1, FS_Subset
  <2>2. QED
    BY <2>1, FS_EmptySet
<1>5. QED
  BY <1>3, <1>4 DEF PassedOver

LEMMA NobodyPassedOver ==
    ASSUME DeleteLimit <= 2, NEW S \in SUBSET Sid, Cardinality(S) <= DeleteLimit
    PROVE  PassedOver(S) = {{}}
<1>1. Cardinality(S) \in Nat /\ DeleteLimit \in Nat
  BY SidsAreFinite, FS_Subset, FS_CardinalityType, SessionsAssumption
<1>2. QED
  BY <1>1, FewAreMoved

LEMMA SeatDelete ==
    ASSUME DeleteLimit <= 2, Behind, SeatInv, NEW c \in Conn, NEW ch \in Chan, ChanDelete(c, ch)
    PROVE  /\ ch # Lobby /\ chanType[ch] # "none"
           /\ users' = [d \in Chan |-> IF d = Lobby THEN users[d] \cup users[ch]
                                       ELSE IF d = ch THEN {} ELSE users[d]]
           /\ userChannelCache' = [i \in Sid |-> IF i \in users[ch] THEN Lobby
                                                 ELSE userChannelCache[i]]
           /\ chanType' = [chanType EXCEPT ![ch] = "none"]
           /\ UNCHANGED <<objVars, tableVars, nextChan, keptVars>>
           /\ SeatInv'
<1>1. users[ch] \in SUBSET Sid
  BY DEF Behind, TypeInv, TypeOK
<1>2. PassedOver(users[ch]) = {{}}
  BY <1>1, NobodyPassedOver DEF ChanDelete
<1>3. /\ ch # Lobby /\ chanType[ch] # "none"
      /\ users' = [d \in Chan |-> IF d = Lobby THEN users[d] \cup users[ch]
                                  ELSE IF d = ch THEN {} ELSE users[d]]
      /\ userChannelCache' = [i \in Sid |-> IF i \in users[ch] THEN Lobby
                                            ELSE userChannelCache[i]]
      /\ chanType' = [chanType EXCEPT ![ch] = "none"]
      /\ UNCHANGED <<objVars, tableVars, nextChan, keptVars>>
  BY <1>2 DEF ChanDelete
<1>4. Live' = Live
  BY <1>3 DEF tableVars, Live
<1>5. chanType' \in [Chan -> ChanTypes] /\ \A d \in Chan : d # ch => chanType'[d] = chanType[d]
  BY <1>3 DEF Behind, TypeInv, TypeOK, ChanTypes
<1>6. ASSUME NEW i \in Live
      PROVE  /\ userChannelCache'[i] # Nowhere
             /\ chanType'[userChannelCache'[i]] \in {"temp", "perm"}
             /\ \A d \in Chan : i \in users'[d] <=> userChannelCache'[i] = d
  <2>1. CASE i \in users[ch]
    <3>1. userChannelCache[i] = ch /\ userChannelCache'[i] = Lobby
      BY <1>3, <2>1, SeatOf
    <3>2. chanType'[Lobby] = "perm"
      BY <1>3, <1>5, LobbyIs DEF SeatInv, ChannelsInOrder
    <3>3. \A d \in Chan : i \in users'[d] <=> d = Lobby
      BY <1>3, <2>1, <3>1, SeatOf
    <3>4. QED
      BY <3>1, <3>2, <3>3, LobbyIs
  <2>2. CASE i \notin users[ch]
    <3>1. userChannelCache'[i] = userChannelCache[i] /\ userChannelCache[i] # ch
      BY <1>3, <2>2, SeatOf
    <3>2. \A d \in Chan : i \in users'[d] <=> i \in users[d]
      BY <1>3, <2>2
    <3>3. userChannelCache[i] \in Chan /\ chanType[userChannelCache[i]] \in {"temp", "perm"}
          /\ \A d \in Chan : i \in users[d] <=> userChannelCache[i] = d
      BY SeatOf
    <3>4. chanType'[userChannelCache[i]] = chanType[userChannelCache[i]]
      BY <1>5, <3>1, <3>3
    <3>5. userChannelCache'[i] # Nowhere
      BY <3>1, <3>3, LobbyIs
    <3>6. QED
      BY <3>1, <3>2, <3>3, <3>4, <3>5
  <2>3. QED
    BY <2>1, <2>2
<1>7. ChannelsInOrder'
  BY <1>3, <1>5, LobbyIs DEF SeatInv, ChannelsInOrder
<1>8. SeatInv'
  BY <1>4, <1>6, <1>7 DEF SeatInv, PeopleSeated
<1>9. QED
  BY <1>3, <1>8

\* Who is online, and where, stays; channels that were there stay.
LEMMA SeatKept ==
    ASSUME Behind, SeatInv, UNCHANGED <<clients, seatVars>>, ChannelsInOrder',
           \A ch \in Chan : chanType[ch] \in {"temp", "perm"} => chanType'[ch] \in {"temp", "perm"}
    PROVE  SeatInv'
<1>1. Live' = Live /\ UNCHANGED <<users, userChannelCache>>
  BY DEF Live, seatVars
<1>2. \A i \in Live : chanType'[userChannelCache[i]] \in {"temp", "perm"}
  BY SeatOf
<1>3. QED
  BY <1>1, <1>2 DEF SeatInv, PeopleSeated

\* What becomes of the channels in a creation and in an edit.
LEMMA ChannelsAfter ==
    ASSUME Behind, SeatInv, NEW c \in Conn, NEW kind \in {"temp", "perm"}, NEW max \in Caps
    PROVE  /\ ChanCreate(c, kind, max) =>
                 /\ nextChan \in Chan /\ chanType[nextChan] = "none"
                 /\ ChannelsInOrder'
                 /\ \/ chanType' = [chanType EXCEPT ![nextChan] = kind]
                    \/ chanType' = chanType
           /\ \A ch \in Chan : ChanEdit(c, ch, kind, max) =>
                 /\ ChannelsInOrder'
                 /\ chanType[ch] \in {"temp", "perm"}
                 /\ \/ chanType' = [chanType EXCEPT ![ch] = kind]
                    \/ chanType' = chanType
<1>1. chanType \in [Chan -> ChanTypes] /\ nextChan \in Nat /\ nextChan >= 2 /\ \A d \in Chan : d \in Nat
  BY SessionsAssumption DEF Behind, TypeInv, TypeOK, Chan
<1>2. ASSUME ChanCreate(c, kind, max)
      PROVE  /\ nextChan \in Chan /\ chanType[nextChan] = "none"
             /\ ChannelsInOrder'
             /\ \/ chanType' = [chanType EXCEPT ![nextChan] = kind]
                \/ chanType' = chanType
  <2>1. /\ nextChan \in Chan /\ nextChan' = nextChan + 1 /\ nextChan # Lobby
        /\ \/ chanType' = [chanType EXCEPT ![nextChan] = kind]
           \/ chanType' = chanType
    BY <1>1, <1>2, LobbyIs DEF ChanCreate
  <2>2. \A d \in Chan : d >= nextChan + 1 => d >= nextChan /\ d # nextChan
    BY <1>1
  <2>3. QED
    BY <1>1, <2>1, <2>2, LobbyIs DEF SeatInv, ChannelsInOrder
<1>3. ASSUME NEW ch \in Chan, ChanEdit(c, ch, kind, max)
      PROVE  /\ ChannelsInOrder'
             /\ chanType[ch] \in {"temp", "perm"}
             /\ \/ chanType' = [chanType EXCEPT ![ch] = kind]
                \/ chanType' = chanType
  <2>1. chanType[ch] \in {"temp", "perm"}
    BY <1>1, <1>3 DEF ChanEdit, ChanTypes, SeatInv, ChannelsInOrder
  <2>2. /\ nextChan' = nextChan
        /\ chanType' = IF ch = Lobby THEN chanType ELSE [chanType EXCEPT ![ch] = kind]
    BY <1>3, <2>1 DEF ChanEdit
  <2>3. QED
    BY <1>1, <2>1, <2>2, LobbyIs DEF SeatInv, ChannelsInOrder
<1>4. QED
  BY <1>2, <1>3

LEMMA SeatStep == DeleteLimit <= 2 /\ Behind /\ SeatInv /\ [Next]_vars => SeatInv'
<1> SUFFICES ASSUME DeleteLimit <= 2, Behind, SeatInv, [Next]_vars PROVE SeatInv'
  OBVIOUS
<1>1. ASSUME UNCHANGED <<clients, seatVars, chanVars>> PROVE SeatInv'
  <2>1. ChannelsInOrder'
    BY <1>1 DEF chanVars, SeatInv, ChannelsInOrder
  <2>2. QED
    BY <1>1, <2>1, SeatKept DEF chanVars
<1>2. ASSUME NEW C \in SUBSET Conn, Exit(C) PROVE SeatInv'
  <2>1. ChannelsInOrder' /\ chanType' = chanType
    BY <1>2 DEF Exit, chanVars, SeatInv, ChannelsInOrder
  <2>2. QED
    BY <1>2, <2>1, SeatLeave DEF Exit
<1>3. ASSUME NEW c \in Conn, NEW d \in Conn, NEW n \in Nick, Rename(c, d, n) PROVE SeatInv'
  BY <1>1, <1>3 DEF Rename, tableVars
<1>4. ASSUME NEW i \in Sid, NEW ch \in Chan, Walks(i, ch) PROVE SeatInv'
  BY <1>4, SeatSeat DEF Walks, tableVars
<1>5. ASSUME NEW c \in Conn, NEW i \in Sid, KickFromChannel(c, i) PROVE SeatInv'
  <2>1. /\ i \in Live /\ UNCHANGED <<clients, chanVars>>
        /\ Seat(i, Lobby) \/ UNCHANGED seatVars
    BY <1>5, SeatKick DEF tableVars
  <2>2. chanType[Lobby] # "none"
    BY DEF SeatInv, ChannelsInOrder
  <2>3. QED
    BY <1>1, <2>1, <2>2, SeatSeat, LobbyIs
<1>6. ASSUME NEW c \in Conn, NEW ch \in Chan, ChanDelete(c, ch) PROVE SeatInv'
  BY <1>6, SeatDelete
<1>7. ASSUME NEW c \in Conn, NEW kind \in {"temp", "perm"}, NEW max \in Caps,
             ChanCreate(c, kind, max) \/ \E ch \in Chan : ChanEdit(c, ch, kind, max)
      PROVE  SeatInv'
  <2>1. /\ UNCHANGED <<clients, seatVars>> /\ ChannelsInOrder'
        /\ \E ch \in Chan : chanType' = [chanType EXCEPT ![ch] = kind] \/ chanType' = chanType
    BY <1>7, ChannelsAfter DEF ChanCreate, ChanEdit, tableVars
  <2>2. chanType \in [Chan -> ChanTypes]
    BY DEF Behind, TypeInv, TypeOK
  <2>3. QED
    BY <2>1, <2>2, SeatKept
<1>8. CASE Bans
  BY <1>1, <1>8 DEF Bans, tableVars
<1>9. CASE Unseen
  BY <1>1, <1>9 DEF Unseen
<1>10. StepKind
  BY KindOfStep DEF Behind
<1>11. QED
  BY <1>2, <1>3, <1>4, <1>5, <1>6, <1>7, <1>8, <1>9, <1>10, SeatArrival, SeatTick DEF StepKind

LEMMA SeatAlways ==
    ASSUME DeleteLimit <= 2
    PROVE  Spec => [](Behind /\ SeatInv)
<1>1. Init => SeatInv
  BY SeatInit
<1>2. (TypeInv /\ IdInv) /\ SeatInv /\ [Next]_vars => SeatInv'
  BY SeatStep DEF Behind
<1>3. TypeInv /\ IdInv /\ SeatInv => Behind /\ SeatInv
  BY DEF Behind
<1>4. QED
  BY <1>1, <1>2, <1>3, IdAlways, PTL DEF Spec

\* Everybody online sits in exactly one channel, which exists and is the one that
\* the relay of voice believes in, as long as no channel is deleted with more
\* than two people in it.  This holds whatever a session reads after it closed
\* itself, though such a session may leave the id it had in lists and cache.
THEOREM PeopleAreSeated ==
    ASSUME DeleteLimit <= 2
    PROVE  Spec => []PeopleSeated
<1>1. Behind /\ SeatInv => PeopleSeated
  BY DEF SeatInv
<1>2. QED
  BY <1>1, SeatAlways, PTL

\* Nobody else has an entry in the cache.
DeadUnseated == \A i \in Sid \ Live : userChannelCache[i] = Nowhere

LEMMA DeadUnseatedStep ==
    ASSUME TypeInv, IdInv, ObjInv, GhostInv, DeadUnseated, [Next]_vars
    PROVE  DeadUnseated'
<1> USE DEF DeadUnseated
<1>1. ASSUME UNCHANGED <<clients, userChannelCache>> PROVE DeadUnseated'
  BY <1>1 DEF Live
<1>2. ASSUME NEW C \in SUBSET Conn, Leave(C) PROVE DeadUnseated'
  BY <1>2, AfterExit DEF CacheWithout, Leave, Reap, ClientsWithout, Live
<1>3. ASSUME NEW i \in Live, NEW ch \in Chan, Seat(i, ch), UNCHANGED clients PROVE DeadUnseated'
  BY <1>3 DEF Seat, Live, TypeInv, TypeOK
<1>4. ASSUME NEW c \in Conn, NEW u \in Uid, NEW n \in Nick, NEW drawn \in BOOLEAN,
             Arrives(c, u, n, drawn)
      PROVE  DeadUnseated'
  <2>1. Live' = (Live \ Duplicate(u)) \cup {nextId} /\ nextId \in Sid
    BY <1>4, AfterArrival
  <2>2. userChannelCache' = [CacheWithout(Duplicate(u)) EXCEPT ![nextId] = Lobby]
    BY <1>4 DEF Arrives, Enter
  <2>3. QED
    BY <2>1, <2>2 DEF CacheWithout
\* A line of a session that closed itself would break this.
<1>5. ASSUME NEW i \in Sid, NEW ch \in Chan, Walks(i, ch) PROVE DeadUnseated'
  <2>1. i \in Live
    BY <1>5, SpeakerIsLive DEF Walks
  <2>2. QED
    BY <1>3, <1>5, <2>1 DEF Walks, tableVars
<1>6. ASSUME NEW c \in Conn, NEW i \in Sid, KickFromChannel(c, i) PROVE DeadUnseated'
  BY <1>1, <1>3, <1>6, LobbyIs DEF KickFromChannel, tableVars, seatVars
<1>7. ASSUME NEW c \in Conn, NEW ch \in Chan, ChanDelete(c, ch) PROVE DeadUnseated'
  <2>1. users[ch] \subseteq Live /\ Live' = Live
    BY <1>7 DEF GhostInv, NoGhosts, ChanDelete, tableVars, Live
  <2>2. QED
    BY <1>7, <2>1 DEF ChanDelete
<1>8. ASSUME NEW idle \in SUBSET Conn, Tick(idle) PROVE DeadUnseated'
  BY <1>2, <1>8, Exits
<1>9. QED
  BY <1>1, <1>2, <1>4, <1>5, <1>6, <1>7, <1>8, KindOfStep
     DEF StepKind, Exit, Rename, ChanCreate, ChanEdit, Bans, Unseen, tableVars, seatVars

\* Seated: moreover nobody else has an entry in the cache, when a session that
\* closed itself reads nothing more.
THEOREM EverybodyIsSeated ==
    ASSUME Trailing = FALSE, DeleteLimit <= 2
    PROVE  Spec => []Seated
<1>1. Init => GhostInv /\ DeadUnseated
  BY GhostInit DEF Init, DeadUnseated
<1>2. (TypeInv /\ IdInv) /\ ObjInv /\ GhostInv /\ [Next]_vars => GhostInv'
  BY GhostStep
<1>3. (TypeInv /\ IdInv) /\ ObjInv /\ GhostInv /\ DeadUnseated /\ [Next]_vars => DeadUnseated'
  BY DeadUnseatedStep
<1>4. Behind /\ SeatInv /\ DeadUnseated => Seated
  BY DEF SeatInv, PeopleSeated, DeadUnseated, Seated
<1>5. QED
  BY <1>1, <1>2, <1>3, <1>4, IdAlways, ObjAlways, SeatAlways, PTL DEF Spec

-----------------------------------------------------------------------------
(* What costs somebody a seat, whatever channels are deleted *)

\* The session i is listed in one channel, which exists and is the one in the cache.
HasSeat(i) ==
    /\ userChannelCache[i] \in Chan
    /\ chanType[userChannelCache[i]] # "none"
    /\ \A ch \in Chan : i \in users[ch] <=> userChannelCache[i] = ch

\* i was in a channel that went with more than two people in it.
Evacuated(i) ==
    \E ch \in Chan : /\ i \in users[ch] /\ Cardinality(users[ch]) > 2
                     /\ chanType[ch] # "none" /\ chanType'[ch] = "none"

LobbyStays == chanType[Lobby] = "perm"

LEMMA LobbyStaysStep == Behind /\ LobbyStays /\ [Next]_vars => LobbyStays'
<1> SUFFICES ASSUME Behind, LobbyStays, [Next]_vars PROVE LobbyStays'
  OBVIOUS
<1> USE LobbyIs DEF LobbyStays
<1>0. chanType \in [Chan -> ChanTypes] /\ nextChan # Lobby
  BY SessionsAssumption DEF Behind, TypeInv, TypeOK
<1>1. ASSUME NEW idle \in SUBSET Conn, Tick(idle) PROVE LobbyStays'
  BY <1>1 DEF Tick, Abandoned
<1>2. ASSUME NEW c \in Conn, NEW i \in Sid, KickFromChannel(c, i) PROVE LobbyStays'
  BY <1>0, <1>2 DEF KickFromChannel
<1>3. ASSUME NEW c \in Conn, NEW ch \in Chan, ChanDelete(c, ch) PROVE LobbyStays'
  BY <1>0, <1>3 DEF ChanDelete
<1>4. ASSUME NEW c \in Conn, NEW kind \in {"temp", "perm"}, NEW max \in Caps,
             ChanCreate(c, kind, max) \/ \E ch \in Chan : ChanEdit(c, ch, kind, max)
      PROVE  LobbyStays'
  BY <1>0, <1>4 DEF ChanCreate, ChanEdit
<1>5. ASSUME UNCHANGED chanVars PROVE LobbyStays'
  BY <1>5 DEF chanVars
<1>6. ASSUME NEW c \in Conn, NEW u \in Uid, NEW n \in Nick, NEW drawn \in BOOLEAN,
             Arrives(c, u, n, drawn)
      PROVE  LobbyStays'
  BY <1>5, <1>6, AfterArrival DEF Behind
<1>7. StepKind
  BY KindOfStep DEF Behind
<1>8. QED
  BY <1>1, <1>2, <1>3, <1>4, <1>5, <1>6, <1>7 DEF StepKind, Exit, Rename, Walks, Bans, Unseen

\* Who is put somewhere has a seat there, and nobody else notices.
LEMMA SeatTaken ==
    ASSUME Behind, NEW i \in Sid, HasSeat(i), NEW j \in Sid, NEW ch \in Chan, chanType[ch] # "none",
           Seat(j, ch), \A d \in Chan : chanType[d] # "none" => chanType'[d] # "none"
    PROVE  HasSeat(i)'
<1>1. userChannelCache'[i] = IF i = j THEN ch ELSE userChannelCache[i]
  BY DEF Seat, Behind, TypeInv, TypeOK
<1>2. \A d \in Chan : i \in users'[d] <=> IF i = j THEN d = ch ELSE i \in users[d]
  BY DEF Seat
<1>3. QED
  BY <1>1, <1>2 DEF HasSeat

LEMMA SeatUntouched ==
    ASSUME NEW i \in Sid, HasSeat(i), UNCHANGED seatVars,
           \A d \in Chan : chanType[d] # "none" => chanType'[d] # "none"
    PROVE  HasSeat(i)'
  BY DEF HasSeat, seatVars

LEMMA SeatAmongLeavers ==
    ASSUME Behind, NEW C \in SUBSET Conn, Leave(C), NEW i \in Live \cap Live', HasSeat(i),
           chanType'[userChannelCache[i]] = chanType[userChannelCache[i]]
    PROVE  HasSeat(i)'
<1>1. /\ i \notin SidsOf(C) /\ i \in Sid
      /\ users' = [ch \in Chan |-> users[ch] \ SidsOf(C)]
      /\ userChannelCache' = [j \in Sid |-> IF j \in SidsOf(C) THEN Nowhere ELSE userChannelCache[j]]
  BY AfterExit DEF Behind, UsersWithout, CacheWithout, Live
<1>2. QED
  BY <1>1 DEF HasSeat

LEMMA SeatInDeletion ==
    ASSUME Behind, LobbyStays, NEW c \in Conn, NEW ch \in Chan, ChanDelete(c, ch),
           NEW i \in Sid, HasSeat(i)
    PROVE  HasSeat(i)' \/ Evacuated(i)
<1>0. chanType \in [Chan -> ChanTypes] /\ users[ch] \in SUBSET Sid
  BY DEF Behind, TypeInv, TypeOK
<1>1. PICK lost \in PassedOver(users[ch]) :
         /\ users' = [d \in Chan |-> IF d = Lobby THEN users[d] \cup (users[ch] \ lost)
                                     ELSE IF d = ch THEN {} ELSE users[d]]
         /\ userChannelCache' = [j \in Sid |-> IF j \in users[ch] \ lost THEN Lobby
                                               ELSE userChannelCache[j]]
  BY DEF ChanDelete
<1>2. /\ ch # Lobby /\ chanType[ch] # "none"
      /\ \A d \in Chan : chanType'[d] = IF d = ch THEN "none" ELSE chanType[d]
  BY <1>0 DEF ChanDelete
<1>3. CASE i \notin users[ch]
  BY <1>1, <1>2, <1>3, LobbyIs DEF HasSeat
<1>4. CASE i \in users[ch] /\ ~(Cardinality(users[ch]) > 2)
  <2>1. Cardinality(users[ch]) \in Nat
    BY <1>0, SidsAreFinite, FS_Subset, FS_CardinalityType
  <2>2. lost = {}
    BY <1>0, <1>1, <1>4, <2>1, FewAreMoved
  <2>3. userChannelCache'[i] = Lobby /\ chanType'[Lobby] # "none"
    BY <1>1, <1>2, <1>4, <2>2, LobbyIs DEF LobbyStays
  <2>4. \A d \in Chan : i \in users'[d] <=> d = Lobby
    BY <1>1, <1>2, <1>4, <2>2 DEF HasSeat
  <2>5. QED
    BY <2>3, <2>4, LobbyIs DEF HasSeat
<1>5. CASE i \in users[ch] /\ Cardinality(users[ch]) > 2
  BY <1>2, <1>5 DEF Evacuated
<1>6. QED
  BY <1>3, <1>4, <1>5

LEMMA SeatLostStep ==
    ASSUME Behind, LobbyStays, [Next]_vars, NEW i \in Live \cap Live', HasSeat(i)
    PROVE  HasSeat(i)' \/ Evacuated(i)
<1>0. i \in Sid /\ chanType \in [Chan -> ChanTypes]
  BY DEF Live, Behind, TypeInv, TypeOK
<1>1. ASSUME UNCHANGED <<seatVars, chanVars>> PROVE HasSeat(i)'
  BY <1>0, <1>1, SeatUntouched DEF chanVars
<1>2. ASSUME NEW c \in Conn, NEW u \in Uid, NEW n \in Nick, NEW drawn \in BOOLEAN, Arrives(c, u, n, drawn)
      PROVE  HasSeat(i)'
  <2> DEFINE old == Duplicate(u)
  <2>1. /\ nextId \in Sid \ Live /\ i # nextId /\ i \notin old /\ UNCHANGED chanVars
    <3>1. nextId \in Sid \ Live /\ old \subseteq Live /\ Live' = (Live \ old) \cup {nextId} /\ UNCHANGED chanVars
      BY <1>2, AfterArrival DEF Behind, Duplicate
    <3>2. QED
      BY <3>1
  <2>2. /\ \A ch \in Chan : i \in users'[ch] <=> i \in users[ch]
        /\ userChannelCache'[i] = userChannelCache[i]
    BY <1>0, <1>2, <2>1 DEF Arrives, Enter, UsersWithout, CacheWithout, Behind, TypeInv, TypeOK
  <2>3. QED
    BY <2>1, <2>2 DEF HasSeat, chanVars
<1>3. ASSUME NEW C \in SUBSET Conn, Exit(C) PROVE HasSeat(i)'
  BY <1>3, SeatAmongLeavers DEF Exit, chanVars
<1>4. ASSUME NEW idle \in SUBSET Conn, Tick(idle) PROVE HasSeat(i)'
  <2>1. /\ Leave(idle)
        /\ chanType' = [ch \in Chan |-> IF ch \in Abandoned(SidsOf(idle)) THEN "none" ELSE chanType[ch]]
    BY <1>4, Exits DEF Behind, Tick
  <2>2. i \notin SidsOf(idle)
    BY <2>1, AfterExit DEF Behind
  <2>3. userChannelCache[i] \notin Abandoned(SidsOf(idle))
    BY <2>2 DEF Abandoned, HasSeat
  <2>4. chanType'[userChannelCache[i]] = chanType[userChannelCache[i]]
    BY <2>1, <2>3 DEF HasSeat
  <2>5. QED
    BY <2>1, <2>4, SeatAmongLeavers
<1>5. ASSUME NEW j \in Sid, NEW ch \in Chan, Walks(j, ch) PROVE HasSeat(i)'
  BY <1>0, <1>5, SeatTaken DEF Walks, chanVars
<1>6. ASSUME NEW c \in Conn, NEW j \in Sid, KickFromChannel(c, j) PROVE HasSeat(i)'
  <2>1. \A d \in Chan : chanType[d] # "none" => chanType'[d] # "none"
    BY <1>0, <1>6 DEF KickFromChannel
  <2>2. Seat(j, Lobby) \/ UNCHANGED seatVars
    BY <1>6 DEF KickFromChannel
  <2>3. QED
    BY <1>0, <2>1, <2>2, SeatTaken, SeatUntouched, LobbyIs DEF LobbyStays
<1>7. ASSUME NEW c \in Conn, NEW ch \in Chan, ChanDelete(c, ch) PROVE HasSeat(i)' \/ Evacuated(i)
  BY <1>0, <1>7, SeatInDeletion
<1>8. ASSUME NEW c \in Conn, NEW kind \in {"temp", "perm"}, NEW max \in Caps,
             ChanCreate(c, kind, max) \/ \E ch \in Chan : ChanEdit(c, ch, kind, max)
      PROVE  HasSeat(i)'
  <2>1. UNCHANGED seatVars /\ \A d \in Chan : chanType[d] # "none" => chanType'[d] # "none"
    BY <1>0, <1>8 DEF ChanCreate, ChanEdit
  <2>2. QED
    BY <1>0, <2>1, SeatUntouched
<1>9. ASSUME NEW c \in Conn, NEW d \in Conn, NEW n \in Nick, Rename(c, d, n) PROVE HasSeat(i)'
  BY <1>1, <1>9 DEF Rename
<1>10. CASE Bans \/ Unseen
  BY <1>1, <1>10 DEF Bans, Unseen
<1>11. StepKind
  BY KindOfStep DEF Behind
<1>12. QED
  BY <1>2, <1>3, <1>4, <1>5, <1>6, <1>7, <1>8, <1>9, <1>10, <1>11 DEF StepKind

\* One kind of step only takes the seat of somebody who stays online: the
\* deletion of a channel with more than two people in it, of whom the person is
\* one.  No move, kick, login, exit, timer or edit does, whatever came before.
THEOREM SeatsLostByDeletionOnly ==
    Spec => [][\A i \in Live \cap Live' : HasSeat(i) /\ ~HasSeat(i)' => Evacuated(i)]_vars
<1>1. Init => LobbyStays
  BY LobbyIs DEF Init, LobbyStays
<1>2. (TypeInv /\ IdInv) /\ LobbyStays /\ [Next]_vars => LobbyStays'
  BY LobbyStaysStep DEF Behind
<1>3. (TypeInv /\ IdInv) /\ LobbyStays /\ [Next]_vars
      => [\A i \in Live \cap Live' : HasSeat(i) /\ ~HasSeat(i)' => Evacuated(i)]_vars
  BY SeatLostStep DEF Behind
<1>4. QED
  BY <1>1, <1>2, <1>3, IdAlways, PTL DEF Spec

-----------------------------------------------------------------------------
(* Sessions implements Roster *)

LEMMA PlaceIs ==
    ASSUME OneSessionPerIdentity, NEW i \in Live
    PROVE  PlaceOf(uid[clients[i]]) = userChannelCache[i]
<1>1. \A j \in Live : uid[clients[j]] = uid[clients[i]] <=> j = i
  BY DEF OneSessionPerIdentity
<1>2. (CHOOSE j \in Live : uid[clients[j]] = uid[clients[i]]) = i
  BY <1>1
<1>3. QED
  BY <1>1, <1>2 DEF PlaceOf

LEMMA PlaceIsNext ==
    ASSUME OneSessionPerIdentity', NEW i \in Live', NEW u, u = uid'[clients'[i]]
    PROVE  PlaceOf(u)' = userChannelCache'[i]
<1>1. \A j \in Live' : uid'[clients'[j]] = u <=> j = i
  BY DEF OneSessionPerIdentity
<1>2. (CHOOSE j \in Live' : uid'[clients'[j]] = u) = i
  BY <1>1
<1>3. QED
  BY <1>1, <1>2 DEF PlaceOf

LEMMA OfflineIs ==
    ASSUME NEW u
    PROVE  /\ (\A i \in Live : uid[clients[i]] # u) => PlaceOf(u) = Nowhere
           /\ (\A i \in Live' : uid'[clients'[i]] # u) => PlaceOf(u)' = Nowhere
  BY DEF PlaceOf

\* v has the same session as before, or none as before.
SamePerson(v) ==
    \A i \in Sid : (i \in Live /\ uid[clients[i]] = v) <=> (i \in Live' /\ uid'[clients'[i]] = v)

LEMMA PlaceOfSame ==
    ASSUME OneSessionPerIdentity, OneSessionPerIdentity', NEW v, SamePerson(v)
    PROVE  \/ PlaceOf(v) = Nowhere /\ PlaceOf(v)' = Nowhere
              /\ \A i \in Live : uid[clients[i]] # v
           \/ \E i \in Live : /\ uid[clients[i]] = v
                              /\ PlaceOf(v) = userChannelCache[i]
                              /\ PlaceOf(v)' = userChannelCache'[i]
<1>1. Live \subseteq Sid /\ Live' \subseteq Sid
  BY DEF Live
<1>2. CASE \E i \in Live : uid[clients[i]] = v
  <2>1. PICK i \in Live : uid[clients[i]] = v
    BY <1>2
  <2>2. i \in Live' /\ uid'[clients'[i]] = v
    BY <1>1, <2>1 DEF SamePerson
  <2>3. QED
    BY <2>1, <2>2, PlaceIs, PlaceIsNext
<1>3. CASE \A i \in Live : uid[clients[i]] # v
  <2>1. \A i \in Live' : uid'[clients'[i]] # v
    BY <1>1, <1>3 DEF SamePerson
  <2>2. QED
    BY <1>3, <2>1, OfflineIs
<1>4. QED
  BY <1>2, <1>3

\* What the steps come to for those who look at the user list.
RosterStep == R!RosterNext \/ UNCHANGED R!rosterVars

OneSession == OneSessionPerIdentity /\ OneSessionPerIdentity'

LEMMA RosterSame ==
    ASSUME \A v \in Uid : PlaceOf(v)' = PlaceOf(v), chanType' = chanType
    PROVE  RosterStep
  BY DEF RosterStep, R!rosterVars

LEMMA RosterArrival ==
    ASSUME Behind, SeatInv, OneSession, NEW c \in Conn, NEW u \in Uid, NEW n \in Nick,
           NEW drawn \in BOOLEAN, Arrives(c, u, n, drawn)
    PROVE  RosterStep
<1>1. /\ nextId \in Sid \ Live /\ clients'[nextId] = c
      /\ Live' = (Live \ Duplicate(u)) \cup {nextId}
      /\ \A i \in Live \ Duplicate(u) : clients'[i] = clients[i] /\ clients[i] # c /\ i # nextId
      /\ \A i \in Live : i \in Duplicate(u) <=> uid[clients[i]] = u
      /\ uid' = [uid EXCEPT ![c] = u]
      /\ UNCHANGED chanVars
  BY AfterArrival DEF Behind
<1>2. uid \in [Conn -> Uid \cup {None}] /\ userChannelCache \in [Sid -> Chan \cup {Nowhere}]
  BY DEF Behind, TypeInv, TypeOK
<1>3. userChannelCache' = [CacheWithout(Duplicate(u)) EXCEPT ![nextId] = Lobby]
  BY DEF Arrives, Enter
<1>4. PlaceOf(u)' = Lobby
  <2>1. nextId \in Live' /\ uid'[clients'[nextId]] = u
    BY <1>1, <1>2
  <2>2. userChannelCache'[nextId] = Lobby
    BY <1>1, <1>3 DEF CacheWithout
  <2>3. QED
    BY <2>1, <2>2, PlaceIsNext DEF OneSession
<1>5. ASSUME NEW v \in Uid, v # u PROVE PlaceOf(v)' = PlaceOf(v)
  <2>1. \A i \in Live : clients[i] \in Conn
    BY LiveObject DEF Behind
  <2>2. SamePerson(v)
    BY <1>1, <1>2, <1>5, <2>1 DEF SamePerson
  <2>3. ASSUME NEW i \in Live, uid[clients[i]] = v PROVE userChannelCache'[i] = userChannelCache[i]
    <3>1. i \in Sid /\ i # nextId /\ i \notin Duplicate(u)
      BY <1>1, <1>5, <2>3, SeatOf
    <3>2. QED
      BY <1>3, <3>1 DEF CacheWithout
  <2>4. QED
    BY <2>2, <2>3, PlaceOfSame DEF OneSession
<1>6. R!Arrive(u)
  BY <1>1, <1>4, <1>5, LobbyIs DEF R!Arrive, R!Lobby, chanVars
<1>7. QED
  BY <1>6 DEF RosterStep, R!RosterNext

LEMMA RosterExit ==
    ASSUME Behind, SeatInv, SeatInv', OneSession, NEW C \in SUBSET Conn, Leave(C),
           NEW closed \in SUBSET (Chan \ {Lobby}),
           chanType' = [ch \in Chan |-> IF ch \in closed THEN "none" ELSE chanType[ch]]
    PROVE  RosterStep
<1> DEFINE gone == {u \in Uid : \E i \in SidsOf(C) : uid[clients[i]] = u}
<1>1. /\ Live' = {i \in Live : clients[i] \notin C}
      /\ \A i \in Live' : clients'[i] = clients[i]
      /\ uid' = uid
      /\ userChannelCache' = CacheWithout(SidsOf(C))
      /\ SidsOf(C) = {i \in Live : clients[i] \in C}
  BY AfterExit DEF Behind
<1>2. \A i \in Live : i \in Sid
  BY DEF Live
<1>3. ASSUME NEW v \in gone PROVE PlaceOf(v)' = Nowhere
  <2>1. PICK i \in SidsOf(C) : uid[clients[i]] = v
    OBVIOUS
  <2>2. ASSUME NEW j \in Live' PROVE uid'[clients'[j]] # v
    <3>1. i \in Live /\ j \in Live /\ i # j
      BY <1>1, <2>1
    <3>2. QED
      BY <1>1, <2>1, <3>1 DEF OneSession, OneSessionPerIdentity
  <2>3. QED
    BY <2>2, OfflineIs
<1>4. ASSUME NEW v \in Uid \ gone PROVE PlaceOf(v)' = PlaceOf(v)
  <2>1. \A i \in SidsOf(C) : uid[clients[i]] # v
    OBVIOUS
  <2>2. SamePerson(v)
    BY <1>1, <2>1 DEF SamePerson
  <2>3. \A i \in Live : uid[clients[i]] = v => userChannelCache'[i] = userChannelCache[i]
    BY <1>1, <1>2, <2>1 DEF CacheWithout
  <2>4. QED
    BY <2>2, <2>3, PlaceOfSame DEF OneSession
<1>5. ASSUME NEW v \in Uid PROVE PlaceOf(v)' \notin closed
  <2>1. CASE \A i \in Live' : uid'[clients'[i]] # v
    BY <2>1, OfflineIs, LobbyIs
  <2>2. CASE \E i \in Live' : uid'[clients'[i]] = v
    <3>1. PICK i \in Live' : uid'[clients'[i]] = v
      BY <2>2
    <3>2. PlaceOf(v)' = userChannelCache'[i]
      BY <3>1, PlaceIsNext DEF OneSession
    <3>3. i \in Sid
      BY <1>1, <1>2, <3>1
    <3>4. chanType'[userChannelCache'[i]] \in {"temp", "perm"}
      BY <3>1, <3>3 DEF SeatInv, PeopleSeated
    <3>5. QED
      BY <3>2, <3>4
  <2>3. QED
    BY <2>1, <2>2
<1>6. gone \in SUBSET Uid
  OBVIOUS
<1> HIDE DEF gone
<1>7. R!Depart(gone, closed)
  BY <1>3, <1>4, <1>5, <1>6, LobbyIs DEF R!Depart, R!Offline, R!Lobby, Nowhere
<1>8. closed \in SUBSET R!Chan
  BY DEF R!Chan, Chan
<1>9. QED
  BY <1>6, <1>7, <1>8 DEF RosterStep, R!RosterNext

LEMMA RosterWalk ==
    ASSUME Behind, SeatInv, OneSession, NEW i \in Sid, NEW ch \in Chan, chanType[ch] # "none",
           Seat(i, ch), UNCHANGED <<clients, uid, chanVars>>
    PROVE  RosterStep
<1>1. Live' = Live /\ userChannelCache \in [Sid -> Chan \cup {Nowhere}]
  BY DEF Live, Behind, TypeInv, TypeOK
<1>2. \A v \in Uid : SamePerson(v)
  BY <1>1 DEF SamePerson
<1>3. \A j \in Live : j \in Sid /\ userChannelCache'[j] = IF j = i THEN ch ELSE userChannelCache[j]
  BY <1>1 DEF Seat, Live
\* Where the id of a session that is gone is seated is seen by nobody.
<1>4. CASE i \notin Live
  <2>1. \A v \in Uid : PlaceOf(v)' = PlaceOf(v)
    BY <1>2, <1>3, <1>4, PlaceOfSame DEF OneSession
  <2>2. QED
    BY <2>1, RosterSame DEF chanVars
<1>5. CASE i \in Live
  <2>1. PICK u \in Uid : u = uid[clients[i]]
    BY <1>5, LiveObject DEF Behind
  <2>2. PlaceOf(u)' = ch /\ PlaceOf(u) # Nowhere
    <3>1. PlaceOf(u) = userChannelCache[i] /\ PlaceOf(u)' = userChannelCache'[i]
      BY <1>1, <1>5, <2>1, PlaceIs, PlaceIsNext DEF OneSession
    <3>2. userChannelCache'[i] = ch /\ userChannelCache[i] # Nowhere
      BY <1>3, <1>5, SeatOf, LobbyIs
    <3>3. QED
      BY <3>1, <3>2
  <2>3. ASSUME NEW v \in Uid, v # u PROVE PlaceOf(v)' = PlaceOf(v)
    <3>1. \A j \in Live : uid[clients[j]] = v => userChannelCache'[j] = userChannelCache[j]
      BY <1>3, <2>1, <2>3
    <3>2. QED
      BY <1>2, <3>1, PlaceOfSame DEF OneSession
  <2>4. R!Walk(u, ch)
    BY <2>1, <2>2, <2>3 DEF R!Walk, R!Offline, Nowhere, chanVars
  <2>5. QED
    BY <2>1, <2>4 DEF RosterStep, R!RosterNext, R!Chan, Chan
<1>6. QED
  BY <1>4, <1>5

LEMMA RosterDelete ==
    ASSUME DeleteLimit <= 2, Behind, SeatInv, OneSession, NEW c \in Conn, NEW ch \in Chan,
           ChanDelete(c, ch)
    PROVE  RosterStep
<1>1. /\ ch # Lobby /\ chanType[ch] # "none"
      /\ userChannelCache' = [i \in Sid |-> IF i \in users[ch] THEN Lobby
                                            ELSE userChannelCache[i]]
      /\ chanType' = [chanType EXCEPT ![ch] = "none"]
      /\ UNCHANGED <<objVars, tableVars>>
  BY SeatDelete
<1>2. Live' = Live /\ UNCHANGED <<clients, uid>>
  BY <1>1 DEF Live, objVars, tableVars
<1>3. ASSUME NEW v \in Uid
      PROVE  PlaceOf(v)' = IF PlaceOf(v) = ch THEN Lobby ELSE PlaceOf(v)
  <2>1. SamePerson(v)
    BY <1>2 DEF SamePerson
  <2>2. \A i \in Live : userChannelCache'[i] = IF userChannelCache[i] = ch THEN Lobby
                                               ELSE userChannelCache[i]
    BY <1>1, SeatOf
  <2>3. Nowhere # ch
    BY LobbyIs
  <2>4. QED
    BY <2>1, <2>2, <2>3, PlaceOfSame DEF OneSession
<1>4. chanType \in [Chan -> ChanTypes]
  BY DEF Behind, TypeInv, TypeOK
<1>5. {d \in Chan : chanType'[d] # "none"} = {d \in Chan : chanType[d] # "none"} \ {ch}
  BY <1>1, <1>4
<1>6. R!Demolish(ch)
  BY <1>1, <1>3, <1>5, LobbyIs DEF R!Demolish, R!Lobby
<1>7. QED
  BY <1>6 DEF RosterStep, R!RosterNext, R!Chan, Chan

LEMMA RosterChannels ==
    ASSUME Behind, SeatInv, OneSession, NEW c \in Conn, NEW kind \in {"temp", "perm"}, NEW max \in Caps,
           ChanCreate(c, kind, max) \/ \E ch \in Chan : ChanEdit(c, ch, kind, max)
    PROVE  RosterStep
<1>1. UNCHANGED <<objVars, tableVars, seatVars>>
  BY DEF ChanCreate, ChanEdit
<1>2. ASSUME NEW v \in Uid PROVE PlaceOf(v)' = PlaceOf(v)
  BY <1>1 DEF PlaceOf, Live, objVars, tableVars, seatVars
<1>3. chanType \in [Chan -> ChanTypes]
  BY DEF Behind, TypeInv, TypeOK
<1>4. CASE chanType' = chanType
  BY <1>2, <1>4, RosterSame
<1>5. ASSUME NEW ch \in Chan, chanType[ch] # "none", chanType' = [chanType EXCEPT ![ch] = kind]
      PROVE  RosterStep
  <2>1. {d \in Chan : chanType'[d] # "none"} = {d \in Chan : chanType[d] # "none"}
    BY <1>3, <1>5
  <2>2. QED
    BY <1>2, <2>1 DEF RosterStep, R!rosterVars
<1>6. ASSUME nextChan \in Chan, chanType[nextChan] = "none",
             chanType' = [chanType EXCEPT ![nextChan] = kind]
      PROVE  RosterStep
  <2>1. {d \in Chan : chanType'[d] # "none"} = {d \in Chan : chanType[d] # "none"} \cup {nextChan}
    BY <1>3, <1>6
  <2>2. PICK ch \in Chan : ch = nextChan
    BY <1>6
  <2>3. R!Found(ch)
    BY <1>2, <1>6, <2>1, <2>2 DEF R!Found, R!Chan, Chan
  <2>4. QED
    BY <2>3 DEF RosterStep, R!RosterNext, R!Chan, Chan
<1>7. QED
  BY <1>4, <1>5, <1>6, ChannelsAfter

LEMMA RosterMaps ==
    ASSUME DeleteLimit <= 2, Behind, SeatInv, SeatInv', OneSession, [Next]_vars
    PROVE  RosterStep
<1>1. ASSUME UNCHANGED <<clients, uid, userChannelCache, chanType>> PROVE RosterStep
  <2>1. \A v \in Uid : PlaceOf(v)' = PlaceOf(v)
    BY <1>1 DEF PlaceOf, Live
  <2>2. QED
    BY <1>1, <2>1, RosterSame
<1>2. ASSUME NEW C \in SUBSET Conn, Exit(C) PROVE RosterStep
  <2>1. chanType' = [ch \in Chan |-> IF ch \in {} THEN "none" ELSE chanType[ch]]
    BY <1>2 DEF Exit, chanVars, Behind, TypeInv, TypeOK
  <2>2. {} \in SUBSET (Chan \ {Lobby})
    OBVIOUS
  <2>3. QED
    BY <1>2, <2>1, <2>2, RosterExit DEF Exit
<1>3. ASSUME NEW idle \in SUBSET Conn, Tick(idle) PROVE RosterStep
  <2>1. /\ Leave(idle)
        /\ chanType' = [ch \in Chan |-> IF ch \in Abandoned(SidsOf(idle)) THEN "none"
                                        ELSE chanType[ch]]
    BY <1>3, Exits DEF Behind, Tick
  <2>2. Abandoned(SidsOf(idle)) \in SUBSET (Chan \ {Lobby})
    BY DEF Abandoned, SeatInv, ChannelsInOrder
  <2>3. QED
    BY <2>1, <2>2, RosterExit
<1>4. ASSUME NEW c \in Conn, NEW d \in Conn, NEW n \in Nick, Rename(c, d, n) PROVE RosterStep
  BY <1>1, <1>4 DEF Rename, tableVars, seatVars, chanVars
<1>5. ASSUME NEW i \in Sid, NEW ch \in Chan, Walks(i, ch) PROVE RosterStep
  BY <1>5, RosterWalk DEF Walks, tableVars, objVars
<1>6. ASSUME NEW c \in Conn, NEW i \in Sid, KickFromChannel(c, i) PROVE RosterStep
  <2>1. /\ i \in Live /\ UNCHANGED <<clients, uid, chanVars>>
        /\ Seat(i, Lobby) \/ UNCHANGED seatVars
    BY <1>6, SeatKick DEF tableVars, objVars
  <2>2. chanType[Lobby] # "none"
    BY DEF SeatInv, ChannelsInOrder
  <2>3. QED
    BY <1>1, <2>1, <2>2, RosterWalk, LobbyIs DEF seatVars, chanVars
<1>7. CASE Bans
  BY <1>1, <1>7 DEF Bans, tableVars, objVars, seatVars, chanVars
<1>8. CASE Unseen
  <2>1. \A v \in Uid : SamePerson(v)
    BY <1>8 DEF Unseen, SamePerson, Live
  <2>2. \A v \in Uid : PlaceOf(v)' = PlaceOf(v)
    BY <1>8, <2>1, PlaceOfSame DEF OneSession, Unseen, seatVars
  <2>3. QED
    BY <1>8, <2>2, RosterSame DEF Unseen, chanVars
<1>9. StepKind
  BY KindOfStep DEF Behind
<1>10. QED
  BY <1>2, <1>3, <1>4, <1>5, <1>6, <1>7, <1>8, <1>9, RosterArrival, RosterDelete, RosterChannels
     DEF StepKind

LEMMA RosterStarts == Init => R!RosterInit
<1> SUFFICES ASSUME Init PROVE R!RosterInit
  OBVIOUS
<1>1. Live = {}
  BY DEF Init, Live
<1>2. \A v \in Uid : PlaceOf(v) = Nowhere
  BY <1>1, OfflineIs
<1>3. {ch \in Chan : chanType[ch] # "none"} = {Lobby}
  BY LobbyIs DEF Init
<1>4. QED
  BY <1>2, <1>3, LobbyIs DEF R!RosterInit, R!Offline, R!Lobby

\* ImplementsRoster: whatever the server does, those who look at the user list
\* see somebody arrive, leave, walk, or a channel opened or closed.
THEOREM SessionsImplementRoster ==
    ASSUME DeleteLimit <= 2
    PROVE  Spec => ImplementsRoster
<1>1. Init => R!RosterInit
  BY RosterStarts
<1>2. (Behind /\ SeatInv) /\ (Behind /\ SeatInv)' /\ [Next]_vars => [R!RosterNext]_(R!rosterVars)
  BY RosterMaps DEF Behind, IdInv, OneSession, RosterStep
<1>3. QED
  BY <1>1, <1>2, SeatAlways, PTL DEF Spec, ImplementsRoster, R!RosterSpec

=============================================================================
