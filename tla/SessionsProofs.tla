-------------------------- MODULE SessionsProofs --------------------------
(***************************************************************************)
(* Theorems about Sessions, for every value of its constants.              *)
(***************************************************************************)
EXTENDS Sessions, TLAPS

-----------------------------------------------------------------------------
(* Type correctness *)

\* A logged-in object has an identity and a nickname, and an object that
\* m_clients leads to is logged in under the id it is filed under.
Named == \A c \in Conn : sid[c] # 0 => uid[c] \in Uid /\ nick[c] \in Nick
Filed == \A i \in Live : sid[clients[i]] = i

TypeInv == TypeOK /\ Named /\ Filed

LEMMA TypeInit == Init => TypeInv
  BY SessionsAssumption DEF Init, TypeInv, TypeOK, Named, Filed, Live, Phases, Verdicts,
     ChanTypes, Sid, Chan, Lobby, Unlimited, Nowhere

\* What reaping leaves is well typed and still filed.
LEMMA ReapType ==
    ASSUME TypeInv, NEW I \in SUBSET Sid, Reap(I)
    PROVE  /\ clients' \in [Sid -> Conn \cup {None}]
           /\ users' \in [Chan -> SUBSET Sid]
           /\ userChannelCache' \in [Sid -> Chan \cup {Nowhere}]
           /\ whisperIds' \in [Conn -> SUBSET Sid]
           /\ byVoiceToken' \in SUBSET Conn
           /\ hasToken' \in [Conn -> BOOLEAN]
           /\ \A i \in Sid : clients'[i] # None => clients'[i] = clients[i] /\ i \in Live
  BY DEF TypeInv, TypeOK, Reap, ClientsWithout, UsersWithout, CacheWithout, WhispersWithout, Live

\* A row that a name is looked up in is a session object.
LEMMA LiveObject ==
    ASSUME TypeInv, NEW i \in Live
    PROVE  /\ i \in Sid /\ i # 0
           /\ clients[i] \in Conn
           /\ uid[clients[i]] \in Uid
           /\ nick[clients[i]] \in Nick
  BY SessionsAssumption DEF TypeInv, TypeOK, Named, Filed, Live, Sid

\* The bookkeeping that every exit shares: reapUser for each of the objects
\* C, then closeAndDelete or the end of the socket.
Leave(C) ==
    /\ Reap(SidsOf(C))
    /\ CloseAll(C)
    /\ UNCHANGED <<sid, uid, nick, verified, pending, verdict, nextId, registry, nextChan>>

\* Being expelled is leaving: the id is filed under the object it names.
LEMMA ExpelLeaves ==
    ASSUME TypeInv, NEW i \in Live, Expel(i)
    PROVE  Leave({clients[i]}) /\ UNCHANGED <<reading, chanType, maxIn>>
<1>1. SidsOf({clients[i]}) = {i}
  BY LiveObject DEF SidsOf, TypeInv, Filed
<1>2. QED
  BY <1>1 DEF Expel, Leave, chanVars

LEMMA LeaveType ==
    ASSUME TypeInv, NEW C \in SUBSET Conn, Leave(C)
    PROVE  /\ phase' \in [Conn -> Phases]
           /\ clients' \in [Sid -> Conn \cup {None}]
           /\ users' \in [Chan -> SUBSET Sid]
           /\ userChannelCache' \in [Sid -> Chan \cup {Nowhere}]
           /\ whisperIds' \in [Conn -> SUBSET Sid]
           /\ byVoiceToken' \in SUBSET Conn
           /\ hasToken' \in [Conn -> BOOLEAN]
           /\ Named' /\ Filed'
<1>1. SidsOf(C) \in SUBSET Sid
  BY DEF SidsOf, Live
<1>2. phase' \in [Conn -> Phases]
  BY DEF Leave, CloseAll, Phases, TypeInv, TypeOK
<1>3. Named'
  BY DEF Leave, TypeInv, Named
<1>4. Filed'
  BY <1>1, ReapType DEF Leave, TypeInv, Filed, Live
<1>5. QED
  BY <1>1, <1>2, <1>3, <1>4, ReapType DEF Leave

LEMMA TypeConnection ==
    ASSUME TypeInv, NEW c \in Conn, Connect(c) \/ Oversize(c) \/ EndOfRead(c) \/ Deleted(c)
    PROVE  TypeInv'
<1>1. CASE Connect(c)
  BY <1>1 DEF Connect, TypeInv, TypeOK, Named, Filed, Live, Phases, Sid, Chan, Hello, Ban, Verdicts, ChanTypes, Unlimited, Nowhere, Lobby, objVars, tableVars, seatVars, chanVars, keptVars
<1>2. CASE Oversize(c)
  BY <1>2 DEF Oversize, TypeInv, TypeOK, Named, Filed, Live, Phases, Sid, Chan, Hello, Ban, Verdicts, ChanTypes, Unlimited, Nowhere, Lobby, objVars, tableVars, seatVars, chanVars, keptVars
<1>3. CASE EndOfRead(c)
  BY <1>3 DEF EndOfRead, TypeInv, TypeOK, Named, Filed, Live, Phases, Sid, Chan, Hello, Ban, Verdicts, ChanTypes, Unlimited, Nowhere, Lobby, objVars, tableVars, seatVars, chanVars, keptVars
<1>4. CASE Deleted(c)
  BY <1>4, SessionsAssumption DEF Deleted, ObjectsOf, TypeInv, TypeOK, Named, Filed, Live, Phases, Sid, Chan, Hello, Ban, Verdicts, ChanTypes, Unlimited, Nowhere, Lobby, objVars, tableVars, seatVars, chanVars, keptVars
<1>5. QED
  BY <1>1, <1>2, <1>3, <1>4

LEMMA TypeDeparture ==
    ASSUME TypeInv, NEW C \in SUBSET Conn, Leave(C),
           reading' \in Conn \cup {None},
           chanType' \in [Chan -> ChanTypes],
           maxIn' \in [Chan -> Caps \cup {0, Unlimited}],
           bans' \in SUBSET Ban
    PROVE  TypeInv'
<1>1. UNCHANGED <<sid, uid, nick, verified, pending, verdict, nextId, registry, nextChan>>
  BY DEF Leave
<1>2. TypeOK'
  BY <1>1, LeaveType DEF TypeInv, TypeOK, Sid, Chan, Hello
<1>3. QED
  BY <1>2, LeaveType DEF TypeInv

LEMMA TypeDismissal ==
    ASSUME TypeInv, NEW c \in Conn,
           CloseSelf(c),
           verified' \in [Conn -> BOOLEAN],
           pending' \in [Conn -> Hello \cup {None}],
           verdict' \in [Conn -> Verdicts],
           UNCHANGED <<sid, uid, nick, whisperIds, hasToken>>,
           UNCHANGED <<tableVars, seatVars, chanVars, keptVars>>
    PROVE  TypeInv'
<1>1. phase' \in [Conn -> Phases] /\ reading' \in Conn \cup {None}
  BY DEF CloseSelf, CloseAll, Phases, TypeInv, TypeOK
<1>2. TypeOK'
  BY <1>1 DEF TypeInv, TypeOK, Sid, Chan, Hello, objVars, tableVars, seatVars, chanVars, keptVars
<1>3. Named' /\ Filed'
  BY DEF TypeInv, Named, Filed, Live, objVars, tableVars, seatVars, chanVars, keptVars
<1>4. QED
  BY <1>2, <1>3 DEF TypeInv

LEMMA TypeEnter ==
    ASSUME TypeInv, NEW c \in Conn, NEW u \in Uid, NEW n \in Nick, NEW drawn \in BOOLEAN,
           sid[c] = 0, Enter(c, u, n, drawn),
           verified' \in [Conn -> BOOLEAN],
           pending' \in [Conn -> Hello \cup {None}]
    PROVE  TypeInv'
<1> DEFINE name == EffectiveNick(u, n)
           old == Duplicate(u)
<1>1. name \in Nick
  BY SessionsAssumption DEF EffectiveNick, TypeInv, TypeOK
<1>2. old \subseteq Live /\ Live \subseteq Sid
  BY DEF Duplicate, Live
<1>3. nextId \in Sid /\ nextId # 0 /\ Lobby \in Chan
  BY SessionsAssumption DEF Enter, Sid, Chan, Lobby
<1>4. /\ sid' = [sid EXCEPT ![c] = nextId]
      /\ uid' = [uid EXCEPT ![c] = u]
      /\ nick' = [nick EXCEPT ![c] = name]
      /\ clients' = [ClientsWithout(old) EXCEPT ![nextId] = c]
  BY DEF Enter
<1>5. TypeOK'
  <2>1. /\ phase' \in [Conn -> Phases]
        /\ verdict' \in [Conn -> Verdicts]
        /\ reading' \in Conn \cup {None}
    BY DEF Enter, CloseAll, TypeInv, TypeOK, Phases
  <2>2. /\ sid' \in [Conn -> Sid \cup {0}]
        /\ uid' \in [Conn -> Uid \cup {None}]
        /\ nick' \in [Conn -> Nick \cup {None}]
        /\ clients' \in [Sid -> Conn \cup {None}]
    BY <1>1, <1>3, <1>4 DEF ClientsWithout, TypeInv, TypeOK
  <2>3. /\ users' \in [Chan -> SUBSET Sid]
        /\ userChannelCache' \in [Sid -> Chan \cup {Nowhere}]
    BY <1>3 DEF Enter, UsersWithout, CacheWithout, TypeInv, TypeOK
  <2>4. whisperIds' \in [Conn -> SUBSET Sid]
    BY DEF Enter, WhispersWithout, TypeInv, TypeOK
  <2>5. hasToken' \in [Conn -> BOOLEAN] /\ byVoiceToken' \in SUBSET Conn
    BY DEF Enter, TypeInv, TypeOK
  <2>6. nextId' \in 1..MaxSid + 1
    BY <1>3, SessionsAssumption DEF Enter, Sid
  <2>7. registry' \in [Uid -> Nick \cup {None}]
    BY <1>1 DEF Enter, TypeInv, TypeOK
  <2>8. UNCHANGED <<bans, chanVars>>
    BY DEF Enter
  <2>9. QED
    BY <2>1, <2>2, <2>3, <2>4, <2>5, <2>6, <2>7, <2>8
       DEF TypeInv, TypeOK, Chan, ChanTypes, Ban, chanVars
<1>6. Named'
  BY <1>1, <1>3, <1>4 DEF TypeInv, TypeOK, Named
<1>7. Filed'
  <2> SUFFICES ASSUME NEW i \in Live'
               PROVE  sid'[clients'[i]] = i
    BY DEF Filed
  <2>1. CASE i = nextId
    BY <2>1, <1>3, <1>4 DEF ClientsWithout, TypeInv, TypeOK
  <2>2. CASE i # nextId
    <3>1. i \in Live /\ clients'[i] = clients[i]
      BY <2>2, <1>4 DEF ClientsWithout, Live
    <3>2. sid[clients[i]] = i /\ clients[i] \in Conn /\ clients[i] # c
      BY <3>1, LiveObject DEF TypeInv, Filed
    <3>3. QED
      BY <3>1, <3>2, <1>4 DEF TypeInv, TypeOK
  <2>3. QED
    BY <2>1, <2>2
<1>8. QED
  BY <1>5, <1>6, <1>7 DEF TypeInv

LEMMA TypeAdmission ==
    ASSUME TypeInv, NEW c \in Conn, NEW u \in Uid, NEW n \in Nick,
           sid[c] = 0, Admission(c, u, n),
           verified' \in [Conn -> BOOLEAN],
           pending' \in [Conn -> Hello \cup {None}]
    PROVE  TypeInv'
<1>1. PICK passOk \in BOOLEAN, drawn \in TokenDraw :
          IF Fault(c, u, n, passOk) = "none" THEN Enter(c, u, n, drawn)
          ELSE Refused(c, Fault(c, u, n, passOk))
  BY DEF Admission
<1>2. drawn \in BOOLEAN
  BY SessionsAssumption
<1>3. CASE Enter(c, u, n, drawn)
  BY <1>2, <1>3, TypeEnter
<1>4. CASE Refused(c, Fault(c, u, n, passOk))
  <2>1. Fault(c, u, n, passOk) \in Verdicts
    BY DEF Fault, Verdicts
  <2>2. verdict' \in [Conn -> Verdicts]
    BY <1>4, <2>1 DEF Refused, TypeInv, TypeOK
  <2>3. QED
    BY <1>4, <2>2, TypeDismissal DEF Refused
<1>5. QED
  BY <1>1, <1>3, <1>4

LEMMA TypeLogin ==
    ASSUME TypeInv, NEW c \in Conn,
           \/ \E u \in Uid, n \in Nick : SayHello(c, u, n)
           \/ Prove(c)
           \/ Dismissed(c)
    PROVE  TypeInv'
<1>1. ASSUME NEW u \in Uid, NEW n \in Nick, SayHello(c, u, n) PROVE TypeInv'
  <2>1. CASE verified[c]
    BY <1>1, <2>1, TypeAdmission DEF SayHello, TypeInv, TypeOK
  <2>2. CASE ~verified[c]
    <3>1. [uid |-> u, nick |-> n] \in Hello
      BY DEF Hello
    <3>2. pending' \in [Conn -> Hello \cup {None}]
      BY <1>1, <2>2, <3>1 DEF SayHello, TypeInv, TypeOK
    <3>3. QED
      BY <1>1, <2>2, <3>2 DEF SayHello, TypeInv, TypeOK, Named, Filed, Live, Sid, Chan, tableVars, seatVars, chanVars, keptVars
  <2>3. QED
    BY <2>1, <2>2
<1>2. CASE Prove(c)
  <2>1. pending[c] \in Hello
    BY <1>2 DEF Prove, TypeInv, TypeOK
  <2>2. pending[c].uid \in Uid /\ pending[c].nick \in Nick
    BY <2>1 DEF Hello
  <2>3. verified' \in [Conn -> BOOLEAN] /\ pending' \in [Conn -> Hello \cup {None}]
    BY <1>2 DEF Prove, TypeInv, TypeOK
  <2>4. sid[c] = 0 /\ Admission(c, pending[c].uid, pending[c].nick)
    BY <1>2 DEF Prove
  <2>5. QED
    BY <2>2, <2>3, <2>4, TypeAdmission
<1>3. CASE Dismissed(c)
  BY <1>3, TypeDismissal DEF Dismissed, TypeInv, TypeOK
<1>4. QED
  BY <1>1, <1>2, <1>3

\* Every exit of the model is an instance of Leave.
LEMMA Exits ==
    ASSUME TypeInv
    PROVE  /\ \A c \in Conn : Dropped(c) => Leave({c}) /\ UNCHANGED <<reading, bans, chanVars>>
           /\ \A c \in Conn : Quit(c) => Leave({c}) /\ UNCHANGED <<bans, chanVars>>
           /\ \A idle \in SUBSET Conn : Tick(idle) => Leave(idle) /\ UNCHANGED <<reading, bans>>
           /\ \A i \in Live : Expel(i) => Leave({clients[i]}) /\ UNCHANGED <<reading, chanVars>>
<1>1. ASSUME NEW c \in Conn PROVE Dropped(c) => Leave({c}) /\ UNCHANGED <<reading, bans, chanVars>>
  BY DEF Dropped, Leave, keptVars, chanVars
<1>2. ASSUME NEW c \in Conn PROVE Quit(c) => Leave({c}) /\ UNCHANGED <<bans, chanVars>>
  BY DEF Quit, CloseSelf, Leave, keptVars, chanVars
<1>3. ASSUME NEW idle \in SUBSET Conn PROVE Tick(idle) => Leave(idle) /\ UNCHANGED <<reading, bans>>
  BY DEF Tick, Leave, keptVars
<1>4. ASSUME NEW i \in Live PROVE Expel(i) => Leave({clients[i]}) /\ UNCHANGED <<reading, chanVars>>
  BY ExpelLeaves DEF chanVars, Expel
<1>5. QED
  BY <1>1, <1>2, <1>3, <1>4

LEMMA TypeExit ==
    ASSUME TypeInv,
           \/ \E c \in Conn : Dropped(c) \/ Quit(c)
           \/ \E idle \in SUBSET Conn : Tick(idle)
           \/ \E c \in Conn, i \in Sid : KickFromServer(c, i) \/ BanSession(c, i)
           \/ \E i \in Sid : QueryKick(i) \/ QueryBan(i)
    PROVE  TypeInv'
<1>1. ASSUME NEW c \in Conn, Dropped(c) PROVE TypeInv'
  <2>1. {c} \in SUBSET Conn /\ Leave({c}) /\ UNCHANGED <<reading, bans, chanVars>>
    BY <1>1, Exits
  <2>2. QED
    BY <2>1, TypeDeparture DEF TypeInv, TypeOK, chanVars, Ban, Chan
<1>2. ASSUME NEW c \in Conn, Quit(c) PROVE TypeInv'
  <2>1. reading' \in Conn \cup {None}
    BY <1>2 DEF Quit, CloseSelf
  <2>2. {c} \in SUBSET Conn /\ Leave({c}) /\ UNCHANGED <<bans, chanVars>>
    BY <1>2, Exits
  <2>3. QED
    BY <2>1, <2>2, TypeDeparture DEF TypeInv, TypeOK, chanVars, Ban, Chan
<1>3. ASSUME NEW idle \in SUBSET Conn, Tick(idle) PROVE TypeInv'
  <2>1. /\ chanType' \in [Chan -> ChanTypes]
        /\ maxIn' \in [Chan -> Caps \cup {0, Unlimited}]
    BY <1>3 DEF Tick, Chan, ChanTypes, Unlimited, TypeInv, TypeOK
  <2>2. QED
    BY <1>3, <2>1, Exits, TypeDeparture DEF TypeInv, TypeOK, Ban
<1>4. ASSUME NEW i \in Live, Expel(i), bans' \in SUBSET Ban PROVE TypeInv'
  <2>1. {clients[i]} \in SUBSET Conn
    BY LiveObject
  <2>2. QED
    BY <1>4, <2>1, Exits, TypeDeparture DEF TypeInv, TypeOK, chanVars, Chan
<1>5. ASSUME NEW i \in Live PROVE [uid |-> uid[clients[i]], ip |-> IpOf[clients[i]]] \in Ban
  BY LiveObject, SessionsAssumption DEF Ban
<1>6. ASSUME NEW i \in Sid, QueryKick(i) \/ \E c \in Conn : KickFromServer(c, i) PROVE TypeInv'
  BY <1>4, <1>6 DEF QueryKick, KickFromServer, TypeInv, TypeOK, Ban
<1>7. ASSUME NEW i \in Sid, QueryBan(i) \/ \E c \in Conn : BanSession(c, i) PROVE TypeInv'
  <2>1. /\ i \in Live /\ Expel(i)
        /\ bans' = bans \cup {[uid |-> uid[clients[i]], ip |-> IpOf[clients[i]]]}
    BY <1>7 DEF QueryBan, BanSession
  <2>2. bans' \in SUBSET Ban
    BY <2>1, <1>5 DEF TypeInv, TypeOK
  <2>3. QED
    BY <2>1, <2>2, <1>4
<1>8. QED
  BY <1>1, <1>2, <1>3, <1>6, <1>7

LEMMA SeatType ==
    ASSUME TypeInv, NEW i \in Sid, NEW ch \in Chan, Seat(i, ch)
    PROVE  /\ users' \in [Chan -> SUBSET Sid]
           /\ userChannelCache' \in [Sid -> Chan \cup {Nowhere}]
  BY DEF Seat, TypeInv, TypeOK

LEMMA TypeRequest ==
    ASSUME TypeInv, NEW c \in Conn,
           \/ \E d \in Conn, n \in Nick : Rename(c, d, n)
           \/ \E I \in SUBSET Live : Whisper(c, I)
           \/ VoiceHello(c)
           \/ \E ch \in Chan : Move(c, ch) \/ ChanDelete(c, ch)
           \/ \E i \in Sid, ch \in Chan : MoveOther(c, i, ch)
           \/ \E i \in Sid : KickFromChannel(c, i)
           \/ \E u \in Uid : Unban(c, u)
           \/ \E type \in {"temp", "perm"}, max \in Caps :
                 \/ ChanCreate(c, type, max)
                 \/ \E ch \in Chan : ChanEdit(c, ch, type, max)
    PROVE  TypeInv'
<1>1. ASSUME NEW d \in Conn, NEW n \in Nick, Rename(c, d, n) PROVE TypeInv'
  BY <1>1, SessionsAssumption DEF Rename, TypeInv, TypeOK, Named, Filed, Live, Sid, Chan, Hello, objVars, tableVars, seatVars, chanVars, keptVars
<1>2. ASSUME NEW I \in SUBSET Live, Whisper(c, I) PROVE TypeInv'
  BY <1>2, SessionsAssumption DEF Whisper, TypeInv, TypeOK, Named, Filed, Live, Sid, Chan, Hello, objVars, tableVars, seatVars, chanVars, keptVars
<1>3. ASSUME VoiceHello(c) PROVE TypeInv'
  BY <1>3, SessionsAssumption DEF VoiceHello, TypeInv, TypeOK, Named, Filed, Live, Sid, Chan, Hello, objVars, tableVars, seatVars, chanVars, keptVars
<1>4. ASSUME NEW ch \in Chan, Move(c, ch) PROVE TypeInv'
  <2>1. sid[c] \in Sid /\ Seat(sid[c], ch)
    BY <1>4 DEF Move, LoggedIn, TypeInv, TypeOK
  <2>2. QED
    BY <1>4, <2>1, SeatType DEF Move, TypeInv, TypeOK, Named, Filed, Live, Sid, Chan, Hello, objVars, tableVars, seatVars, chanVars, keptVars
<1>5. ASSUME NEW i \in Sid, NEW ch \in Chan, MoveOther(c, i, ch) PROVE TypeInv'
  BY <1>5, SeatType DEF MoveOther, TypeInv, TypeOK, Named, Filed, Live, Sid, Chan, Hello, objVars, tableVars, seatVars, chanVars, keptVars
<1>6. ASSUME NEW i \in Sid, KickFromChannel(c, i) PROVE TypeInv'
  <2>1. users' \in [Chan -> SUBSET Sid] /\ userChannelCache' \in [Sid -> Chan \cup {Nowhere}]
    <3>1. Lobby \in Chan
      BY SessionsAssumption DEF Lobby, Chan
    <3>2. QED
      BY <1>6, <3>1, SeatType DEF KickFromChannel, seatVars, TypeInv, TypeOK
  <2>2. chanType' \in [Chan -> ChanTypes] /\ maxIn' \in [Chan -> Caps \cup {0, Unlimited}]
    BY <1>6 DEF KickFromChannel, ChanTypes, TypeInv, TypeOK
  <2>3. QED
    BY <1>6, <2>1, <2>2 DEF KickFromChannel, TypeInv, TypeOK, Named, Filed, Live, Sid, Chan, Hello, objVars, tableVars, keptVars
<1>7. ASSUME NEW u \in Uid, Unban(c, u) PROVE TypeInv'
  BY <1>7, SessionsAssumption DEF Unban, Ban, TypeInv, TypeOK, Named, Filed, Live, Sid, Chan, Hello, objVars, tableVars, seatVars, chanVars, keptVars
<1>8. ASSUME NEW type \in {"temp", "perm"}, NEW max \in Caps, ChanCreate(c, type, max) PROVE TypeInv'
  BY <1>8, SessionsAssumption DEF ChanCreate, ChanTypes, TypeInv, TypeOK, Named, Filed, Live, Sid, Chan, Hello, objVars, tableVars, seatVars, chanVars, keptVars
<1>9. ASSUME NEW type \in {"temp", "perm"}, NEW max \in Caps, NEW ch \in Chan, ChanEdit(c, ch, type, max) PROVE TypeInv'
  BY <1>9, SessionsAssumption DEF ChanEdit, ChanTypes, TypeInv, TypeOK, Named, Filed, Live, Sid, Chan, Hello, objVars, tableVars, seatVars, chanVars, keptVars
<1>10. ASSUME NEW ch \in Chan, ChanDelete(c, ch) PROVE TypeInv'
  BY <1>10, SessionsAssumption DEF ChanDelete, PassedOver, ChanTypes, Unlimited, Lobby, TypeInv, TypeOK, Named, Filed, Live, Sid, Chan, Hello, objVars, tableVars, seatVars, chanVars, keptVars
<1>11. QED
  BY <1>1, <1>2, <1>3, <1>4, <1>5, <1>6, <1>7, <1>8, <1>9, <1>10

LEMMA TypeQuery ==
    ASSUME TypeInv,
           \/ \E u \in Uid : QueryBanAdd(u) \/ QueryUnban(u)
           \/ \E b \in bans : BanLapses(b)
    PROVE  TypeInv'
<1>1. bans' \in SUBSET Ban
  BY DEF QueryBanAdd, QueryUnban, BanLapses, Ban, TypeInv, TypeOK
<1>2. UNCHANGED <<objVars, tableVars, seatVars, chanVars, registry>>
  BY DEF QueryBanAdd, QueryUnban, BanLapses
<1>3. QED
  BY <1>1, <1>2 DEF TypeInv, TypeOK, Named, Filed, Live, Sid, Chan, Hello, objVars, tableVars, seatVars, chanVars

THEOREM TypeStep == TypeInv /\ [Next]_vars => TypeInv'
<1> SUFFICES ASSUME TypeInv, [Next]_vars PROVE TypeInv'
  OBVIOUS
<1>1. ASSUME NEW c \in Conn, Line(c) PROVE TypeInv'
  BY <1>1, TypeLogin, TypeExit, TypeRequest DEF Line
<1>2. ASSUME NEW c \in Conn, EndOfRead(c) PROVE TypeInv'
  BY <1>2, TypeConnection
<1>3. CASE Event
  BY <1>3, TypeConnection, TypeExit, TypeQuery DEF Event
<1>4. CASE UNCHANGED vars
  BY <1>4 DEF vars, ChanTypes, Verdicts, Phases, Ban, TypeInv, TypeOK, Named, Filed, Live, Sid, Chan, Hello, objVars, tableVars, seatVars, chanVars, keptVars
<1>5. QED
  BY <1>1, <1>2, <1>3, <1>4 DEF Next

\* Every variable keeps to its type, for any number of connections, people,
\* channels and lines in a read.
THEOREM TypeCorrect == Spec => []TypeOK
<1>1. Init => TypeInv
  BY TypeInit
<1>2. TypeInv /\ [Next]_vars => TypeInv'
  BY TypeStep
<1>3. TypeInv => TypeOK
  BY DEF TypeInv
<1>4. QED
  BY <1>1, <1>2, <1>3, PTL DEF Spec

-----------------------------------------------------------------------------
(* Ids and identities, whatever lines follow a closing one in a read        *)

\* Ids are handed out in order and each to one object only.
SidsDrawn == \A c \in Conn : sid[c] < nextId
SidsDiffer == \A c, d \in Conn : sid[c] = sid[d] /\ sid[c] # 0 => c = d

\* An object is allocated without an id.
Unfiled == \A c \in Conn : phase[c] = "free" => sid[c] = 0

\* A session with an id that has not been closed is in m_clients.
OpenIsFiled == \A c \in Conn : phase[c] \in {"open", "draining"} /\ sid[c] # 0
                               => clients[sid[c]] = c

\* A session that closed itself and still reads is online, or its identity is
\* offline: nobody can log in before its lines are used up.
ReaderIsLast ==
    reading # None =>
       /\ phase[reading] = "closing"
       /\ sid[reading] # 0 =>
             \A i \in Live : uid[clients[i]] = uid[reading] => clients[i] = reading

IdInv == OneSessionPerIdentity /\ SidsDrawn /\ SidsDiffer /\ Unfiled /\ OpenIsFiled /\ ReaderIsLast

idVars == <<phase, sid, uid, reading, clients, nextId>>

LEMMA IdInit == Init => IdInv
  BY SessionsAssumption DEF Init, IdInv, OneSessionPerIdentity, SidsDrawn, SidsDiffer, Unfiled,
     OpenIsFiled, ReaderIsLast, Live

LEMMA IdUnchanged ==
    ASSUME IdInv, UNCHANGED idVars
    PROVE  IdInv'
  BY DEF idVars, IdInv, OneSessionPerIdentity, SidsDrawn, SidsDiffer, Unfiled, OpenIsFiled,
     ReaderIsLast, Live

\* Ids in m_clients were handed out, and lead to different objects.
LEMMA LiveIds ==
    ASSUME TypeInv, IdInv
    PROVE  /\ \A i \in Live : i < nextId
           /\ \A i, j \in Live : clients[i] = clients[j] => i = j
  BY LiveObject DEF TypeInv, Filed, IdInv, SidsDrawn

\* Nobody online but itself has the identity of a session whose line is handled.
LEMMA SpeakerIsLast ==
    ASSUME TypeInv, IdInv, NEW c \in Conn, LoggedIn(c), NEW i \in Live, uid[clients[i]] = uid[c]
    PROVE  clients[i] = c
<1>1. CASE phase[c] = "open"
  <2>1. clients[sid[c]] = c /\ sid[c] \in Live
    BY <1>1, SessionsAssumption DEF LoggedIn, IdInv, OpenIsFiled, Live, TypeInv, TypeOK
  <2>2. QED
    BY <2>1 DEF IdInv, OneSessionPerIdentity
<1>2. CASE reading = c
  BY <1>2, SessionsAssumption DEF LoggedIn, IdInv, ReaderIsLast
<1>3. QED
  BY <1>1, <1>2 DEF LoggedIn, Speaks

\* An id is reaped exactly when its object leaves.
LEMMA LeavingIds ==
    ASSUME TypeInv, IdInv, NEW C \in SUBSET Conn
    PROVE  SidsOf(C) = {i \in Live : clients[i] \in C}
<1>1. ASSUME NEW i \in Live PROVE i \in SidsOf(C) <=> clients[i] \in C
  <2>1. sid[clients[i]] = i /\ clients[i] \in Conn /\ i # 0
    BY LiveObject DEF TypeInv, Filed
  <2>2. QED
    BY <2>1 DEF SidsOf, IdInv, SidsDiffer
<1>2. QED
  BY <1>1 DEF SidsOf

LEMMA IdConnection ==
    ASSUME TypeInv, IdInv, NEW c \in Conn,
           \/ reading = None /\ (Connect(c) \/ Oversize(c) \/ Deleted(c))
           \/ EndOfRead(c)
    PROVE  IdInv'
<1> USE DEF TypeInv, TypeOK, tableVars, IdInv, OneSessionPerIdentity, SidsDrawn, SidsDiffer,
            Unfiled, OpenIsFiled, ReaderIsLast, Live, ObjectsOf
<1>1. CASE reading = None /\ Connect(c)
  BY <1>1, LiveObject DEF Connect
<1>2. CASE reading = None /\ Oversize(c)
  BY <1>2, LiveObject DEF Oversize
<1>3. CASE reading = None /\ Deleted(c)
  BY <1>3, LiveObject DEF Deleted, Sid
<1>4. CASE EndOfRead(c)
  BY <1>4, LiveObject DEF EndOfRead
<1>5. QED
  BY <1>1, <1>2, <1>3, <1>4

LEMMA IdLeave ==
    ASSUME TypeInv, IdInv, NEW C \in SUBSET Conn, Leave(C),
           reading' \in {reading, None} \/ (reading' \in C /\ LoggedIn(reading'))
    PROVE  IdInv'
<1>1. /\ clients' = ClientsWithout(SidsOf(C))
      /\ phase' = [c \in Conn |-> IF c \in C THEN "closing" ELSE phase[c]]
      /\ UNCHANGED <<sid, uid, nextId>>
  BY DEF Leave, Reap, CloseAll
<1>2. Live' = {i \in Live : clients[i] \notin C} /\ \A i \in Live' : clients'[i] = clients[i]
  BY <1>1, LeavingIds DEF ClientsWithout, Live
<1>3. OneSessionPerIdentity' /\ SidsDrawn' /\ SidsDiffer' /\ Unfiled'
  BY <1>1, <1>2 DEF IdInv, OneSessionPerIdentity, SidsDrawn, SidsDiffer, Unfiled
<1>4. OpenIsFiled'
  <2> SUFFICES ASSUME NEW c \in Conn, phase'[c] \in {"open", "draining"}, sid'[c] # 0
               PROVE  clients'[sid'[c]] = c
    BY DEF OpenIsFiled
  <2>1. c \notin C /\ phase[c] \in {"open", "draining"} /\ sid[c] # 0
    BY <1>1
  <2>2. clients[sid[c]] = c /\ sid[c] \in Live
    BY <2>1, SessionsAssumption DEF IdInv, OpenIsFiled, Live, TypeInv, TypeOK
  <2>3. QED
    BY <1>1, <1>2, <2>1, <2>2
<1>5. ReaderIsLast'
  <2>1. CASE reading' = reading /\ reading # None
    BY <1>1, <1>2, <2>1 DEF IdInv, ReaderIsLast, TypeInv, TypeOK
  <2>2. CASE reading' \in C /\ LoggedIn(reading')
    BY <1>1, <1>2, <2>2, SpeakerIsLast DEF ReaderIsLast
  <2>3. QED
    BY <2>1, <2>2 DEF ReaderIsLast
<1>6. QED
  BY <1>3, <1>4, <1>5 DEF IdInv

LEMMA IdEnter ==
    ASSUME TypeInv, IdInv, NEW c \in Conn, NEW u \in Uid, NEW n \in Nick, NEW drawn \in BOOLEAN,
           sid[c] = 0, Speaks(c), Enter(c, u, n, drawn)
    PROVE  IdInv'
<1> DEFINE old == Duplicate(u)
           me == nextId
<1>1. /\ me \in Sid /\ me # 0 /\ nextId' = me + 1
      /\ sid' = [sid EXCEPT ![c] = me]
      /\ uid' = [uid EXCEPT ![c] = u]
      /\ clients' = [ClientsWithout(old) EXCEPT ![me] = c]
      /\ phase' = [d \in Conn |-> IF d \in ObjectsOf(old) THEN "closing" ELSE phase[d]]
      /\ reading' = reading
  BY DEF Enter, CloseAll, Sid
<1>2. /\ old \subseteq Live
      /\ \A i \in Live : i # me /\ clients[i] # c
  BY LiveObject, LiveIds DEF Duplicate, TypeInv, TypeOK, Filed, Sid
<1>3. /\ Live' = (Live \ old) \cup {me}
      /\ clients'[me] = c
      /\ \A i \in Live \ old : clients'[i] = clients[i] /\ clients[i] \notin ObjectsOf(old)
  BY <1>1, <1>2, LiveIds, SessionsAssumption DEF ClientsWithout, Live, ObjectsOf, TypeInv, TypeOK
<1>4. \A i \in Live \ old : uid[clients[i]] # u
  BY DEF Duplicate, IdInv, OneSessionPerIdentity, Live, Sid
<1>5. phase[c] # "free" /\ c \notin ObjectsOf(old)
  BY <1>2, SessionsAssumption DEF Speaks, IdInv, ReaderIsLast, ObjectsOf
<1> HIDE DEF old, me
<1>6. OneSessionPerIdentity'
  BY <1>1, <1>2, <1>3, <1>4, LiveObject DEF IdInv, OneSessionPerIdentity, TypeInv, TypeOK
<1>7. SidsDrawn' /\ SidsDiffer'
  BY <1>1 DEF me, IdInv, SidsDrawn, SidsDiffer, TypeInv, TypeOK, Sid
<1>8. Unfiled'
  BY <1>1, <1>2, <1>5 DEF IdInv, Unfiled, TypeInv, TypeOK, ObjectsOf
<1>9. OpenIsFiled'
  <2> SUFFICES ASSUME NEW d \in Conn, phase'[d] \in {"open", "draining"}, sid'[d] # 0
               PROVE  clients'[sid'[d]] = d
    BY DEF OpenIsFiled
  <2>1. CASE d = c
    BY <1>1, <1>3, <2>1 DEF TypeInv, TypeOK
  <2>2. CASE d # c
    <3>1. phase[d] \in {"open", "draining"} /\ sid'[d] = sid[d] /\ d \notin ObjectsOf(old)
      BY <1>1, <2>2 DEF TypeInv, TypeOK
    <3>2. clients[sid[d]] = d /\ sid[d] \in Live
      BY <3>1, SessionsAssumption DEF IdInv, OpenIsFiled, Live, TypeInv, TypeOK
    <3>3. sid[d] \notin old
      BY <3>1, <3>2 DEF ObjectsOf
    <3>4. QED
      BY <1>3, <3>1, <3>2, <3>3
  <2>3. QED
    BY <2>1, <2>2
<1>10. ReaderIsLast'
  <2> SUFFICES ASSUME reading # None
               PROVE  /\ phase'[c] = "closing"
                      /\ \A i \in Live' : uid'[clients'[i]] = uid'[c] => clients'[i] = c
    BY <1>1 DEF Speaks, ReaderIsLast
  <2>1. phase'[c] = "closing"
    BY <1>1 DEF Speaks, IdInv, ReaderIsLast, TypeInv, TypeOK
  <2>2. uid'[c] = u /\ \A i \in Live \ old : uid'[clients'[i]] # u
    BY <1>1, <1>2, <1>3, <1>4, LiveObject DEF TypeInv, TypeOK
  <2>3. QED
    BY <1>3, <2>1, <2>2
<1>11. QED
  BY <1>6, <1>7, <1>8, <1>9, <1>10 DEF IdInv

LEMMA IdDismissal ==
    ASSUME TypeInv, IdInv, NEW c \in Conn, sid[c] = 0, CloseSelf(c),
           UNCHANGED <<sid, uid>>, UNCHANGED tableVars
    PROVE  IdInv'
<1>1. /\ phase' = [d \in Conn |-> IF d = c THEN "closing" ELSE phase[d]]
      /\ reading' \in {c, None}
      /\ UNCHANGED <<sid, uid, clients, nextId>>
  BY DEF CloseSelf, CloseAll, tableVars
<1>2. QED
  BY <1>1 DEF IdInv, OneSessionPerIdentity, SidsDrawn, SidsDiffer, Unfiled, OpenIsFiled,
     ReaderIsLast, Live

LEMMA IdAdmission ==
    ASSUME TypeInv, IdInv, NEW c \in Conn, NEW u \in Uid, NEW n \in Nick,
           sid[c] = 0, Speaks(c), Admission(c, u, n)
    PROVE  IdInv'
<1>1. PICK passOk \in BOOLEAN, drawn \in TokenDraw :
          IF Fault(c, u, n, passOk) = "none" THEN Enter(c, u, n, drawn)
          ELSE Refused(c, Fault(c, u, n, passOk))
  BY DEF Admission
<1>2. CASE Enter(c, u, n, drawn)
  BY <1>2, IdEnter, SessionsAssumption
<1>3. CASE Refused(c, Fault(c, u, n, passOk))
  BY <1>3, IdDismissal DEF Refused
<1>4. QED
  BY <1>1, <1>2, <1>3

LEMMA IdExit ==
    ASSUME TypeInv, IdInv,
           \/ \E c \in Conn : Dropped(c) \/ Quit(c)
           \/ \E idle \in SUBSET Conn : Tick(idle)
           \/ \E i \in Live : Expel(i)
    PROVE  IdInv'
<1>1. ASSUME NEW c \in Conn, Dropped(c) PROVE IdInv'
  BY <1>1, Exits, IdLeave
<1>2. ASSUME NEW c \in Conn, Quit(c) PROVE IdInv'
  <2>1. Leave({c}) /\ reading' \in {c, None} /\ LoggedIn(c)
    BY <1>2, Exits DEF Quit, CloseSelf
  <2>2. QED
    BY <2>1, IdLeave
<1>3. ASSUME NEW idle \in SUBSET Conn, Tick(idle) PROVE IdInv'
  BY <1>3, Exits, IdLeave
<1>4. ASSUME NEW i \in Live, Expel(i) PROVE IdInv'
  BY <1>4, Exits, LiveObject, IdLeave
<1>5. QED
  BY <1>1, <1>2, <1>3, <1>4

LEMMA IdLine ==
    ASSUME TypeInv, IdInv, NEW c \in Conn, Line(c)
    PROVE  IdInv'
<1>1. ASSUME NEW u \in Uid, NEW n \in Nick, SayHello(c, u, n) PROVE IdInv'
  <2>1. CASE verified[c]
    BY <1>1, <2>1, IdAdmission DEF SayHello
  <2>2. CASE ~verified[c]
    BY <1>1, <2>2, IdUnchanged DEF SayHello, idVars, tableVars
  <2>3. QED
    BY <2>1, <2>2
<1>2. CASE Prove(c)
  <2>1. pending[c].uid \in Uid /\ pending[c].nick \in Nick
    BY <1>2 DEF Prove, TypeInv, TypeOK, Hello
  <2>2. QED
    BY <1>2, <2>1, IdAdmission DEF Prove
<1>3. CASE Dismissed(c)
  BY <1>3, IdDismissal DEF Dismissed
<1>4. CASE \/ Quit(c)
           \/ \E i \in Sid : KickFromServer(c, i) \/ BanSession(c, i)
  BY <1>4, IdExit DEF KickFromServer, BanSession
<1>5. CASE \/ \E d \in Conn, n \in Nick : Rename(c, d, n)
           \/ \E I \in SUBSET Live : Whisper(c, I)
           \/ VoiceHello(c)
           \/ \E ch \in Chan : Move(c, ch) \/ ChanDelete(c, ch)
           \/ \E i \in Sid, ch \in Chan : MoveOther(c, i, ch)
           \/ \E i \in Sid : KickFromChannel(c, i)
           \/ \E u \in Uid : Unban(c, u)
           \/ \E type \in {"temp", "perm"}, max \in Caps :
                 \/ ChanCreate(c, type, max)
                 \/ \E ch \in Chan : ChanEdit(c, ch, type, max)
  BY <1>5, IdUnchanged DEF Rename, Whisper, VoiceHello, Move, ChanDelete, MoveOther,
     KickFromChannel, Unban, ChanCreate, ChanEdit, idVars, objVars, tableVars
<1>6. QED
  BY <1>1, <1>2, <1>3, <1>4, <1>5 DEF Line

LEMMA IdStep == TypeInv /\ IdInv /\ [Next]_vars => IdInv'
<1> SUFFICES ASSUME TypeInv, IdInv, [Next]_vars PROVE IdInv'
  OBVIOUS
<1>1. ASSUME NEW c \in Conn, EndOfRead(c) PROVE IdInv'
  BY <1>1, IdConnection
<1>2. CASE Event
  <2>1. CASE \E c \in Conn : Connect(c) \/ Oversize(c) \/ Deleted(c)
    BY <1>2, <2>1, IdConnection DEF Event
  <2>2. CASE \/ \E c \in Conn : Dropped(c)
             \/ \E idle \in SUBSET Conn : Tick(idle)
             \/ \E i \in Sid : QueryKick(i) \/ QueryBan(i)
    BY <2>2, IdExit DEF QueryKick, QueryBan
  <2>3. CASE \/ \E u \in Uid : QueryBanAdd(u) \/ QueryUnban(u)
             \/ \E b \in bans : BanLapses(b)
    BY <2>3, IdUnchanged DEF QueryBanAdd, QueryUnban, BanLapses, idVars, objVars, tableVars
  <2>4. QED
    BY <1>2, <2>1, <2>2, <2>3 DEF Event
<1>3. CASE UNCHANGED vars
  BY <1>3, IdUnchanged DEF vars, idVars, objVars, tableVars
<1>4. QED
  BY <1>1, <1>2, <1>3, IdLine DEF Next

\* What holds of ids and identities on every behaviour.
LEMMA IdAlways == Spec => [](TypeInv /\ IdInv)
<1>1. Init => TypeInv /\ IdInv
  BY TypeInit, IdInit
<1>2. (TypeInv /\ IdInv) /\ [Next]_vars => (TypeInv /\ IdInv)'
  BY TypeStep, IdStep
<1>3. QED
  BY <1>1, <1>2, PTL DEF Spec

\* An identity never has two sessions, whatever a session that closed itself
\* still reads: not even when the last of those lines log it in.
THEOREM SingleSession == Spec => []OneSessionPerIdentity
<1>1. TypeInv /\ IdInv => OneSessionPerIdentity
  BY DEF IdInv
<1>2. QED
  BY <1>1, IdAlways, PTL

-----------------------------------------------------------------------------
(* Session objects and the tables that lead to them, when a session that    *)
(* closed itself reads nothing more                                         *)

ObjInv == reading = None /\ NoDangling /\ NothingLeftBehind

objTables == <<phase, sid, uid, hasToken, reading, clients, nextId, byVoiceToken>>

LEMMA ObjInit == Init => ObjInv
  BY SessionsAssumption DEF Init, ObjInv, NoDangling, NothingLeftBehind, Live, ObjectsOf, Sid

LEMMA ObjUnchanged ==
    ASSUME ObjInv, UNCHANGED objTables
    PROVE  ObjInv'
  BY DEF objTables, ObjInv, NoDangling, NothingLeftBehind, Live, ObjectsOf

LEMMA ObjConnection ==
    ASSUME TypeInv, IdInv, ObjInv, NEW c \in Conn, Connect(c) \/ Oversize(c) \/ Deleted(c)
    PROVE  ObjInv'
<1>1. CASE Connect(c)
  BY <1>1, LiveObject DEF Connect, IdInv, Unfiled, TypeInv, TypeOK, tableVars, ObjInv, NoDangling, NothingLeftBehind, Live, ObjectsOf
<1>2. CASE Oversize(c)
  BY <1>2, LiveObject DEF Oversize, TypeInv, TypeOK, tableVars, ObjInv, NoDangling, NothingLeftBehind, Live, ObjectsOf
<1>3. CASE Deleted(c)
  BY <1>3, LiveObject DEF Deleted, TypeInv, TypeOK, tableVars, ObjInv, NoDangling, NothingLeftBehind, Live, ObjectsOf
<1>4. QED
  BY <1>1, <1>2, <1>3

LEMMA ObjLeave ==
    ASSUME TypeInv, IdInv, ObjInv, NEW C \in SUBSET Conn, Leave(C), reading' = None,
           \A c \in C : phase[c] \in {"open", "draining"}
    PROVE  ObjInv'
<1>1. /\ clients' = ClientsWithout(SidsOf(C))
      /\ byVoiceToken' = byVoiceToken \ ObjectsOf(SidsOf(C))
      /\ hasToken' = [c \in Conn |-> hasToken[c] /\ c \notin ObjectsOf(SidsOf(C))]
      /\ phase' = [c \in Conn |-> IF c \in C THEN "closing" ELSE phase[c]]
      /\ UNCHANGED <<sid, uid, nextId>>
  BY DEF Leave, Reap, CloseAll
<1>2. Live' = Live \ SidsOf(C) /\ \A i \in Live' : clients'[i] = clients[i]
  BY <1>1 DEF ClientsWithout, Live
\* An id is reaped exactly when its object leaves.
<1>3. \A i \in Live : i \in SidsOf(C) <=> clients[i] \in C
  BY LiveObject DEF SidsOf, TypeInv, TypeOK, Filed, ObjInv, NothingLeftBehind
<1>4. \A i \in Live : clients[i] \in ObjectsOf(SidsOf(C)) <=> clients[i] \in C
  BY <1>3 DEF ObjectsOf, SidsOf
<1>5. NoDangling'
  BY <1>1, <1>2, <1>3, LiveObject DEF ObjInv, NoDangling, TypeInv, TypeOK
<1>6. NothingLeftBehind'
  <2>1. ASSUME NEW c \in Conn, phase'[c] \in {"open", "draining"}, sid'[c] # 0
        PROVE  clients'[sid'[c]] = c
    <3>1. c \notin C /\ phase[c] \in {"open", "draining"} /\ sid[c] # 0
      BY <1>1, <2>1
    <3>2. clients[sid[c]] = c /\ sid[c] \in Live
      BY <3>1, SessionsAssumption DEF ObjInv, NothingLeftBehind, Live, TypeInv, TypeOK
    <3>3. QED
      BY <1>1, <1>2, <1>3, <3>1, <3>2
  <2>2. byVoiceToken' \subseteq ObjectsOf(Live)'
    BY <1>1, <1>2, <1>3, <1>4 DEF ObjInv, NothingLeftBehind, ObjectsOf
  <2>3. \A c \in Conn : hasToken'[c] => c \in byVoiceToken'
    BY <1>1 DEF ObjInv, NothingLeftBehind
  <2>4. QED
    BY <2>1, <2>2, <2>3 DEF NothingLeftBehind, ObjectsOf
<1>7. QED
  BY <1>5, <1>6 DEF ObjInv

LEMMA ObjEnter ==
    ASSUME TypeInv, IdInv, ObjInv, NEW c \in Conn, NEW u \in Uid, NEW n \in Nick, NEW drawn \in BOOLEAN,
           sid[c] = 0, phase[c] = "open", Enter(c, u, n, drawn)
    PROVE  ObjInv'
<1> DEFINE old == Duplicate(u)
           me == nextId
<1>1. /\ me \in Sid /\ me # 0 /\ nextId' = me + 1
      /\ sid' = [sid EXCEPT ![c] = me]
      /\ uid' = [uid EXCEPT ![c] = u]
      /\ clients' = [ClientsWithout(old) EXCEPT ![me] = c]
      /\ hasToken' = [d \in Conn |-> IF d = c THEN hasToken[c] \/ drawn
                                     ELSE hasToken[d] /\ d \notin ObjectsOf(old)]
      /\ byVoiceToken' = (byVoiceToken \ ObjectsOf(old)) \cup (IF drawn THEN {c} ELSE {})
      /\ phase' = [d \in Conn |-> IF d \in ObjectsOf(old) THEN "closing" ELSE phase[d]]
      /\ reading' = reading
  BY DEF Enter, CloseAll, Sid
\* Old ids are smaller, their objects are other objects than c.
<1>2. /\ old \subseteq Live
      /\ \A i \in Live : i # me /\ clients[i] # c
  BY LiveObject, LiveIds DEF Duplicate, TypeInv, TypeOK, Filed, Sid
<1>3. \A i, j \in Live : clients[i] = clients[j] => i = j
  BY DEF TypeInv, Filed
<1>4. /\ Live' = (Live \ old) \cup {me}
      /\ clients'[me] = c
      /\ \A i \in Live \ old : clients'[i] = clients[i] /\ clients[i] \notin ObjectsOf(old)
  BY <1>1, <1>2, <1>3, SessionsAssumption DEF ClientsWithout, Live, ObjectsOf, TypeInv, TypeOK
<1> HIDE DEF old, me
<1>6. NoDangling'
  BY <1>1, <1>2, <1>4, LiveObject DEF ObjInv, NoDangling, ObjectsOf, TypeInv, TypeOK
<1>7. NothingLeftBehind'
  <2>1. ASSUME NEW d \in Conn, phase'[d] \in {"open", "draining"}, sid'[d] # 0
        PROVE  clients'[sid'[d]] = d
    <3>1. CASE d = c
      BY <1>1, <1>4, <3>1 DEF TypeInv, TypeOK
    <3>2. CASE d # c
      <4>1. phase[d] \in {"open", "draining"} /\ sid'[d] = sid[d] /\ d \notin ObjectsOf(old)
        BY <1>1, <2>1, <3>2 DEF TypeInv, TypeOK
      <4>2. clients[sid[d]] = d /\ sid[d] \in Live
        BY <2>1, <4>1, SessionsAssumption DEF ObjInv, NothingLeftBehind, Live, TypeInv, TypeOK
      <4>3. sid[d] \notin old
        BY <4>1, <4>2 DEF ObjectsOf
      <4>4. QED
        BY <1>4, <4>1, <4>2, <4>3
    <3>3. QED
      BY <3>1, <3>2
  <2>2. byVoiceToken' \subseteq ObjectsOf(Live)'
    <3>1. ASSUME NEW d \in byVoiceToken' PROVE \E i \in Live' : clients'[i] = d
      BY <1>1, <1>2, <1>4, <3>1 DEF ObjInv, NothingLeftBehind, ObjectsOf
    <3>2. QED
      BY <3>1 DEF ObjectsOf
  <2>3. ~hasToken[c]
    BY <1>2 DEF ObjInv, NothingLeftBehind, ObjectsOf
  <2>4. \A d \in Conn : hasToken'[d] => d \in byVoiceToken'
    BY <1>1, <2>3 DEF ObjInv, NothingLeftBehind
  <2>5. QED
    BY <2>1, <2>2, <2>4 DEF NothingLeftBehind, ObjectsOf
<1>8. QED
  BY <1>1, <1>6, <1>7 DEF ObjInv

LEMMA ObjDismissal ==
    ASSUME TypeInv, IdInv, ObjInv, Trailing = FALSE, NEW c \in Conn, sid[c] = 0, CloseSelf(c),
           UNCHANGED <<sid, uid, hasToken>>, UNCHANGED tableVars
    PROVE  ObjInv'
<1>1. /\ phase' = [d \in Conn |-> IF d = c THEN "closing" ELSE phase[d]]
      /\ reading' = None
      /\ UNCHANGED <<sid, uid, hasToken, clients, nextId, byVoiceToken>>
  BY DEF CloseSelf, CloseAll, tableVars
<1>2. \A i \in Live : clients[i] # c
  BY LiveObject DEF TypeInv, Filed
<1>3. QED
  BY <1>1, <1>2, LiveObject DEF TypeInv, TypeOK, ObjInv, NoDangling, NothingLeftBehind, Live, ObjectsOf

\* A line is read from an open session only.
LEMMA OnlyOpenSpeak ==
    ASSUME ObjInv, NEW c \in Conn, Speaks(c)
    PROVE  phase[c] = "open"
  BY SessionsAssumption DEF ObjInv, Speaks

LEMMA ObjAdmission ==
    ASSUME TypeInv, IdInv, ObjInv, Trailing = FALSE,
           NEW c \in Conn, NEW u \in Uid, NEW n \in Nick,
           sid[c] = 0, phase[c] = "open", Admission(c, u, n)
    PROVE  ObjInv'
<1>1. PICK passOk \in BOOLEAN, drawn \in TokenDraw :
          IF Fault(c, u, n, passOk) = "none" THEN Enter(c, u, n, drawn)
          ELSE Refused(c, Fault(c, u, n, passOk))
  BY DEF Admission
<1>2. CASE Enter(c, u, n, drawn)
  BY <1>2, ObjEnter, SessionsAssumption
<1>3. CASE Refused(c, Fault(c, u, n, passOk))
  BY <1>3, ObjDismissal DEF Refused
<1>4. QED
  BY <1>1, <1>2, <1>3

LEMMA ObjExit ==
    ASSUME TypeInv, IdInv, ObjInv, Trailing = FALSE,
           \/ \E c \in Conn : Dropped(c) \/ Quit(c)
           \/ \E idle \in SUBSET Conn : Tick(idle)
           \/ \E i \in Live : Expel(i)
    PROVE  ObjInv'
<1>1. ASSUME NEW c \in Conn, Dropped(c) PROVE ObjInv'
  <2>1. /\ {c} \in SUBSET Conn /\ Leave({c}) /\ UNCHANGED reading
        /\ phase[c] \in {"open", "draining"}
    BY <1>1, Exits DEF Dropped
  <2>2. QED
    BY <2>1, ObjLeave DEF ObjInv
<1>2. ASSUME NEW c \in Conn, Quit(c) PROVE ObjInv'
  <2>1. /\ {c} \in SUBSET Conn /\ Leave({c}) /\ reading' = None
        /\ phase[c] = "open"
    BY <1>2, Exits, OnlyOpenSpeak DEF Quit, LoggedIn, CloseSelf
  <2>2. QED
    BY <2>1, ObjLeave
<1>3. ASSUME NEW idle \in SUBSET Conn, Tick(idle) PROVE ObjInv'
  <2>1. /\ Leave(idle) /\ UNCHANGED reading
        /\ \A c \in idle : phase[c] \in {"open", "draining"}
    BY <1>3, Exits DEF Tick, Silent
  <2>2. QED
    BY <2>1, ObjLeave DEF ObjInv
<1>4. ASSUME NEW i \in Live, Expel(i) PROVE ObjInv'
  <2>1. /\ {clients[i]} \in SUBSET Conn /\ Leave({clients[i]}) /\ UNCHANGED reading
        /\ phase[clients[i]] \in {"open", "draining"}
    BY <1>4, Exits, LiveObject DEF ObjInv, NoDangling
  <2>2. QED
    BY <2>1, ObjLeave DEF ObjInv
<1>5. QED
  BY <1>1, <1>2, <1>3, <1>4

LEMMA ObjLine ==
    ASSUME TypeInv, IdInv, ObjInv, Trailing = FALSE, NEW c \in Conn, Line(c)
    PROVE  ObjInv'
<1>1. ASSUME NEW u \in Uid, NEW n \in Nick, SayHello(c, u, n) PROVE ObjInv'
  <2>1. sid[c] = 0 /\ phase[c] = "open"
    BY <1>1, OnlyOpenSpeak DEF SayHello
  <2>2. CASE verified[c]
    BY <1>1, <2>1, <2>2, ObjAdmission DEF SayHello
  <2>3. CASE ~verified[c]
    BY <1>1, <2>3, ObjUnchanged DEF SayHello, objTables, tableVars
  <2>4. QED
    BY <2>2, <2>3
<1>2. CASE Prove(c)
  <2>1. sid[c] = 0 /\ phase[c] = "open" /\ Admission(c, pending[c].uid, pending[c].nick)
    BY <1>2, OnlyOpenSpeak DEF Prove
  <2>2. pending[c].uid \in Uid /\ pending[c].nick \in Nick
    BY <1>2 DEF Prove, TypeInv, TypeOK, Hello
  <2>3. QED
    BY <2>1, <2>2, ObjAdmission
<1>3. CASE Dismissed(c)
  BY <1>3, ObjDismissal DEF Dismissed
<1>4. CASE \/ Quit(c)
           \/ \E i \in Sid : KickFromServer(c, i) \/ BanSession(c, i)
  BY <1>4, ObjExit DEF KickFromServer, BanSession
<1>5. CASE VoiceHello(c)
  <2>1. /\ phase[c] = "open" /\ sid[c] # 0
        /\ hasToken' = [hasToken EXCEPT ![c] = TRUE]
        /\ byVoiceToken' = byVoiceToken \cup {c}
        /\ UNCHANGED <<phase, sid, uid, reading, clients, nextId>>
    BY <1>5, OnlyOpenSpeak DEF VoiceHello, LoggedIn
  <2>2. clients[sid[c]] = c /\ sid[c] \in Live
    BY <2>1, SessionsAssumption DEF ObjInv, NothingLeftBehind, Live, TypeInv, TypeOK
  <2>3. QED
    BY <2>1, <2>2 DEF TypeInv, TypeOK, ObjInv, NoDangling, NothingLeftBehind, Live, ObjectsOf
<1>6. CASE \/ \E d \in Conn, n \in Nick : Rename(c, d, n)
           \/ \E I \in SUBSET Live : Whisper(c, I)
           \/ \E ch \in Chan : Move(c, ch) \/ ChanDelete(c, ch)
           \/ \E i \in Sid, ch \in Chan : MoveOther(c, i, ch)
           \/ \E i \in Sid : KickFromChannel(c, i)
           \/ \E u \in Uid : Unban(c, u)
           \/ \E type \in {"temp", "perm"}, max \in Caps :
                 \/ ChanCreate(c, type, max)
                 \/ \E ch \in Chan : ChanEdit(c, ch, type, max)
  BY <1>6, ObjUnchanged DEF Rename, Whisper, Move, ChanDelete, MoveOther, KickFromChannel,
     Unban, ChanCreate, ChanEdit, objTables, objVars, tableVars
<1>7. QED
  BY <1>1, <1>2, <1>3, <1>4, <1>5, <1>6 DEF Line

THEOREM ObjStep == Trailing = FALSE /\ TypeInv /\ IdInv /\ ObjInv /\ [Next]_vars => ObjInv'
<1> SUFFICES ASSUME Trailing = FALSE, TypeInv, IdInv, ObjInv, [Next]_vars PROVE ObjInv'
  OBVIOUS
<1>1. ASSUME NEW c \in Conn, Line(c) PROVE ObjInv'
  BY <1>1, ObjLine
<1>2. ASSUME NEW c \in Conn, EndOfRead(c) PROVE ObjInv'
  BY <1>2, SessionsAssumption DEF EndOfRead, ObjInv
<1>3. CASE Event
  <2>1. CASE \E c \in Conn : Connect(c) \/ Oversize(c) \/ Deleted(c)
    BY <2>1, ObjConnection
  <2>2. CASE \/ \E c \in Conn : Dropped(c)
             \/ \E idle \in SUBSET Conn : Tick(idle)
             \/ \E i \in Sid : QueryKick(i) \/ QueryBan(i)
    BY <2>2, ObjExit DEF QueryKick, QueryBan
  <2>3. CASE \/ \E u \in Uid : QueryBanAdd(u) \/ QueryUnban(u)
             \/ \E b \in bans : BanLapses(b)
    BY <2>3, ObjUnchanged DEF QueryBanAdd, QueryUnban, BanLapses, objTables, objVars, tableVars
  <2>4. QED
    BY <1>3, <2>1, <2>2, <2>3 DEF Event
<1>4. CASE UNCHANGED vars
  BY <1>4, ObjUnchanged DEF vars, objTables, objVars, tableVars
<1>5. QED
  BY <1>1, <1>2, <1>3, <1>4 DEF Next

LEMMA ObjAlways ==
    ASSUME Trailing = FALSE
    PROVE  Spec => []ObjInv
<1>1. Init => ObjInv
  BY ObjInit
<1>2. (TypeInv /\ IdInv) /\ ObjInv /\ [Next]_vars => ObjInv'
  BY ObjStep
<1>3. QED
  BY <1>1, <1>2, IdAlways, PTL DEF Spec

\* No table leads to a session object that has been closed.
THEOREM NeverDangling ==
    ASSUME Trailing = FALSE
    PROVE  Spec => []NoDangling
<1>1. ObjInv => NoDangling
  BY DEF ObjInv
<1>2. QED
  BY <1>1, ObjAlways, PTL

\* A session that is over leaves nothing in the tables of the server.
THEOREM CleanExit ==
    ASSUME Trailing = FALSE
    PROVE  Spec => []NothingLeftBehind
<1>1. ObjInv => NothingLeftBehind
  BY DEF ObjInv
<1>2. QED
  BY <1>1, ObjAlways, PTL

\* No table leads to a session that waits to be freed, so that the guard of
\* Deleted excludes nothing: each of these objects is freed when its turn comes.
THEOREM ClosedIsForgotten ==
    ASSUME Trailing = FALSE
    PROVE  Spec => [](\A c \in Conn : phase[c] = "closing"
                                      => c \notin ObjectsOf(Live) \cup byVoiceToken)
<1>1. ObjInv => \A c \in Conn : phase[c] = "closing" => c \notin ObjectsOf(Live) \cup byVoiceToken
  BY DEF ObjInv, NoDangling, NothingLeftBehind, ObjectsOf
<1>2. QED
  BY <1>1, ObjAlways, PTL

-----------------------------------------------------------------------------
(* Session ids kept in channel lists and whisper sets                       *)

Quiet == \A c \in Conn : sid[c] = 0 => whisperIds[c] = {}

GhostInv == NoGhosts /\ Quiet

LEMMA GhostInit == Init => GhostInv
  BY SessionsAssumption DEF Init, GhostInv, NoGhosts, Quiet, Live

LEMMA GhostUnchanged ==
    ASSUME GhostInv, UNCHANGED <<sid, clients, users, whisperIds>>
    PROVE  GhostInv'
  BY DEF GhostInv, NoGhosts, Quiet, Live

LEMMA GhostLeave ==
    ASSUME TypeInv, GhostInv, NEW C \in SUBSET Conn, Leave(C)
    PROVE  GhostInv'
<1> DEFINE gone == SidsOf(C)
<1>1. /\ clients' = ClientsWithout(gone)
      /\ users' = UsersWithout(gone)
      /\ whisperIds' = WhispersWithout(gone)
      /\ UNCHANGED sid
  BY DEF Leave, Reap
<1>2. Live' = Live \ gone /\ \A i \in Live' : clients'[i] = clients[i]
  BY <1>1 DEF ClientsWithout, Live
<1> HIDE DEF gone
<1>3. \A ch \in Chan : users'[ch] \subseteq Live'
  BY <1>1, <1>2 DEF UsersWithout, GhostInv, NoGhosts, TypeInv, TypeOK
<1>4. ASSUME NEW i \in Live' PROVE whisperIds'[clients'[i]] \subseteq Live' \ {i}
  BY <1>1, <1>2, <1>4, LiveObject DEF WhispersWithout, GhostInv, NoGhosts
<1>5. Quiet'
  BY <1>1 DEF WhispersWithout, GhostInv, Quiet, TypeInv, TypeOK
<1>6. QED
  BY <1>3, <1>4, <1>5 DEF GhostInv, NoGhosts

LEMMA GhostEnter ==
    ASSUME TypeInv, IdInv, GhostInv, NEW c \in Conn, NEW u \in Uid, NEW n \in Nick,
           NEW drawn \in BOOLEAN, sid[c] = 0, Enter(c, u, n, drawn)
    PROVE  GhostInv'
<1> DEFINE old == Duplicate(u)
           me == nextId
<1>1. /\ me \in Sid /\ me # 0
      /\ sid' = [sid EXCEPT ![c] = me]
      /\ clients' = [ClientsWithout(old) EXCEPT ![me] = c]
      /\ users' = [ch \in Chan |-> IF ch = Lobby THEN UsersWithout(old)[ch] \cup {me}
                                   ELSE UsersWithout(old)[ch] \ {me}]
      /\ whisperIds' = WhispersWithout(old)
  BY DEF Enter, Sid
<1>2. /\ old \subseteq Live
      /\ \A i \in Live : i # me /\ clients[i] # c
  BY LiveObject, LiveIds DEF Duplicate, TypeInv, TypeOK, Filed, Sid
<1>3. /\ Live' = (Live \ old) \cup {me}
      /\ clients'[me] = c
      /\ \A i \in Live \ old : clients'[i] = clients[i]
  BY <1>1, <1>2, SessionsAssumption DEF ClientsWithout, Live, TypeInv, TypeOK
<1> HIDE DEF old, me
<1>4. \A ch \in Chan : users'[ch] \subseteq Live'
  BY <1>1, <1>3 DEF UsersWithout, GhostInv, NoGhosts, TypeInv, TypeOK
<1>5. ASSUME NEW i \in Live' PROVE whisperIds'[clients'[i]] \subseteq Live' \ {i}
  <2>1. CASE i = me
    <3>1. whisperIds'[c] = {}
      BY <1>1 DEF WhispersWithout, GhostInv, Quiet
    <3>2. QED
      BY <2>1, <3>1, <1>3
  <2>2. CASE i # me
    <3>1. i \in Live \ old /\ clients'[i] = clients[i]
      BY <1>3, <2>2, <1>5
    <3>2. whisperIds'[clients[i]] = whisperIds[clients[i]] \ old
      BY <1>1, <3>1, LiveObject DEF WhispersWithout
    <3>3. QED
      BY <1>3, <3>1, <3>2 DEF GhostInv, NoGhosts
  <2>3. QED
    BY <2>1, <2>2
<1>6. Quiet'
  BY <1>1 DEF WhispersWithout, GhostInv, Quiet, TypeInv, TypeOK
<1>7. QED
  BY <1>4, <1>5, <1>6 DEF GhostInv, NoGhosts

LEMMA GhostSeat ==
    ASSUME TypeInv, GhostInv, NEW i \in Live, NEW ch \in Chan, Seat(i, ch),
           UNCHANGED <<sid, clients, whisperIds>>
    PROVE  GhostInv'
  BY DEF Seat, TypeInv, TypeOK, GhostInv, NoGhosts, Quiet, Live

\* A session whose line is handled is still in m_clients.
LEMMA SpeakerIsLive ==
    ASSUME TypeInv, IdInv, ObjInv, NEW c \in Conn, LoggedIn(c)
    PROVE  sid[c] \in Live /\ clients[sid[c]] = c
  BY OnlyOpenSpeak, SessionsAssumption
     DEF LoggedIn, ObjInv, NothingLeftBehind, Live, TypeInv, TypeOK

LEMMA GhostLine ==
    ASSUME TypeInv, IdInv, ObjInv, GhostInv, NEW c \in Conn, Line(c)
    PROVE  GhostInv'
<1>1. ASSUME NEW u \in Uid, NEW n \in Nick, sid[c] = 0, Admission(c, u, n) PROVE GhostInv'
  <2>1. PICK passOk \in BOOLEAN, drawn \in TokenDraw :
            IF Fault(c, u, n, passOk) = "none" THEN Enter(c, u, n, drawn)
            ELSE Refused(c, Fault(c, u, n, passOk))
    BY <1>1 DEF Admission
  <2>2. CASE Enter(c, u, n, drawn)
    BY <1>1, <2>2, GhostEnter, SessionsAssumption DEF ObjInv
  <2>3. CASE Refused(c, Fault(c, u, n, passOk))
    BY <2>3, GhostUnchanged DEF Refused, tableVars, seatVars
  <2>4. QED
    BY <2>1, <2>2, <2>3
<1>2. ASSUME NEW u \in Uid, NEW n \in Nick, SayHello(c, u, n) PROVE GhostInv'
  <2>1. CASE verified[c]
    BY <1>1, <1>2, <2>1 DEF SayHello
  <2>2. CASE ~verified[c]
    BY <1>2, <2>2, GhostUnchanged DEF SayHello, tableVars, seatVars
  <2>3. QED
    BY <2>1, <2>2
<1>3. CASE Prove(c)
  <2>1. pending[c].uid \in Uid /\ pending[c].nick \in Nick
    BY <1>3 DEF Prove, TypeInv, TypeOK, Hello
  <2>2. QED
    BY <1>1, <1>3, <2>1 DEF Prove
<1>4. CASE Quit(c)
  <2>1. {c} \in SUBSET Conn /\ Leave({c})
    BY <1>4, Exits
  <2>2. QED
    BY <2>1, GhostLeave
<1>5. CASE \E i \in Sid : KickFromServer(c, i) \/ BanSession(c, i)
  <2>1. PICK i \in Live : Expel(i)
    BY <1>5 DEF KickFromServer, BanSession
  <2>2. {clients[i]} \in SUBSET Conn /\ Leave({clients[i]})
    BY <2>1, Exits, LiveObject
  <2>3. QED
    BY <2>2, GhostLeave
<1>6. ASSUME NEW I \in SUBSET Live, Whisper(c, I) PROVE GhostInv'
  <2>1. /\ I \subseteq Live \ {sid[c]} /\ sid[c] # 0
        /\ whisperIds' = [whisperIds EXCEPT ![c] = I]
        /\ UNCHANGED <<sid, clients, users>>
    BY <1>6 DEF Whisper, LoggedIn, tableVars, seatVars
  <2>2. QED
    BY <2>1, LiveObject DEF TypeInv, TypeOK, Filed, GhostInv, NoGhosts, Quiet, Live
<1>7. ASSUME NEW ch \in Chan, Move(c, ch) PROVE GhostInv'
  BY <1>7, SpeakerIsLive, GhostSeat DEF Move, objVars, tableVars
<1>8. ASSUME NEW i \in Sid, NEW ch \in Chan, MoveOther(c, i, ch) PROVE GhostInv'
  BY <1>8, GhostSeat DEF MoveOther, objVars, tableVars
<1>9. ASSUME NEW i \in Sid, KickFromChannel(c, i) PROVE GhostInv'
  <2>1. Lobby \in Chan
    BY SessionsAssumption DEF Lobby, Chan
  <2>2. i \in Live /\ UNCHANGED <<sid, clients, whisperIds>>
    BY <1>9 DEF KickFromChannel, objVars, tableVars
  <2>3. CASE Seat(i, Lobby)
    BY <2>1, <2>2, <2>3, GhostSeat
  <2>4. CASE UNCHANGED seatVars
    BY <2>2, <2>4, GhostUnchanged DEF seatVars
  <2>5. QED
    BY <1>9, <2>3, <2>4 DEF KickFromChannel
<1>10. ASSUME NEW ch \in Chan, ChanDelete(c, ch) PROVE GhostInv'
  <2>1. UNCHANGED <<sid, clients, whisperIds>>
    BY <1>10 DEF ChanDelete, objVars, tableVars
  <2>2. \A d \in Chan : users'[d] \subseteq users[d] \cup users[ch]
    BY <1>10 DEF ChanDelete, PassedOver
  <2>3. QED
    BY <2>1, <2>2 DEF GhostInv, NoGhosts, Quiet, Live
<1>11. CASE \/ Dismissed(c)
            \/ \E d \in Conn, n \in Nick : Rename(c, d, n)
            \/ VoiceHello(c)
            \/ \E u \in Uid : Unban(c, u)
            \/ \E type \in {"temp", "perm"}, max \in Caps :
                  \/ ChanCreate(c, type, max)
                  \/ \E ch \in Chan : ChanEdit(c, ch, type, max)
  BY <1>11, GhostUnchanged DEF Dismissed, Rename, VoiceHello, Unban, ChanCreate, ChanEdit,
     objVars, tableVars, seatVars
<1>12. QED
  BY <1>2, <1>3, <1>4, <1>5, <1>6, <1>7, <1>8, <1>9, <1>10, <1>11 DEF Line

LEMMA GhostStep == TypeInv /\ IdInv /\ ObjInv /\ GhostInv /\ [Next]_vars => GhostInv'
<1> SUFFICES ASSUME TypeInv, IdInv, ObjInv, GhostInv, [Next]_vars PROVE GhostInv'
  OBVIOUS
<1>1. ASSUME NEW C \in SUBSET Conn, Leave(C) PROVE GhostInv'
  BY <1>1, GhostLeave
<1>2. CASE Event
  <2>1. ASSUME NEW c \in Conn, Connect(c) \/ Oversize(c) PROVE GhostInv'
    BY <2>1, GhostUnchanged DEF Connect, Oversize, tableVars, seatVars
  <2>2. ASSUME NEW c \in Conn, Deleted(c) PROVE GhostInv'
    BY <2>2, LiveObject DEF Deleted, ObjectsOf, tableVars, seatVars, TypeInv, TypeOK, GhostInv, NoGhosts, Quiet, Live
  <2>3. ASSUME NEW c \in Conn, Dropped(c) PROVE GhostInv'
    BY <1>1, <2>3, Exits
  <2>4. ASSUME NEW idle \in SUBSET Conn, Tick(idle) PROVE GhostInv'
    BY <1>1, <2>4, Exits
  <2>5. ASSUME NEW i \in Sid, QueryKick(i) \/ QueryBan(i) PROVE GhostInv'
    <3>1. i \in Live /\ Expel(i)
      BY <2>5 DEF QueryKick, QueryBan
    <3>2. {clients[i]} \in SUBSET Conn /\ Leave({clients[i]})
      BY <3>1, Exits, LiveObject
    <3>3. QED
      BY <3>2, <1>1
  <2>6. CASE \/ \E u \in Uid : QueryBanAdd(u) \/ QueryUnban(u)
             \/ \E b \in bans : BanLapses(b)
    BY <2>6, GhostUnchanged DEF QueryBanAdd, QueryUnban, BanLapses, objVars, tableVars, seatVars
  <2>7. QED
    BY <1>2, <2>1, <2>2, <2>3, <2>4, <2>5, <2>6 DEF Event
<1>3. ASSUME NEW c \in Conn, EndOfRead(c) PROVE GhostInv'
  BY <1>3, GhostUnchanged DEF EndOfRead, tableVars, seatVars
<1>4. CASE UNCHANGED vars
  BY <1>4, GhostUnchanged DEF vars, objVars, tableVars, seatVars
<1>5. QED
  BY <1>2, <1>3, <1>4, GhostLine DEF Next

\* No channel list and no whisper set of a session online keeps a dead id.
THEOREM GhostFree ==
    ASSUME Trailing = FALSE
    PROVE  Spec => []NoGhosts
<1>1. Init => GhostInv
  BY GhostInit
<1>2. (TypeInv /\ IdInv) /\ ObjInv /\ GhostInv /\ [Next]_vars => GhostInv'
  BY GhostStep
<1>3. GhostInv => NoGhosts
  BY DEF GhostInv
<1>4. QED
  BY <1>1, <1>2, <1>3, IdAlways, ObjAlways, PTL DEF Spec

=============================================================================
