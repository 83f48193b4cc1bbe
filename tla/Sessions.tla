------------------------------ MODULE Sessions ------------------------------
(***************************************************************************)
(* Sessions and presence: the ClientSession objects, the login handshake,  *)
(* the tables of ServerCore that hold session ids or session pointers, and *)
(* the channels as places where sessions sit.                              *)
(*                                                                         *)
(* The server is one thread and one event loop, so a handler is one step.  *)
(* What interleaves is the order of events: lines of different clients,    *)
(* closed sockets, the 5-second timer, ServerQuery commands and the        *)
(* deferred deletion of closed sessions.                                   *)
(*                                                                         *)
(* Permission checks are inputs: a refused request changes nothing but     *)
(* where an action says so, and is a stuttering step.  List order inside a *)
(* channel does not matter to what is said here, so QList<int> users is a  *)
(* set.                                                                    *)
(***************************************************************************)
EXTENDS Integers, FiniteSets

CONSTANTS
    Conn,         \* ClientSession objects (a deleted one may be allocated again)
    Uid,          \* identities
    Nick,         \* nicknames, up to letter case
    Ip, IpOf,     \* addresses, and the address each connection comes from
    None,         \* absence of a value
    MaxClients,   \* m_maxClients
    MaxPerIp,     \* kMaxConnectionsPerIp
    Caps,         \* the channel limits that clients ask for; -1 is unlimited
    TokenDraw,    \* the outcomes of RAND_bytes that are considered
    Trailing,     \* may a read hold more lines after one that ends the session?
    DeleteLimit,  \* largest number of people in a channel when it is deleted
    MaxSid,       \* bound on session ids
    MaxChan       \* bound on channel ids

ASSUME SessionsAssumption ==
    /\ IpOf \in [Conn -> Ip]
    /\ None \notin Conn \cup Uid \cup Nick \cup Ip
    /\ None \notin [uid : Uid, nick : Nick]
    /\ MaxClients \in Nat \ {0}
    /\ MaxPerIp \in Nat \ {0}
    /\ Caps \in SUBSET (-1..MaxClients)
    /\ TokenDraw \in SUBSET BOOLEAN
    /\ Trailing \in BOOLEAN
    /\ DeleteLimit \in Nat
    /\ MaxSid \in Nat
    /\ MaxChan \in Nat \ {0}

Sid  == 1..MaxSid
Chan == 1..MaxChan
Lobby == 1            \* the default channel, which cannot be deleted
Nowhere == 0
Unlimited == -1

VARIABLES
    \* the ClientSession objects
    phase,        \* "free", "open", "draining" or "closing"
    sid,          \* m_id; 0 before login
    uid,          \* m_uid
    nick,         \* m_name
    verified,     \* m_identityVerified
    pending,      \* the hello whose challenge was sent and waits for its proof
    verdict,      \* why a login was refused
    whisperIds,   \* m_whisperIds, session ids
    hasToken,     \* whether a voice credential was issued
    reading,      \* the session whose read loop goes on after it closed itself
    \* ServerCore
    clients,      \* m_clients: session id -> object
    nextId,       \* m_nextId
    byVoiceToken, \* the objects m_byVoiceToken and m_byLegacyVoiceToken lead to
    chanType,     \* "none" when the channel does not exist
    maxIn,        \* SvrChan::maxClients
    nextChan,     \* m_nextChanId
    users,        \* SvrChan::users
    userChannelCache,  \* m_userChannelCache; Nowhere when there is no entry
    registry,     \* m_registry: last nickname of each identity
    bans          \* m_bans, without the entries that have expired

objVars == <<phase, sid, uid, nick, verified, pending, verdict, whisperIds, hasToken, reading>>
tableVars == <<clients, nextId, byVoiceToken>>
seatVars == <<users, userChannelCache>>
chanVars == <<chanType, maxIn, nextChan>>
keptVars == <<registry, bans>>
vars == <<objVars, tableVars, seatVars, chanVars, keptVars>>

Phases == {"free", "open", "draining", "closing"}
Verdicts == {"none", "banned", "server_full", "bad_password", "name_in_use"}
ChanTypes == {"none", "temp", "perm", "phantom"}
Hello == [uid : Uid, nick : Nick]
Ban == [uid : Uid, ip : Ip \cup {None}]

TypeOK ==
    /\ phase \in [Conn -> Phases]
    /\ sid \in [Conn -> Sid \cup {0}]
    /\ uid \in [Conn -> Uid \cup {None}]
    /\ nick \in [Conn -> Nick \cup {None}]
    /\ verified \in [Conn -> BOOLEAN]
    /\ pending \in [Conn -> Hello \cup {None}]
    /\ verdict \in [Conn -> Verdicts]
    /\ whisperIds \in [Conn -> SUBSET Sid]
    /\ hasToken \in [Conn -> BOOLEAN]
    /\ reading \in Conn \cup {None}
    /\ clients \in [Sid -> Conn \cup {None}]
    /\ nextId \in 1..MaxSid + 1
    /\ byVoiceToken \in SUBSET Conn
    /\ chanType \in [Chan -> ChanTypes]
    /\ maxIn \in [Chan -> Caps \cup {0, Unlimited}]
    /\ nextChan \in 2..MaxChan + 1
    /\ users \in [Chan -> SUBSET Sid]
    /\ userChannelCache \in [Sid -> Chan \cup {Nowhere}]
    /\ registry \in [Uid -> Nick \cup {None}]
    /\ bans \in SUBSET Ban

Init ==
    /\ phase = [c \in Conn |-> "free"]
    /\ sid = [c \in Conn |-> 0]
    /\ uid = [c \in Conn |-> None]
    /\ nick = [c \in Conn |-> None]
    /\ verified = [c \in Conn |-> FALSE]
    /\ pending = [c \in Conn |-> None]
    /\ verdict = [c \in Conn |-> "none"]
    /\ whisperIds = [c \in Conn |-> {}]
    /\ hasToken = [c \in Conn |-> FALSE]
    /\ reading = None
    /\ clients = [i \in Sid |-> None]
    /\ nextId = 1
    /\ byVoiceToken = {}
    /\ chanType = [ch \in Chan |-> IF ch = Lobby THEN "perm" ELSE "none"]
    /\ maxIn = [ch \in Chan |-> Unlimited]
    /\ nextChan = 2
    /\ users = [ch \in Chan |-> {}]
    /\ userChannelCache = [i \in Sid |-> Nowhere]
    /\ registry = [u \in Uid |-> None]
    /\ bans = {}

-----------------------------------------------------------------------------
(* Reading the tables *)

Live == {i \in Sid : clients[i] # None}

\* A line of c is dispatched: from its read loop, or from the rest of the
\* same read after c closed itself.
Speaks(c) == \/ reading = None /\ phase[c] = "open"
             \/ reading = c
LoggedIn(c) == Speaks(c) /\ sid[c] # 0

ChannelOf(i) == IF userChannelCache[i] # Nowhere THEN userChannelCache[i]
                ELSE IF \E ch \in Chan : i \in users[ch]
                     THEN CHOOSE ch \in Chan : i \in users[ch]
                     ELSE Nowhere

\* Mutant of HasRoom: the limit is off by one.
HasRoomForOneMore(ch) == maxIn[ch] < 0 \/ Cardinality(users[ch]) <= maxIn[ch]

HasRoom(ch) == maxIn[ch] < 0 \/ Cardinality(users[ch]) < maxIn[ch]

NickTaken(u, n) == \E i \in Live : uid[clients[i]] # u /\ nick[clients[i]] = n

EffectiveNick(u, n) == IF registry[u] # None /\ ~NickTaken(u, registry[u])
                       THEN registry[u] ELSE n

\* Mutant of Banned: entries match by address only.
AddressBanned(u, ip) == \E b \in bans : b.ip = ip

Banned(u, ip) == \E b \in bans : b.uid = u \/ b.ip = ip

\* Mutants of Duplicate: the earlier session is not looked for, or a session
\* with the nickname that u used last counts as one of u.
NoDuplicate(u) == {}
NamesakeOrDuplicate(u) == {i \in Live : \/ uid[clients[i]] = u
                                        \/ nick[clients[i]] = registry[u]}

\* The first session of u in m_clients: the loop stops at it.
Duplicate(u) == {i \in Live : /\ uid[clients[i]] = u
                              /\ \A j \in Live : uid[clients[j]] = u => i <= j}

-----------------------------------------------------------------------------
(* Writing the tables: what reapUser, addToChannel and doKick leave behind *)

ClientsWithout(I) == [i \in Sid |-> IF i \in I THEN None ELSE clients[i]]
UsersWithout(I) == [ch \in Chan |-> users[ch] \ I]
CacheWithout(I) == [i \in Sid |-> IF i \in I THEN Nowhere ELSE userChannelCache[i]]
\* Mutant of WhispersWithout: an id that dies stays a whisper target.
WhispersKept(I) == whisperIds

WhispersWithout(I) == [c \in Conn |-> IF \E i \in Live \ I : clients[i] = c
                                      THEN whisperIds[c] \ I ELSE whisperIds[c]]
ObjectsOf(I) == {clients[i] : i \in I}

\* Mutants of SidsOf and Reap: a session that goes is not reaped, or keeps its
\* place in the voice tables.
SidsOfNone(C) == {}
ReapButToken(I) ==
    /\ clients' = ClientsWithout(I)
    /\ users' = UsersWithout(I)
    /\ userChannelCache' = CacheWithout(I)
    /\ whisperIds' = WhispersWithout(I)
    /\ UNCHANGED <<byVoiceToken, hasToken>>

\* The ids under which objects are logged in: reapUser ignores the others.
SidsOf(C) == {sid[c] : c \in C} \cap Live

Reap(I) ==
    /\ clients' = ClientsWithout(I)
    /\ users' = UsersWithout(I)
    /\ userChannelCache' = CacheWithout(I)
    /\ whisperIds' = WhispersWithout(I)
    /\ byVoiceToken' = byVoiceToken \ ObjectsOf(I)
    /\ hasToken' = [c \in Conn |-> hasToken[c] /\ c \notin ObjectsOf(I)]

\* Mutant of Seat: the cache keeps the channel that was left.
SeatInListOnly(i, ch) ==
    /\ users' = [d \in Chan |-> IF d = ch THEN users[d] \cup {i} ELSE users[d] \ {i}]
    /\ UNCHANGED userChannelCache

Seat(i, ch) ==
    /\ users' = [d \in Chan |-> IF d = ch THEN users[d] \cup {i} ELSE users[d] \ {i}]
    /\ userChannelCache' = [userChannelCache EXCEPT ![i] = ch]

CloseAll(C) == phase' = [c \in Conn |-> IF c \in C THEN "closing" ELSE phase[c]]

\* closeAndDelete() called from the session's own read loop.
CloseSelf(c) == /\ CloseAll({c})
                /\ reading' = IF Trailing THEN c ELSE None

-----------------------------------------------------------------------------
(* Connections *)

Connect(c) ==
    /\ phase[c] = "free"
    /\ Cardinality({d \in Conn : phase[d] # "free" /\ IpOf[d] = IpOf[c]}) < MaxPerIp
    /\ phase' = [phase EXCEPT ![c] = "open"]
    /\ UNCHANGED <<sid, uid, nick, verified, pending, verdict, whisperIds, hasToken, reading>>
    /\ UNCHANGED <<tableVars, seatVars, chanVars, keptVars>>

\* More than 2 MiB without a newline, or one line that long: the session is
\* left to close by itself and reads nothing more.
Oversize(c) ==
    /\ phase[c] = "open"
    /\ phase' = [phase EXCEPT ![c] = "draining"]
    /\ UNCHANGED <<sid, uid, nick, verified, pending, verdict, whisperIds, hasToken, reading>>
    /\ UNCHANGED <<tableVars, seatVars, chanVars, keptVars>>

\* The socket reports that it is disconnected.
Dropped(c) ==
    /\ phase[c] \in {"open", "draining"}
    /\ Reap(SidsOf({c}))
    /\ CloseAll({c})
    /\ UNCHANGED <<sid, uid, nick, verified, pending, verdict, reading>>
    /\ UNCHANGED <<nextId, chanVars, keptVars>>

\* The read loop of a session that closed itself runs out of lines.
EndOfRead(c) ==
    /\ reading = c
    /\ reading' = None
    /\ UNCHANGED <<phase, sid, uid, nick, verified, pending, verdict, whisperIds, hasToken>>
    /\ UNCHANGED <<tableVars, seatVars, chanVars, keptVars>>

\* deleteLater() takes effect.  An object that a table still leads to stays as
\* it is: the program has no defined behaviour once such an object is freed,
\* and the model does not follow it there (NoDangling says when that is).
Deleted(c) ==
    /\ phase[c] = "closing"
    /\ c \notin ObjectsOf(Live) \cup byVoiceToken
    /\ phase' = [phase EXCEPT ![c] = "free"]
    /\ sid' = [sid EXCEPT ![c] = 0]
    /\ uid' = [uid EXCEPT ![c] = None]
    /\ nick' = [nick EXCEPT ![c] = None]
    /\ verified' = [verified EXCEPT ![c] = FALSE]
    /\ pending' = [pending EXCEPT ![c] = None]
    /\ verdict' = [verdict EXCEPT ![c] = "none"]
    /\ whisperIds' = [whisperIds EXCEPT ![c] = {}]
    /\ hasToken' = [hasToken EXCEPT ![c] = FALSE]
    /\ UNCHANGED <<reading, tableVars, seatVars, chanVars, keptVars>>

\* Mutants of Silent and Abandoned: the timer passes over sessions that were
\* told to disconnect, or sees only the channels it has just emptied itself.
SilentAndOpen(c) == phase[c] = "open"
JustEmptied(gone) == {ch \in Chan : /\ chanType[ch] = "temp"
                                    /\ users[ch] # {} /\ users[ch] \subseteq gone}

Silent(c) == phase[c] \in {"open", "draining"}
Abandoned(gone) == {ch \in Chan : chanType[ch] = "temp" /\ users[ch] \subseteq gone}

\* The 5-second timer: sessions that were silent too long (15 s before login,
\* 5 min after) are reaped, then empty temporary channels are removed.
Tick(idle) ==
    LET gone == SidsOf(idle)
        empty == Abandoned(gone)
    IN  /\ \A c \in idle : Silent(c)
        /\ Reap(gone)
        /\ CloseAll(idle)
        /\ chanType' = [ch \in Chan |-> IF ch \in empty THEN "none" ELSE chanType[ch]]
        /\ maxIn' = [ch \in Chan |-> IF ch \in empty THEN Unlimited ELSE maxIn[ch]]
        /\ UNCHANGED <<sid, uid, nick, verified, pending, verdict, reading>>
        /\ UNCHANGED <<nextId, nextChan, keptVars>>

-----------------------------------------------------------------------------
(* Login *)

\* Mutant of Fault: nobody asks whether the nickname is in use.
FaultButName(c, u, n, passOk) ==
    IF Banned(u, IpOf[c]) THEN "banned"
    ELSE IF Cardinality(Live) >= MaxClients THEN "server_full"
    ELSE IF ~passOk THEN "bad_password"
    ELSE "none"

\* The checks of handleHello in the order of the code.
Fault(c, u, n, passOk) ==
    IF Banned(u, IpOf[c]) THEN "banned"
    ELSE IF Cardinality(Live) >= MaxClients THEN "server_full"
    ELSE IF ~passOk THEN "bad_password"
    ELSE IF NickTaken(u, EffectiveNick(u, n)) THEN "name_in_use"
    ELSE "none"

Refused(c, why) ==
    /\ verdict' = [verdict EXCEPT ![c] = why]
    /\ CloseSelf(c)
    /\ UNCHANGED <<sid, uid, nick, whisperIds, hasToken>>
    /\ UNCHANGED <<tableVars, seatVars, chanVars, keptVars>>

\* The session of u that is replaced is kicked, then c gets an id, a seat in
\* the lobby, a voice credential and the saved nickname.
Enter(c, u, n, drawn) ==
    LET me == nextId
        old == Duplicate(u)
        name == EffectiveNick(u, n)
        moved == UsersWithout(old)
    IN  /\ me \in Sid
        /\ nextId' = me + 1
        /\ sid' = [sid EXCEPT ![c] = me]
        /\ uid' = [uid EXCEPT ![c] = u]
        /\ nick' = [nick EXCEPT ![c] = name]
        /\ clients' = [ClientsWithout(old) EXCEPT ![me] = c]
        /\ users' = [ch \in Chan |-> IF ch = Lobby THEN moved[ch] \cup {me}
                                     ELSE moved[ch] \ {me}]
        /\ userChannelCache' = [CacheWithout(old) EXCEPT ![me] = Lobby]
        /\ whisperIds' = WhispersWithout(old)
        /\ hasToken' = [d \in Conn |-> IF d = c THEN hasToken[c] \/ drawn
                                       ELSE hasToken[d] /\ d \notin ObjectsOf(old)]
        /\ byVoiceToken' = (byVoiceToken \ ObjectsOf(old))
                             \cup (IF drawn THEN {c} ELSE {})
        /\ CloseAll(ObjectsOf(old))
        /\ registry' = [registry EXCEPT ![u] = name]
        /\ UNCHANGED <<verdict, reading, bans, chanVars>>

Admission(c, u, n) ==
    \E passOk \in BOOLEAN, drawn \in TokenDraw :
        LET fault == Fault(c, u, n, passOk)
        IN  IF fault = "none" THEN Enter(c, u, n, drawn) ELSE Refused(c, fault)

\* Mutant of SayHello: a hello without an identity is taken.
SayHelloAnonymously(c, u, n) ==
    /\ Speaks(c) /\ sid[c] = 0
    /\ pending' = [pending EXCEPT ![c] = [uid |-> None, nick |-> n]]
    /\ UNCHANGED <<phase, sid, uid, nick, verified, verdict, whisperIds, hasToken, reading>>
    /\ UNCHANGED <<tableVars, seatVars, chanVars, keptVars>>

\* hello: the first one, and any later one before the proof, is answered with
\* a challenge and replaces the hello that was pending.  A session that closed
\* itself in this read is not sent the challenge, which nobody can answer then.
SayHello(c, u, n) ==
    /\ Speaks(c) /\ sid[c] = 0
    /\ IF verified[c]
       THEN Admission(c, u, n) /\ UNCHANGED <<verified, pending>>
       ELSE /\ pending' = [pending EXCEPT ![c] = IF phase[c] = "closing" THEN None
                                                 ELSE [uid |-> u, nick |-> n]]
            /\ UNCHANGED <<phase, sid, uid, nick, verified, verdict, whisperIds, hasToken, reading>>
            /\ UNCHANGED <<tableVars, seatVars, chanVars, keptVars>>

\* identity_proof with a valid signature.
Prove(c) ==
    /\ Speaks(c) /\ sid[c] = 0 /\ pending[c] # None
    /\ verified' = [verified EXCEPT ![c] = TRUE]
    /\ pending' = [pending EXCEPT ![c] = None]
    /\ Admission(c, pending[c].uid, pending[c].nick)

\* server_probe, a hello without a usable protocol version, nickname or key,
\* or a proof that does not verify: answered, and the session closes.
Dismissed(c) ==
    /\ Speaks(c) /\ sid[c] = 0
    /\ CloseSelf(c)
    /\ UNCHANGED <<sid, uid, nick, verified, pending, verdict, whisperIds, hasToken>>
    /\ UNCHANGED <<tableVars, seatVars, chanVars, keptVars>>

-----------------------------------------------------------------------------
(* Requests of a session that is logged in *)

Quit(c) ==
    /\ LoggedIn(c)
    /\ Reap(SidsOf({c}))
    /\ CloseSelf(c)
    /\ UNCHANGED <<sid, uid, nick, verified, pending, verdict>>
    /\ UNCHANGED <<nextId, chanVars, keptVars>>

\* nick: of the session itself or of another one.
Rename(c, d, n) ==
    /\ LoggedIn(c)
    /\ d = c \/ d \in ObjectsOf(Live)
    /\ nick[d] # n
    /\ \A i \in Live : clients[i] # d => nick[clients[i]] # n
    /\ nick' = [nick EXCEPT ![d] = n]
    /\ registry' = [registry EXCEPT ![uid[d]] = n]
    /\ UNCHANGED <<phase, sid, uid, verified, pending, verdict, whisperIds, hasToken, reading>>
    /\ UNCHANGED <<tableVars, seatVars, chanVars, bans>>

\* whisper: ids of sessions that are logged in, never the sender's own.
Whisper(c, I) ==
    /\ LoggedIn(c)
    /\ I \subseteq Live \ {sid[c]}
    /\ whisperIds' = [whisperIds EXCEPT ![c] = I]
    /\ UNCHANGED <<phase, sid, uid, nick, verified, pending, verdict, hasToken, reading>>
    /\ UNCHANGED <<tableVars, seatVars, chanVars, keptVars>>

\* voice_hello: a credential for a session that has none yet.
VoiceHello(c) ==
    /\ LoggedIn(c)
    /\ ~hasToken[c]
    /\ hasToken' = [hasToken EXCEPT ![c] = TRUE]
    /\ byVoiceToken' = byVoiceToken \cup {c}
    /\ UNCHANGED <<phase, sid, uid, nick, verified, pending, verdict, whisperIds, reading>>
    /\ UNCHANGED <<clients, nextId, seatVars, chanVars, keptVars>>

Move(c, ch) ==
    /\ LoggedIn(c)
    /\ chanType[ch] # "none" /\ ChannelOf(sid[c]) # ch
    /\ HasRoom(ch)
    /\ Seat(sid[c], ch)
    /\ UNCHANGED <<objVars, tableVars, chanVars, keptVars>>

MoveOther(c, i, ch) ==
    /\ LoggedIn(c)
    /\ i \in Live /\ clients[i] # c
    /\ chanType[ch] # "none"
    /\ HasRoom(ch)
    /\ Seat(i, ch)
    /\ UNCHANGED <<objVars, tableVars, chanVars, keptVars>>

\* kick from a channel: back to the lobby, whatever its limit.  The check of
\* the permission reads the type of the target's channel, which creates an
\* entry of id 0 when that channel no longer exists; only then is a kick of
\* oneself, or of a person too high, refused.
KickFromChannel(c, i) ==
    LET at == ChannelOf(i)
        ghostly == at # Nowhere /\ chanType[at] = "none"
    IN  /\ LoggedIn(c)
        /\ i \in Live
        /\ \/ i # sid[c] /\ Seat(i, Lobby)
           \/ UNCHANGED seatVars
        /\ chanType' = IF ghostly THEN [chanType EXCEPT ![at] = "phantom"] ELSE chanType
        /\ maxIn' = IF ghostly THEN [maxIn EXCEPT ![at] = 0] ELSE maxIn
        /\ UNCHANGED <<objVars, tableVars, nextChan, keptVars>>

\* doKick from the server: the target is closed from outside its read loop.
Expel(i) ==
    /\ Reap({i})
    /\ CloseAll({clients[i]})
    /\ UNCHANGED <<sid, uid, nick, verified, pending, verdict, reading>>
    /\ UNCHANGED <<nextId, chanVars, registry>>

KickFromServer(c, i) ==
    /\ LoggedIn(c)
    /\ i \in Live /\ i # sid[c]
    /\ Expel(i) /\ UNCHANGED bans

BanSession(c, i) ==
    /\ LoggedIn(c)
    /\ i \in Live /\ i # sid[c]
    /\ bans' = bans \cup {[uid |-> uid[clients[i]], ip |-> IpOf[clients[i]]]}
    /\ Expel(i)

Unban(c, u) ==
    /\ LoggedIn(c)
    /\ bans' = {b \in bans : b.uid # u}
    /\ UNCHANGED <<objVars, tableVars, seatVars, chanVars, registry>>

\* chan_create takes an id before it looks at the parent and at the fields,
\* so a request refused for one of them uses the id up.
ChanCreate(c, type, max) ==
    /\ LoggedIn(c)
    /\ nextChan \in Chan
    /\ nextChan' = nextChan + 1
    /\ \/ /\ chanType' = [chanType EXCEPT ![nextChan] = type]
          /\ maxIn' = [maxIn EXCEPT ![nextChan] = max]
       \/ UNCHANGED <<chanType, maxIn>>
    /\ UNCHANGED <<objVars, tableVars, seatVars, keptVars>>

\* A phantom stays one: the timer knows it by the wrong id.
ChanEdit(c, ch, type, max) ==
    /\ LoggedIn(c)
    /\ chanType[ch] # "none"
    /\ chanType' = IF ch = Lobby \/ chanType[ch] = "phantom" THEN chanType
                   ELSE [chanType EXCEPT ![ch] = type]
    /\ maxIn' = [maxIn EXCEPT ![ch] = max]
    /\ UNCHANGED <<objVars, tableVars, nextChan, seatVars, keptVars>>

\* chan_delete moves the occupants to the lobby with a loop over the very list
\* that removeFromChannels shrinks under it.  With n occupants the loop passes
\* over (n - 1) \div 2 of them: they stay in no list, with a stale cache entry.
PassedOver(S) == {T \in SUBSET S : Cardinality(T) = IF S = {} THEN 0
                                                    ELSE (Cardinality(S) - 1) \div 2}

\* Mutant of ChanDelete: the people in the channel are left where they are.
ChanDeleteUnderPeople(c, ch) ==
    /\ LoggedIn(c)
    /\ ch # Lobby /\ chanType[ch] # "none"
    /\ Cardinality(users[ch]) <= DeleteLimit
    /\ chanType' = [chanType EXCEPT ![ch] = "none"]
    /\ maxIn' = [maxIn EXCEPT ![ch] = Unlimited]
    /\ UNCHANGED <<objVars, tableVars, nextChan, seatVars, keptVars>>

ChanDelete(c, ch) ==
    /\ LoggedIn(c)
    /\ ch # Lobby /\ chanType[ch] # "none"
    /\ Cardinality(users[ch]) <= DeleteLimit
    /\ \E lost \in PassedOver(users[ch]) :
        LET movedOut == users[ch] \ lost
        IN  /\ users' = [d \in Chan |-> IF d = Lobby THEN users[d] \cup movedOut
                                        ELSE IF d = ch THEN {} ELSE users[d]]
            /\ userChannelCache' = [i \in Sid |-> IF i \in movedOut THEN Lobby
                                                  ELSE userChannelCache[i]]
    /\ chanType' = [chanType EXCEPT ![ch] = "none"]
    /\ maxIn' = [maxIn EXCEPT ![ch] = Unlimited]
    /\ UNCHANGED <<objVars, tableVars, nextChan, keptVars>>

-----------------------------------------------------------------------------
(* ServerQuery, and time *)

QueryKick(i) == i \in Live /\ Expel(i) /\ UNCHANGED bans

QueryBan(i) ==
    /\ i \in Live
    /\ bans' = bans \cup {[uid |-> uid[clients[i]], ip |-> IpOf[clients[i]]]}
    /\ Expel(i)

QueryBanAdd(u) ==
    /\ bans' = bans \cup {[uid |-> u, ip |-> None]}
    /\ UNCHANGED <<objVars, tableVars, seatVars, chanVars, registry>>

QueryUnban(u) ==
    /\ \E b \in bans : b.uid = u
    /\ bans' = {b \in bans : b.uid # u}
    /\ UNCHANGED <<objVars, tableVars, seatVars, chanVars, registry>>

\* A ban entry with an end date stops matching.
BanLapses(b) ==
    /\ bans' = bans \ {b}
    /\ UNCHANGED <<objVars, tableVars, seatVars, chanVars, registry>>

-----------------------------------------------------------------------------

Line(c) ==
    \/ \E u \in Uid, n \in Nick : SayHello(c, u, n)
    \/ Prove(c)
    \/ Dismissed(c)
    \/ Quit(c)
    \/ \E d \in Conn, n \in Nick : Rename(c, d, n)
    \/ \E I \in SUBSET Live : Whisper(c, I)
    \/ VoiceHello(c)
    \/ \E ch \in Chan : Move(c, ch) \/ ChanDelete(c, ch)
    \/ \E i \in Sid, ch \in Chan : MoveOther(c, i, ch)
    \/ \E i \in Sid : KickFromChannel(c, i) \/ KickFromServer(c, i) \/ BanSession(c, i)
    \/ \E u \in Uid : Unban(c, u)
    \/ \E type \in {"temp", "perm"}, max \in Caps :
          \/ ChanCreate(c, type, max)
          \/ \E ch \in Chan : ChanEdit(c, ch, type, max)

Event ==
    /\ reading = None
    /\ \/ \E c \in Conn : Connect(c) \/ Oversize(c) \/ Dropped(c) \/ Deleted(c)
       \/ \E idle \in SUBSET Conn : Tick(idle)
       \/ \E i \in Sid : QueryKick(i) \/ QueryBan(i)
       \/ \E u \in Uid : QueryBanAdd(u) \/ QueryUnban(u)
       \/ \E b \in bans : BanLapses(b)

Next == Event \/ \E c \in Conn : Line(c) \/ EndOfRead(c)

Spec == Init /\ [][Next]_vars

\* The event loop deletes closed sessions and runs the timer; a session that
\* discards what it reads is silent, so the timer finds it idle in the end.
Fairness ==
    /\ \A c \in Conn : WF_vars(reading = None /\ Deleted(c))
    /\ \A c \in Conn : WF_vars(/\ reading = None /\ phase[c] = "draining"
                               /\ \E idle \in SUBSET Conn : c \in idle /\ Tick(idle))
    /\ WF_vars(reading = None /\ \E idle \in SUBSET Conn : Tick(idle))

FairSpec == Spec /\ Fairness

-----------------------------------------------------------------------------
(* Safety *)

\* Every pointer in m_clients leads to a session object that has not been
\* closed and that carries the id it is filed under: broadcast, relayVoice and
\* every handler that looks a target up dereference these pointers.
NoDangling == \A i \in Live : /\ phase[clients[i]] \in {"open", "draining"}
                              /\ sid[clients[i]] = i

\* A session that carries an id and has not been closed is in m_clients, and
\* the voice tables lead to logged-in sessions only, to those that hold a
\* credential: what reapUser leaves of a session must be nothing.
NothingLeftBehind ==
    /\ \A c \in Conn : phase[c] \in {"open", "draining"} /\ sid[c] # 0
                       => clients[sid[c]] = c
    /\ byVoiceToken \subseteq ObjectsOf(Live)
    /\ \A c \in Conn : hasToken[c] => c \in byVoiceToken

\* The session ids kept in channel lists and in the whisper sets of logged-in
\* sessions are ids of logged-in sessions, and nobody whispers to himself.
NoGhosts == /\ \A ch \in Chan : users[ch] \subseteq Live
            /\ \A i \in Live : whisperIds[clients[i]] \subseteq Live \ {i}

\* An identity is online at most once: a second login replaces the first.
OneSessionPerIdentity ==
    \A i, j \in Live : uid[clients[i]] = uid[clients[j]] => i = j

\* No two people online have the same nickname, whoever renamed whom, and the
\* server remembers the nickname that is shown.
DistinctNicks ==
    /\ \A i, j \in Live : nick[clients[i]] = nick[clients[j]] => i = j
    /\ \A i \in Live : registry[uid[clients[i]]] = nick[clients[i]]

\* Everybody online is listed in exactly one channel, the channel exists, and
\* the cache that relayVoice trusts names that channel; nobody else has an
\* entry in the cache.
Seated ==
    \A i \in Sid :
        IF i \in Live
        THEN /\ userChannelCache[i] # Nowhere
             /\ chanType[userChannelCache[i]] \in {"temp", "perm"}
             /\ \A ch \in Chan : i \in users[ch] <=> userChannelCache[i] = ch
        ELSE userChannelCache[i] = Nowhere

\* A ban made on a person who was online keeps that identity offline until it
\* is lifted or lapses.
BannedAreGone ==
    \A b \in bans : b.ip # None => \A i \in Live : uid[clients[i]] # b.uid

-----------------------------------------------------------------------------
(* Properties of steps *)

\* A login removes nobody but an earlier session of the same identity.
NobodyElseEvicted ==
    [][\A i \in Live : nextId' # nextId /\ clients'[i] # clients[i]
                       => uid[clients[i]] = uid'[clients'[nextId]]]_vars

\* No step brings a channel other than the lobby above its limit.
RoomForOne ==
    [][\A ch \in Chan \ {Lobby} :
          Cardinality(users'[ch]) > Cardinality(users[ch])
            => maxIn[ch] < 0 \/ Cardinality(users'[ch]) <= maxIn[ch]]_vars

-----------------------------------------------------------------------------
(* What everybody sees: the user list of Roster *)

PlaceOf(u) == IF \E i \in Live : uid[clients[i]] = u
              THEN userChannelCache[CHOOSE i \in Live : uid[clients[i]] = u]
              ELSE Nowhere

R == INSTANCE Roster WITH place <- [u \in Uid |-> PlaceOf(u)],
                          rooms <- {ch \in Chan : chanType[ch] # "none"}

\* Sessions implements Roster.
ImplementsRoster == R!RosterSpec

-----------------------------------------------------------------------------
(* Liveness *)

\* A session that was refused, kicked, quit or broke the protocol is freed.
SessionsAreFreed ==
    \A c \in Conn : phase[c] \in {"draining", "closing"} ~> phase[c] = "free"

\* A temporary channel does not stay empty for ever.
TempRoomsVanish ==
    \A ch \in Chan : chanType[ch] = "temp" /\ users[ch] = {}
                      ~> chanType[ch] # "temp" \/ users[ch] # {}

=============================================================================
