---------------------------- MODULE Persistence ----------------------------
(***************************************************************************)
(* What the server keeps in its database, when it writes it, and what a    *)
(* restart, a crash or a database that cannot be reached leave of it.      *)
(*                                                                         *)
(* A save is a transaction: it happens or it does not.  The contents of    *)
(* the tables are facts that are there or not; the message of the day, the *)
(* configuration file it competes with, and the bans are kept in detail.   *)
(***************************************************************************)
EXTENDS Integers, Sequences, FiniteSets

CONSTANTS
    Fact,         \* rows of the tables that saveDataToSql writes
    Late,         \* those of them whose changes are saved by the timer
    Unread,       \* those that are not read back: names and rights of built-in groups
    Interval,     \* of the timer: 400 ms in the code
    Window,       \* for how long it may be put off: 2000 ms in the code
    Motd,         \* messages of the day
    Default,      \* the message of a configuration that was not touched
    Empty,        \* the empty message
    Uid, Ip, None,
    MaxBans,      \* bound on the length of m_bans
    MaxDay        \* bound on the days that pass; bans for a time end on day 1

ASSUME PersistenceAssumption ==
    /\ Late \subseteq Fact /\ Unread \subseteq Fact
    /\ Interval \in Nat \ {0} /\ Window \in Nat \ {0}
    /\ Default \in Motd /\ Empty \in Motd /\ Default # Empty /\ None \notin Motd
    /\ None \notin Ip
    /\ MaxBans \in Nat /\ MaxDay \in Nat

VARIABLES
    running,      \* is there a server process?
    reachable,    \* can it reach the database?
    data,         \* the tables in memory
    motd,         \* m_motd
    timer,        \* time until m_saveDebounceTimer fires; 0 when it is not active
    deferred,     \* how long ago m_saveDeferredSinceMs is; 0 when the timer is not active
    bans,         \* m_bans
    address,      \* address of the session of an identity, None when it has none
    storedData, storedMotd, snapshot,  \* database: the tables, settings motd and configMotdSnapshot
    storedBans,   \* database: table bans
    ini,          \* motd in the configuration file, None when it is not there
    day,
    \* History.
    taken,        \* what requests took out of memory since the start
    missed,       \* has a save, or the load, failed since the last that did not?
    blind,        \* were the tables neither read at the start nor written since?
    edited,       \* the edit of the message that the documents say is kept
    barred,       \* who is banned for good
    unsure,       \* those of whom the database may not know it
    blindToBans   \* was table bans neither read at the start nor written since?

memory == <<data, motd, bans>>
timing == <<timer, deferred>>
database == <<storedData, storedMotd, snapshot>>
saveHistory == <<missed, blind>>
banHistory == <<barred, unsure, blindToBans>>
vars == <<running, reachable, memory, timing, address, database, storedBans, ini, day,
          taken, saveHistory, edited, banHistory>>

Never == MaxDay + 2
Ban == [uid : Uid, ip : Ip \cup {None}, until : {1, Never}]

TypeOK ==
    /\ running \in BOOLEAN /\ reachable \in BOOLEAN
    /\ missed \in BOOLEAN /\ blind \in BOOLEAN /\ blindToBans \in BOOLEAN
    /\ data \in SUBSET Fact /\ storedData \in SUBSET Fact /\ taken \in SUBSET Fact
    /\ motd \in Motd /\ storedMotd \in Motd /\ snapshot \in Motd
    /\ ini \in Motd \cup {None} /\ edited \in Motd \cup {None}
    /\ timer \in 0..Interval /\ deferred \in 0..Window + Interval
    /\ timer = 0 => deferred = 0
    /\ bans \in Seq(Ban) /\ storedBans \in SUBSET Ban
    /\ address \in [Uid -> Ip \cup {None}]
    /\ day \in 0..MaxDay
    /\ barred \in SUBSET Uid /\ unsure \in SUBSET Uid

Nobody == [u \in Uid |-> None]

\* Before a first start: the database has its tables, and nothing in them yet.
Init ==
    /\ running = FALSE /\ reachable = TRUE
    /\ data = {} /\ motd = Default /\ bans = <<>>
    /\ timer = 0 /\ deferred = 0
    /\ address = Nobody
    /\ storedData = {} /\ storedMotd = Empty /\ snapshot = Empty /\ storedBans = {}
    /\ ini \in Motd \cup {None}
    /\ day = 0
    /\ taken = {} /\ missed = FALSE /\ blind = FALSE /\ edited = None
    /\ barred = {} /\ unsure = {} /\ blindToBans = FALSE

-----------------------------------------------------------------------------
(* Writing *)

\* All tables are written anew, in one transaction.  A failure is logged.
saveData ==
    /\ missed' = ~reachable
    /\ blind' = (blind /\ ~reachable)
    /\ IF reachable
       THEN /\ storedData' = data'
            /\ storedMotd' = motd'
            /\ snapshot' = IF ini = None THEN Empty ELSE ini
       ELSE UNCHANGED database

\* A save of anything but an edit of the message.  A server that could not read
\* the tables when it started writes its own message over the edited one.
saveRest ==
    /\ saveData
    /\ edited' = IF reachable /\ blind THEN None ELSE edited

\* Mutant of scheduleSave: each change puts the timer off, without an end.
scheduleSaveAlways ==
    /\ timer' = Interval
    /\ deferred' = IF timer = 0 THEN 0 ELSE deferred

scheduleSave ==
    LET since == IF timer = 0 THEN 0 ELSE deferred
    IN  /\ deferred' = since
        /\ timer' = IF since < Window THEN Interval ELSE timer

\* The table has one row for each uid and ip (NULLs, here None, are all
\* different), so that of the entries with the same two only the first gets in.
Rows(list) ==
    {list[i] : i \in {k \in DOMAIN list :
        \A j \in 1..k - 1 : list[j].uid = list[k].uid => list[j].ip # list[k].ip \/ list[k].ip = None}}

saveBans ==
    /\ storedBans' = IF reachable THEN Rows(bans') ELSE storedBans
    /\ blindToBans' = (blindToBans /\ ~reachable)

\* Whose entries the save of bans of a server that has not read the table drops.
Doubtful == IF reachable /\ blindToBans THEN barred ELSE {}

-----------------------------------------------------------------------------
(* Start and end *)

\* Mutant of resolveConfiguredSetting: the configuration always counts.
resolveIgnoringSnapshot(configured, persisted, previous) ==
    IF configured # None THEN configured
    ELSE IF persisted = Empty THEN Default ELSE persisted

\* Mutant of resolveConfiguredSetting: a missing configuration has no case of its own.
resolveUnguarded(configured, persisted, previous) ==
    CASE previous # Empty ->
             IF configured # previous \/ persisted = Empty THEN configured ELSE persisted
      [] OTHER -> IF persisted = Empty \/ configured # Default THEN configured ELSE persisted

resolveConfiguredSetting(configured, persisted, previous) ==
    CASE configured = None -> IF persisted = Empty THEN Default ELSE persisted
      [] configured # None /\ previous # Empty ->
             IF configured # previous \/ persisted = Empty THEN configured ELSE persisted
      [] OTHER -> IF persisted = Empty \/ configured # Default THEN configured ELSE persisted

\* Mutant of loadData: what the timer saves is not read back.
loadDataEarly ==
    /\ data' = storedData \ (Unread \cup Late)
    /\ motd' = resolveConfiguredSetting(ini, storedMotd, snapshot)

loadData ==
    /\ data' = storedData \ Unread
    /\ motd' = resolveConfiguredSetting(ini, storedMotd, snapshot)

Lists(rows) == {s \in [1..Cardinality(rows) -> rows] : {s[i] : i \in DOMAIN s} = rows}

loadBans == bans' \in Lists(storedBans)

\* When the database is not there the server goes on with its defaults.
Start(up) ==
    /\ ~running
    /\ running' = TRUE
    /\ reachable' = up
    /\ IF up THEN loadData /\ loadBans
             ELSE data' = {} /\ motd' = (IF ini = None THEN Default ELSE ini) /\ bans' = <<>>
    /\ taken' = {}
    /\ missed' = ~up /\ blind' = ~up /\ blindToBans' = ~up
    /\ UNCHANGED <<timing, address, database, storedBans, ini, day, edited, barred, unsure>>

Gone ==
    /\ running' = FALSE
    /\ timer' = 0 /\ deferred' = 0
    /\ address' = Nobody
    /\ UNCHANGED <<reachable, memory, ini, day, taken, barred>>

\* The destructor saves what the timer has not.
Stop ==
    /\ running
    /\ Gone
    /\ saveRest /\ saveBans
    /\ unsure' = unsure \cup Doubtful

Crash == running /\ Gone /\ UNCHANGED <<database, storedBans, saveHistory, edited, unsure, blindToBans>>

\* The connection to the database breaks or can be made again.
Reach ==
    /\ running
    /\ reachable' = ~reachable
    /\ UNCHANGED <<running, memory, timing, address, database, storedBans, ini, day, taken,
                   saveHistory, edited, banHistory>>

\* The operator edits the configuration, which the next start will read.
EditIni(m) ==
    /\ ~running
    /\ ini' = m
    /\ edited' = IF m = ini THEN edited ELSE None
    /\ UNCHANGED <<running, reachable, memory, timing, address, database, storedBans, day, taken,
                   saveHistory, banHistory>>

-----------------------------------------------------------------------------
(* Changes *)

\* A row is added or removed, by any of the handlers that end in a save, or in
\* the request for one.
Change(x) ==
    /\ running
    /\ data' = IF x \in data THEN data \ {x} ELSE data \cup {x}
    /\ taken' = IF x \in data THEN taken \cup {x} ELSE taken \ {x}
    /\ UNCHANGED motd
    /\ IF x \in Late THEN scheduleSave /\ UNCHANGED <<database, saveHistory, edited>>
                     ELSE saveRest /\ UNCHANGED timing
    /\ UNCHANGED <<running, reachable, bans, address, storedBans, ini, day, banHistory>>

\* Time passes for the timer.
Tick ==
    /\ running /\ timer > 0
    /\ timer' = timer - 1
    /\ deferred' = IF timer = 1 THEN 0 ELSE deferred + 1
    /\ UNCHANGED <<running, reachable, memory, address, storedBans, ini, day, taken, banHistory>>
    /\ IF timer = 1 THEN saveRest ELSE UNCHANGED <<database, saveHistory, edited>>

\* server_edit; one that is refused for its banner has set the message before.
ServerEdit(m, refused) ==
    /\ running
    /\ motd' = m
    /\ UNCHANGED <<running, reachable, data, bans, timing, address, storedBans, ini, day, taken, banHistory>>
    /\ IF refused THEN UNCHANGED <<database, saveHistory>> ELSE saveData
    /\ edited' = IF ~refused /\ reachable /\ m # Empty /\ ini # Empty THEN m ELSE None

-----------------------------------------------------------------------------
(* Bans *)

Active(b) == b.until > day

Banned(u, ip) ==
    \E i \in DOMAIN bans : (bans[i].uid = u \/ bans[i].ip = ip) /\ Active(bans[i])

\* A login registers the identity, which saves everything.
Hello(u, ip) ==
    /\ running
    /\ ~Banned(u, ip)
    /\ address' = [address EXCEPT ![u] = ip]
    /\ UNCHANGED <<running, reachable, memory, timing, storedBans, ini, day, taken, banHistory>>
    /\ saveRest

Leave(u) ==
    /\ address[u] # None
    /\ address' = [address EXCEPT ![u] = None]
    /\ UNCHANGED <<running, reachable, memory, timing, database, storedBans, ini, day, taken,
                   saveHistory, edited, banHistory>>

\* An entry is added to the list and the list is saved.
AddBan(u, ip, until) ==
    /\ running
    /\ Len(bans) < MaxBans
    /\ until > day
    /\ bans' = Append(bans, [uid |-> u, ip |-> ip, until |-> until])
    /\ saveBans
    /\ barred' = IF until = Never THEN barred \cup {u} ELSE barred
    /\ unsure' = IF \/ ~reachable
                    \/ ip # None /\ \E i \in DOMAIN bans : bans[i].uid = u /\ bans[i].ip = ip
                 THEN unsure \cup Doubtful \cup {u} ELSE unsure \cup Doubtful
    /\ UNCHANGED <<running, reachable, data, motd, timing, database, ini, day, taken, saveHistory, edited>>

\* Of somebody who is online, who is thrown out.
BanClient(u, until) ==
    /\ address[u] # None
    /\ AddBan(u, address[u], until)
    /\ address' = [address EXCEPT ![u] = None]

\* Mutant of BanAdd: the list is not saved.
BanAddUnsaved(u, until) ==
    /\ running
    /\ Len(bans) < MaxBans
    /\ until > day
    /\ bans' = Append(bans, [uid |-> u, ip |-> None, until |-> until])
    /\ barred' = IF until = Never THEN barred \cup {u} ELSE barred
    /\ UNCHANGED <<running, reachable, data, motd, timing, address, database, storedBans, ini, day,
                   taken, saveHistory, edited, unsure, blindToBans>>

\* banadd, of ServerQuery: by identity alone; who is online stays.
BanAdd(u, until) == AddBan(u, None, until) /\ UNCHANGED address

\* The list less the entries of u, in its order: one list, found by where its
\* entries are.
Without(u) ==
    LET left == {i \in DOMAIN bans : bans[i].uid # u}
        Orders == {at \in [1..Cardinality(left) -> left] :
                      /\ {at[k] : k \in DOMAIN at} = left
                      /\ \A j, k \in DOMAIN at : j < k => at[j] < at[k]}
    IN  {[k \in DOMAIN at |-> bans[at[k]]] : at \in Orders}

Unban(u) ==
    /\ running
    /\ \E i \in DOMAIN bans : bans[i].uid = u
    /\ bans' \in Without(u)
    /\ saveBans
    /\ barred' = barred \ {u}
    /\ unsure' = IF reachable THEN (unsure \cup Doubtful) \ {u} ELSE unsure
    /\ UNCHANGED <<running, reachable, data, motd, timing, address, database, ini, day, taken,
                   saveHistory, edited>>

NextDay ==
    /\ day < MaxDay
    /\ day' = day + 1
    /\ UNCHANGED <<running, reachable, memory, timing, address, database, storedBans, ini, taken,
                   saveHistory, edited, banHistory>>

Next ==
    \/ \E up \in BOOLEAN : Start(up)
    \/ Stop \/ Crash \/ Reach \/ Tick \/ NextDay
    \/ \E m \in Motd \cup {None} : EditIni(m)
    \/ \E m \in Motd, refused \in BOOLEAN : ServerEdit(m, refused)
    \/ \E x \in Fact : Change(x)
    \/ \E u \in Uid :
          \/ \E ip \in Ip : Hello(u, ip)
          \/ Leave(u)
          \/ \E until \in {1, Never} : BanClient(u, until) \/ BanAdd(u, until)
          \/ Unban(u)

Spec == Init /\ [][Next]_vars
-----------------------------------------------------------------------------
(* Properties *)

\* Unless a save failed, a change that is not in the database yet will be there
\* soon: the timer runs, and no burst of changes puts it off for longer than
\* the window and one interval.
UnsavedInTime ==
    running /\ ~missed /\ data \ Unread # storedData \ Unread => timer > 0 /\ timer + deferred < Window + Interval

\* A save writes all tables anew, and yet takes out of the database only the
\* rows that a request took out of memory since the start, and those of built-in
\* groups of which loadData skips a part.  The first save after a start that could
\* not read the tables is the one exception: what saveData says of itself ("only
\* saves when there is data loaded") does not cover it.
RowsGoOnRequest == [][blind \/ storedData \ storedData' \subseteq taken' \cup Unread]_vars

\* PROTOCOL.md: as long as the configuration is not edited, the last edit of an
\* administrator that was saved counts after a restart or a crash that finds the
\* database, unless a server that had not found it has saved its own since.
MotdKept == [][~running /\ running' /\ reachable' /\ edited # None => motd' = edited]_vars

\* Whoever is banned for good is not let in again until the ban is lifted.
PermanentBansHold == [][\A u \in barred : address'[u] # None => address[u] # None]_vars

\* The same of those with no earlier entry, perhaps an old one, of the same
\* identity and address, whose ban could be saved and was not written over by a
\* server that had not read the bans; such a server lets them in until it stops.
FirstBansHold ==
    [][\A u \in barred \ unsure : address'[u] # None => address[u] # None \/ blindToBans]_vars

=============================================================================
