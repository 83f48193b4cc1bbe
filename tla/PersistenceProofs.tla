------------------------- MODULE PersistenceProofs -------------------------
(***************************************************************************)
(* Theorems about Persistence, for any facts, intervals and messages.      *)
(*                                                                         *)
(* They assume nothing of the database, which may be out of reach at a     *)
(* start too: blind and blindToBans say what such a start still endangers. *)
(***************************************************************************)
EXTENDS Persistence, FiniteSetTheorems, WellFoundedInduction, TLAPS

-----------------------------------------------------------------------------
(* Unsaved changes *)

\* The timer and how long it was put off.
TimerOK ==
    /\ timer \in Nat /\ deferred \in Nat
    /\ timer = 0 => deferred = 0
    /\ timer > 0 => timer + deferred < Window + Interval

SaveInv == TimerOK /\ UnsavedInTime

\* A request for a save starts the timer and keeps it within its bound.
LEMMA ScheduleRuns ==
    ASSUME TimerOK, scheduleSave
    PROVE  TimerOK' /\ timer' > 0
<1> USE PersistenceAssumption DEF TimerOK
<1>1. CASE timer = 0
  BY <1>1 DEF scheduleSave
<1>2. CASE timer # 0 /\ deferred < Window
  BY <1>2 DEF scheduleSave
<1>3. CASE timer # 0 /\ ~(deferred < Window)
  BY <1>3 DEF scheduleSave
<1> QED  BY <1>1, <1>2, <1>3

\* A save that does not fail leaves nothing unsaved.
LEMMA SaveSaves ==
    ASSUME saveData, ~missed'
    PROVE  storedData' = data'
  BY DEF saveData

\* What leaves the timer alone and either saves or changes no fact.
LEMMA StillInTime ==
    ASSUME SaveInv, UNCHANGED timing,
           saveData \/ UNCHANGED <<running, missed, data, storedData>>
    PROVE  SaveInv'
<1>1. TimerOK'
  BY DEF SaveInv, TimerOK, timing
<1>2. CASE saveData
  BY <1>1, <1>2, SaveSaves DEF SaveInv, UnsavedInTime
<1>3. CASE UNCHANGED <<running, missed, data, storedData>>
  BY <1>1, <1>3 DEF SaveInv, UnsavedInTime, timing
<1> QED  BY <1>2, <1>3

LEMMA SaveInvInit == Init => SaveInv
<1> SUFFICES ASSUME Init  PROVE SaveInv
  OBVIOUS
<1>1. TimerOK
  BY DEF Init, TimerOK
<1>2. ~running
  BY DEF Init
<1> QED  BY <1>1, <1>2 DEF SaveInv, UnsavedInTime

LEMMA SaveInvStep == SaveInv /\ [Next]_vars => SaveInv'
<1> SUFFICES ASSUME SaveInv, [Next]_vars  PROVE SaveInv'
  OBVIOUS
<1>1. ASSUME NEW up \in BOOLEAN, Start(up)  PROVE SaveInv'
  <2>1. TimerOK'
    BY <1>1 DEF Start, SaveInv, TimerOK, timing
  <2>2. CASE up
    BY <1>1, <2>1, <2>2 DEF Start, SaveInv, UnsavedInTime, loadData, database
  <2>3. CASE ~up
    BY <1>1, <2>1, <2>3 DEF Start, SaveInv, UnsavedInTime
  <2> QED  BY <2>2, <2>3
<1>2. CASE Stop \/ Crash
  <2>1. ~running' /\ timer' = 0 /\ deferred' = 0
    BY <1>2 DEF Stop, Crash, Gone
  <2> QED  BY <2>1 DEF SaveInv, UnsavedInTime, TimerOK
<1>3. CASE Tick
  <2>1. TimerOK'
    BY <1>3 DEF Tick, SaveInv, TimerOK
  <2>2. CASE timer = 1
    BY <1>3, <2>1, <2>2, SaveSaves DEF Tick, saveRest, SaveInv, UnsavedInTime
  <2>3. CASE timer # 1
    <3>1. timer' > 0 /\ timer' + deferred' < Window + Interval
      BY <1>3, <2>1, <2>3 DEF Tick, SaveInv, TimerOK
    <3> QED  BY <2>1, <3>1 DEF SaveInv, UnsavedInTime
  <2> QED  BY <2>2, <2>3
<1>4. ASSUME NEW x \in Fact, Change(x)  PROVE SaveInv'
  <2>1. CASE x \in Late
    <3>1. TimerOK' /\ timer' > 0
      BY <1>4, <2>1, ScheduleRuns DEF Change, SaveInv
    <3> QED  BY <3>1 DEF SaveInv, UnsavedInTime, TimerOK
  <2>2. CASE x \notin Late
    BY <1>4, <2>2, StillInTime DEF Change, saveRest
  <2> QED  BY <2>1, <2>2
<1>5. CASE \/ Reach \/ NextDay
           \/ \E m \in Motd \cup {None} : EditIni(m)
           \/ \E m \in Motd, refused \in BOOLEAN : ServerEdit(m, refused)
  BY <1>5, StillInTime DEF Reach, NextDay, EditIni, ServerEdit, memory, timing, database, saveHistory
<1>6. ASSUME NEW u \in Uid,
             \/ \E ip \in Ip : Hello(u, ip)
             \/ Leave(u)
             \/ \E until \in {1, Never} : BanClient(u, until) \/ BanAdd(u, until)
             \/ Unban(u)
      PROVE  SaveInv'
  BY <1>6, StillInTime DEF Hello, saveRest, Leave, BanClient, BanAdd, AddBan, Unban, memory, timing, database, saveHistory
<1>7. CASE UNCHANGED vars
  BY <1>7, StillInTime DEF vars, memory, timing, database, saveHistory
<1> QED  BY <1>1, <1>2, <1>3, <1>4, <1>5, <1>6, <1>7 DEF Next

\* Unless a save failed, what is not in the database yet will be there within
\* the window and one interval: scheduleSave never puts the timer off for longer,
\* and whatever does not go through it saves at once.
THEOREM SavedInTime == Spec => []UnsavedInTime
<1>1. SaveInv => UnsavedInTime
  BY DEF SaveInv
<1> QED  BY <1>1, SaveInvInit, SaveInvStep, PTL DEF Spec

-----------------------------------------------------------------------------
(* What the database holds *)

\* A row that is in the database and no longer in memory was taken out by a request,
\* or is one that no start reads back; the tables of a server that has neither
\* read nor written them are its only exception.
TakenInv == running /\ ~blind => storedData \ data \subseteq taken \cup Unread

\* What each step does to the rows.
TakenStep == TakenInv' /\ (blind \/ storedData \ storedData' \subseteq taken' \cup Unread)

\* A save erases what it is right to erase, once a request's own part in it is counted.
LEMMA TakenSave ==
    ASSUME TakenInv, running, saveData, storedData \ data' \subseteq (storedData \ data) \cup taken',
           taken \ taken' \subseteq data'
    PROVE  TakenStep
<1>1. CASE reachable
  BY <1>1 DEF saveData, TakenInv, TakenStep
<1>2. CASE ~reachable
  BY <1>2 DEF saveData, TakenInv, TakenStep, database
<1> QED  BY <1>1, <1>2

LEMMA TakenQuiet ==
    ASSUME TakenInv, UNCHANGED <<data, storedData, taken, blind>>, running' => running
    PROVE  TakenStep
  BY DEF TakenInv, TakenStep

LEMMA TakenNext ==
    ASSUME TakenInv, [Next]_vars
    PROVE  TakenStep
<1>1. ASSUME NEW up \in BOOLEAN, Start(up)  PROVE TakenStep
  BY <1>1 DEF Start, loadData, database, TakenInv, TakenStep
<1>2. CASE Stop
  <2>1. running /\ taken' = taken /\ data' = data /\ saveData
    BY <1>2 DEF Stop, Gone, saveRest, memory
  <2> QED  BY <2>1, TakenSave
<1>3. CASE Crash
  BY <1>3, TakenQuiet DEF Crash, Gone, memory, database, saveHistory
<1>4. CASE Tick
  <2>1. running /\ taken' = taken /\ data' = data
    BY <1>4 DEF Tick, memory
  <2>2. CASE timer = 1
    BY <1>4, <2>1, <2>2, TakenSave DEF Tick, saveRest
  <2>3. CASE timer # 1
    BY <1>4, <2>1, <2>3, TakenQuiet DEF Tick, database, saveHistory
  <2> QED  BY <2>2, <2>3
<1>5. ASSUME NEW x \in Fact, Change(x)  PROVE TakenStep
  <2>1. running /\ running' = running
    BY <1>5 DEF Change
  <2>2. storedData \ data' \subseteq (storedData \ data) \cup taken' /\ taken \ taken' \subseteq data'
    BY <1>5 DEF Change
  <2>3. CASE x \in Late
    BY <1>5, <2>1, <2>2, <2>3 DEF Change, database, saveHistory, TakenInv, TakenStep
  <2>4. CASE x \notin Late
    BY <1>5, <2>1, <2>2, <2>4, TakenSave DEF Change, saveRest
  <2> QED  BY <2>3, <2>4
<1>6. ASSUME NEW m \in Motd, NEW refused \in BOOLEAN, ServerEdit(m, refused)  PROVE TakenStep
  <2>1. running /\ running' = running /\ taken' = taken /\ data' = data
    BY <1>6 DEF ServerEdit
  <2>2. CASE refused
    BY <1>6, <2>1, <2>2, TakenQuiet DEF ServerEdit, database, saveHistory
  <2>3. CASE ~refused
    BY <1>6, <2>1, <2>3, TakenSave DEF ServerEdit
  <2> QED  BY <2>2, <2>3
<1>7. CASE Reach \/ NextDay \/ \E m \in Motd \cup {None} : EditIni(m)
  BY <1>7, TakenQuiet DEF Reach, NextDay, EditIni, memory, database, saveHistory
<1>8. ASSUME NEW u \in Uid, NEW ip \in Ip, Hello(u, ip)  PROVE TakenStep
  <2>1. running /\ taken' = taken /\ data' = data /\ saveData
    BY <1>8 DEF Hello, saveRest, memory
  <2> QED  BY <2>1, TakenSave
<1>9. ASSUME NEW u \in Uid,
             \/ Leave(u)
             \/ \E until \in {1, Never} : BanClient(u, until) \/ BanAdd(u, until)
             \/ Unban(u)
      PROVE  TakenStep
  BY <1>9, TakenQuiet DEF Leave, BanClient, BanAdd, AddBan, Unban, memory, database, saveHistory
<1>10. CASE UNCHANGED vars
  BY <1>10, TakenQuiet DEF vars, memory, database, saveHistory
<1> QED  BY <1>1, <1>2, <1>3, <1>4, <1>5, <1>6, <1>7, <1>8, <1>9, <1>10 DEF Next

\* saveData rewrites every table, and yet a row leaves the database only if a
\* request took it out of memory since the start, or no start reads it back,
\* whatever crashes, failed saves and outages there are; only the first save
\* after a start that could not read the tables takes out more.
THEOREM RowsAreKept == Spec => RowsGoOnRequest
<1>1. Init => TakenInv
  BY DEF Init, TakenInv
<1>2. TakenInv /\ [Next]_vars => TakenInv'
  BY TakenNext DEF TakenStep
<1>3. TakenInv /\ [Next]_vars => [blind \/ storedData \ storedData' \subseteq taken' \cup Unread]_vars
  BY TakenNext DEF TakenStep
<1> QED  BY <1>1, <1>2, <1>3, PTL DEF Spec, RowsGoOnRequest

-----------------------------------------------------------------------------
(* The message of the day *)

Configured == IF ini = None THEN Empty ELSE ini

\* An edit that counts is in the database and, while a server runs that has read
\* or written it, in memory; and the database knows the configuration that it was
\* made under.
EditInv ==
    edited # None =>
        /\ edited # Empty /\ ini # Empty
        /\ storedMotd = edited /\ snapshot = Configured
        /\ running /\ ~blind => motd = edited

\* What was edited is what the next start takes.
LEMMA EditResolved ==
    ASSUME EditInv, edited # None
    PROVE  resolveConfiguredSetting(ini, storedMotd, snapshot) = edited
<1>1. CASE ini = None
  BY <1>1 DEF EditInv, resolveConfiguredSetting
<1>2. CASE ini # None
  BY <1>2 DEF EditInv, Configured, resolveConfiguredSetting
<1> QED  BY <1>1, <1>2

\* Saving what is in memory, under the same configuration, keeps the edit, or
\* the edit no longer counts.
LEMMA EditSave ==
    ASSUME EditInv, running, saveRest, UNCHANGED <<ini, motd>>
    PROVE  EditInv'
<1>1. CASE reachable /\ blind
  BY <1>1 DEF saveRest, EditInv
<1>2. CASE reachable /\ ~blind
  BY <1>2 DEF saveRest, saveData, EditInv, Configured
<1>3. CASE ~reachable
  BY <1>3 DEF saveRest, saveData, EditInv, Configured, database
<1> QED  BY <1>1, <1>2, <1>3

LEMMA EditQuiet ==
    ASSUME EditInv, UNCHANGED <<edited, ini, motd, storedMotd, snapshot, blind>>, running' => running
    PROVE  EditInv'
  BY DEF EditInv, Configured

\* A start is the only step that reads the configuration.
LEMMA EditStart ==
    ASSUME EditInv, NEW up \in BOOLEAN, Start(up)
    PROVE  EditInv' /\ (reachable' /\ edited # None => motd' = edited)
<1>1. UNCHANGED <<edited, ini, storedMotd, snapshot>> /\ blind' = ~up /\ reachable' = up
  BY DEF Start, database
<1>2. CASE up
  <2>1. motd' = resolveConfiguredSetting(ini, storedMotd, snapshot)
    BY <1>2 DEF Start, loadData
  <2> QED  BY <1>1, <2>1, EditResolved DEF EditInv, Configured
<1>3. CASE ~up
  BY <1>1, <1>3 DEF EditInv, Configured
<1> QED  BY <1>2, <1>3

LEMMA EditNext ==
    ASSUME EditInv, [Next]_vars
    PROVE  EditInv' /\ (~running /\ running' /\ reachable' /\ edited # None => motd' = edited)
<1>1. ASSUME NEW up \in BOOLEAN, Start(up)
      PROVE  EditInv' /\ (reachable' /\ edited # None => motd' = edited)
  BY <1>1, EditStart
<1>2. CASE Stop
  <2>1. running /\ ~running' /\ UNCHANGED <<ini, motd>> /\ saveRest
    BY <1>2 DEF Stop, Gone, memory
  <2> QED  BY <2>1, EditSave
<1>3. CASE Crash
  <2>1. ~running' /\ UNCHANGED <<edited, ini, motd, storedMotd, snapshot, blind>>
    BY <1>3 DEF Crash, Gone, memory, database, saveHistory
  <2> QED  BY <2>1, EditQuiet
<1>4. CASE Tick
  <2>1. running /\ running' = running /\ UNCHANGED <<ini, motd>>
    BY <1>4 DEF Tick, memory
  <2>2. CASE timer = 1
    BY <1>4, <2>1, <2>2, EditSave DEF Tick
  <2>3. CASE timer # 1
    BY <1>4, <2>1, <2>3, EditQuiet DEF Tick, database, saveHistory
  <2> QED  BY <2>1, <2>2, <2>3
<1>5. ASSUME NEW x \in Fact, Change(x)  PROVE EditInv' /\ running
  <2>1. running /\ running' = running /\ UNCHANGED <<ini, motd>>
    BY <1>5 DEF Change
  <2>2. CASE x \in Late
    BY <1>5, <2>1, <2>2, EditQuiet DEF Change, database, saveHistory
  <2>3. CASE x \notin Late
    BY <1>5, <2>1, <2>3, EditSave DEF Change
  <2> QED  BY <2>1, <2>2, <2>3
<1>6. ASSUME NEW m \in Motd, NEW refused \in BOOLEAN, ServerEdit(m, refused)
      PROVE  EditInv' /\ running
  <2>1. running /\ motd' = m /\ ini' = ini
    BY <1>6 DEF ServerEdit
  <2>2. ASSUME edited' # None
        PROVE  /\ edited' = m /\ m # Empty /\ ini # Empty
               /\ storedMotd' = motd' /\ snapshot' = Configured
    BY <1>6, <2>2 DEF ServerEdit, saveData, Configured
  <2> QED  BY <2>1, <2>2 DEF EditInv, Configured
<1>7. ASSUME NEW m \in Motd \cup {None}, EditIni(m)  PROVE EditInv' /\ ~running'
  <2>1. ~running /\ running' = running /\ UNCHANGED <<motd, storedMotd, snapshot>>
    BY <1>7 DEF EditIni, memory, database
  <2>2. edited' # None => edited' = edited /\ ini' = ini
    BY <1>7 DEF EditIni
  <2> QED  BY <2>1, <2>2 DEF EditInv, Configured
<1>8. CASE Reach \/ NextDay
  BY <1>8, EditQuiet DEF Reach, NextDay, memory, database, saveHistory
<1>9. ASSUME NEW u \in Uid, NEW ip \in Ip, Hello(u, ip)  PROVE EditInv' /\ running
  BY <1>9, EditSave DEF Hello, memory
<1>10. ASSUME NEW u \in Uid,
              \/ Leave(u)
              \/ \E until \in {1, Never} : BanClient(u, until) \/ BanAdd(u, until)
              \/ Unban(u)
       PROVE  EditInv' /\ running' = running
  <2>1. running' = running /\ UNCHANGED <<edited, ini, motd, storedMotd, snapshot, blind>>
    BY <1>10 DEF Leave, BanClient, BanAdd, AddBan, Unban, memory, database, saveHistory
  <2> QED  BY <2>1, EditQuiet
<1>11. CASE UNCHANGED vars
  BY <1>11, EditQuiet DEF vars, memory, database, saveHistory
<1>12. Stop \/ Crash \/ Reach \/ Tick \/ NextDay => running \/ running' = running
  BY DEF Stop, Crash, Reach, Tick, NextDay
<1>13. UNCHANGED vars => running' = running
  BY DEF vars
<1> QED  BY <1>1, <1>2, <1>3, <1>4, <1>5, <1>6, <1>7, <1>8, <1>9, <1>10, <1>11, <1>12, <1>13 DEF Next

\* PROTOCOL.md: an administrator's edit that was saved is what the server says
\* after any restart or crash that finds the database, until the operator edits
\* the configuration or a server that had not found it saves its own message.
THEOREM EditsAreKept == Spec => MotdKept
<1>1. Init => EditInv
  BY DEF Init, EditInv
<1>2. EditInv /\ [Next]_vars => EditInv'
  BY EditNext
<1>3. EditInv /\ [Next]_vars => [~running /\ running' /\ reachable' /\ edited # None => motd' = edited]_vars
  BY EditNext
<1> QED  BY <1>1, <1>2, <1>3, PTL DEF Spec, MotdKept

-----------------------------------------------------------------------------
(* Bans *)

\* No two rows with the same identity and address, an address being known.
KeyOnce(rows) == \A b, c \in rows : b.uid = c.uid /\ b.ip = c.ip /\ b.ip # None => b = c

\* Some entry bans u for good.
Stands(rows, u) == \E b \in rows : b.uid = u /\ b.until = Never

\* What is kept of the bans: whoever is banned for good, with no doubt about
\* it, has an entry in the table and, while a server runs that has read or written
\* the table, one in memory that the next save will write.
BanInv ==
    /\ day \in 0..MaxDay
    /\ bans \in Seq(Ban)
    /\ storedBans \in SUBSET Ban /\ IsFiniteSet(storedBans) /\ KeyOnce(storedBans)
    /\ barred \in SUBSET Uid /\ unsure \in SUBSET Uid
    /\ \A u \in barred \ unsure : Stands(storedBans, u) /\ (running /\ ~blindToBans => Stands(Rows(bans), u))

LEMMA RowsAre ==
    ASSUME NEW list \in Seq(Ban)
    PROVE  Rows(list) \in SUBSET Ban /\ IsFiniteSet(Rows(list)) /\ KeyOnce(Rows(list))
<1> DEFINE First == {k \in DOMAIN list : \A j \in 1..k - 1 :
                        list[j].uid = list[k].uid => list[j].ip # list[k].ip \/ list[k].ip = None}
<1>1. Rows(list) = {list[i] : i \in First}
  BY DEF Rows
<1>2. First \in SUBSET (1..Len(list))
  OBVIOUS
<1>3. IsFiniteSet(First)
  <2>1. 1 \in Int /\ Len(list) \in Int
    OBVIOUS
  <2>2. IsFiniteSet(1..Len(list))
    BY <2>1, FS_Interval
  <2>3. QED
    BY <1>2, <2>2, FS_Subset
<1>4. [i \in First |-> list[i]] \in Surjection(First, Rows(list))
  BY <1>1 DEF Surjection
<1>5. IsFiniteSet(Rows(list))
  BY <1>3, <1>4, FS_Surjection
<1>6. ASSUME NEW i \in First, NEW k \in First, i < k, list[i].uid = list[k].uid,
             list[i].ip = list[k].ip, list[i].ip # None
      PROVE  FALSE
  <2>1. i \in 1..k - 1
    BY <1>2, <1>6
  <2>2. QED
    BY <1>6, <2>1
<1>7. \A i, k \in First : i = k \/ i < k \/ k < i
  BY <1>2
<1>8. KeyOnce(Rows(list))
  BY <1>1, <1>6, <1>7 DEF KeyOnce
<1>9. Rows(list) \in SUBSET Ban
  BY <1>1, <1>2
<1>10. QED
  BY <1>5, <1>8, <1>9

\* An entry that is appended takes the place of none, and gets in if there is no
\* other with its identity and address.
LEMMA RowsAppend ==
    ASSUME NEW list \in Seq(Ban), NEW b \in Ban
    PROVE  /\ Append(list, b) \in Seq(Ban)
           /\ Rows(list) \subseteq Rows(Append(list, b))
           /\ (b.ip = None \/ ~\E i \in DOMAIN list : list[i].uid = b.uid /\ list[i].ip = b.ip)
              => b \in Rows(Append(list, b))
<1> DEFINE longer == Append(list, b)
           n == Len(list)
<1>1. /\ longer \in Seq(Ban) /\ n \in Nat /\ DOMAIN list = 1..n /\ DOMAIN longer = 1..n + 1
      /\ longer[n + 1] = b /\ \A i \in 1..n : longer[i] = list[i]
  OBVIOUS
<1> HIDE DEF longer, n
<1>2. ASSUME NEW k \in 1..n,
             \A j \in 1..k - 1 : list[j].uid = list[k].uid => list[j].ip # list[k].ip \/ list[k].ip = None
      PROVE  list[k] \in Rows(longer)
  <2>1. k \in DOMAIN longer /\ longer[k] = list[k] /\ \A j \in 1..k - 1 : longer[j] = list[j]
    BY <1>1
  <2>2. QED
    BY <1>2, <2>1 DEF Rows
<1>3. Rows(list) \subseteq Rows(longer)
  BY <1>1, <1>2 DEF Rows
<1>4. ASSUME b.ip = None \/ ~\E i \in DOMAIN list : list[i].uid = b.uid /\ list[i].ip = b.ip
      PROVE  b \in Rows(longer)
  <2>1. n + 1 \in DOMAIN longer /\ \A j \in 1..(n + 1) - 1 : j \in DOMAIN list /\ longer[j] = list[j]
    BY <1>1
  <2>2. \A j \in 1..(n + 1) - 1 :
           longer[j].uid = longer[n + 1].uid => longer[j].ip # longer[n + 1].ip \/ longer[n + 1].ip = None
    BY <1>1, <1>4, <2>1
  <2>3. QED
    BY <1>1, <2>1, <2>2 DEF Rows
<1>5. QED
  BY <1>1, <1>3, <1>4 DEF longer

LEMMA LeastIs ==
    ASSUME NEW S \in SUBSET Nat, S # {}
    PROVE  \E n \in S : \A m \in S : n <= m
<1> DEFINE less == OpToRel(<, Nat)
<1>1. \A i, j \in Nat : i < j => <<i, j>> \in less
  BY DEF OpToRel
<1>2. IsWellFoundedOn(less, Nat)
  BY NatLessThanWellFounded
<1> HIDE DEF less
<1>3. PICK n \in S : \A m \in S : ~ (<<m, n>> \in less)
  BY <1>2, WFMin
<1>4. \A m \in S : ~ (m < n) /\ m \in Nat /\ n \in Nat
  BY <1>1, <1>3
<1>5. QED
  BY <1>4

\* What is loaded would be saved as it was, in whatever order it came.
LEMMA RowsLoaded ==
    ASSUME NEW rows \in SUBSET Ban, IsFiniteSet(rows), KeyOnce(rows), NEW list \in Lists(rows)
    PROVE  list \in Seq(Ban) /\ rows \subseteq Rows(list)
<1> DEFINE n == Cardinality(rows)
<1>1. n \in Nat
  BY FS_CardinalityType
<1>2. list \in [1..n -> rows] /\ {list[i] : i \in DOMAIN list} = rows
  BY DEF Lists
<1> HIDE DEF n
<1>3. list \in Seq(Ban)
  BY <1>1, <1>2
<1>4. ASSUME NEW b \in rows PROVE b \in Rows(list)
  <2> DEFINE At == {i \in 1..n : list[i] = b}
  <2>1. At # {} /\ At \subseteq Nat
    BY <1>1, <1>2
  <2>2. PICK k \in At : \A j \in At : k <= j
    BY <2>1, LeastIs
  <2>3. \A j \in 1..k - 1 : list[j] \in rows /\ list[j] # b
    BY <1>1, <1>2, <2>2
  <2>4. QED
    BY <1>2, <2>2, <2>3 DEF KeyOnce, Rows
<1>5. QED
  BY <1>3, <1>4

\* Taking out the entries of u spoils none of the others.
LEMMA RowsWithout ==
    ASSUME bans \in Seq(Ban), NEW u \in Uid, NEW list \in Without(u)
    PROVE  /\ list \in Seq(Ban)
           /\ \A b \in Rows(bans) : b.uid # u => b \in Rows(list)
<1> DEFINE left == {i \in DOMAIN bans : bans[i].uid # u}
           n == Cardinality(left)
<1>1. n \in Nat
  <2>1. 1 \in Int /\ Len(bans) \in Int /\ left \in SUBSET (1..Len(bans))
    OBVIOUS
  <2>2. IsFiniteSet(left)
    BY <2>1, FS_Interval, FS_Subset
  <2>3. QED
    BY <2>2, FS_CardinalityType
<1>2. PICK at \in [1..n -> left] : /\ {at[k] : k \in DOMAIN at} = left
                                   /\ \A j, k \in DOMAIN at : j < k => at[j] < at[k]
                                   /\ list = [k \in DOMAIN at |-> bans[at[k]]]
  BY DEF Without
<1> HIDE DEF n
<1>3. DOMAIN at = 1..n /\ DOMAIN list = 1..n /\ \A k \in 1..n : at[k] \in left /\ list[k] = bans[at[k]]
  BY <1>2
<1>4. list \in Seq(Ban)
  <2>1. \A k \in 1..n : list[k] \in Ban
    BY <1>3
  <2>2. list \in [1..n -> Ban]
    BY <1>2, <2>1
  <2>3. QED
    BY <1>1, <2>2
<1>5. ASSUME NEW i \in DOMAIN bans, bans[i].uid # u,
             \A j \in 1..i - 1 : bans[j].uid = bans[i].uid => bans[j].ip # bans[i].ip \/ bans[i].ip = None
      PROVE  bans[i] \in Rows(list)
  <2>1. PICK k \in 1..n : at[k] = i
    BY <1>2, <1>3, <1>5
  <2>2. ASSUME NEW j \in 1..k - 1 PROVE j \in 1..n /\ at[j] \in 1..i - 1
    <3>1. j \in 1..n /\ j < k
      BY <1>1
    <3>2. at[j] < i /\ at[j] \in left
      BY <1>2, <1>3, <2>1, <3>1
    <3>3. QED
      BY <1>5, <3>1, <3>2
  <2>3. \A j \in 1..k - 1 :
           list[j].uid = list[k].uid => list[j].ip # list[k].ip \/ list[k].ip = None
    BY <1>3, <1>5, <2>1, <2>2
  <2>4. QED
    BY <1>3, <2>1, <2>3 DEF Rows
<1>6. QED
  BY <1>4, <1>5 DEF Rows

LEMMA BanInit == Init => BanInv
<1> SUFFICES ASSUME Init PROVE BanInv
  OBVIOUS
<1>1. IsFiniteSet({})
  BY FS_EmptySet
<1>2. QED
  BY <1>1, PersistenceAssumption DEF Init, BanInv, KeyOnce

\* The list changes, and is saved or not; those who were banned for good and are
\* so still keep their entry, and who is added gets one.
LEMMA BanSaved ==
    ASSUME BanInv, saveBans, bans' \in Seq(Ban), running' => running, day' = day,
           barred' \in SUBSET Uid, unsure' \in SUBSET Uid,
           \A u \in barred' \ unsure' :
               /\ reachable \/ ~blindToBans => Stands(Rows(bans'), u)
               /\ ~reachable => u \in barred \ unsure
    PROVE  BanInv'
<1>1. CASE reachable
  <2>1. storedBans' = Rows(bans')
    BY <1>1 DEF saveBans
  <2>2. /\ storedBans' \in SUBSET Ban /\ IsFiniteSet(storedBans') /\ KeyOnce(storedBans')
    BY <2>1, RowsAre
  <2>3. \A u \in barred' \ unsure' : Stands(storedBans', u) /\ Stands(Rows(bans'), u)
    BY <1>1, <2>1
  <2>4. QED
    BY <2>2, <2>3 DEF BanInv
<1>2. CASE ~reachable
  BY <1>2 DEF saveBans, BanInv
<1>3. QED
  BY <1>1, <1>2

LEMMA BanQuiet ==
    ASSUME BanInv, UNCHANGED <<bans, storedBans, banHistory>>, day' \in 0..MaxDay, running' => running
    PROVE  BanInv'
  BY DEF BanInv, banHistory

LEMMA BanStart ==
    ASSUME BanInv, NEW up \in BOOLEAN, Start(up)
    PROVE  BanInv'
<1>1. UNCHANGED <<storedBans, day, barred, unsure>> /\ blindToBans' = ~up
  BY DEF Start
<1>2. CASE up
  <2>1. bans' \in Lists(storedBans)
    BY <1>2 DEF Start, loadBans
  <2>2. bans' \in Seq(Ban) /\ storedBans \subseteq Rows(bans')
    BY <2>1, RowsLoaded DEF BanInv
  <2>3. QED
    BY <1>1, <2>2 DEF BanInv, Stands
<1>3. CASE ~up
  <2>1. bans' \in Seq(Ban)
    BY <1>3 DEF Start
  <2>2. QED
    BY <1>1, <1>3, <2>1 DEF BanInv
<1>4. QED
  BY <1>2, <1>3

LEMMA BanAdded ==
    ASSUME BanInv, NEW u \in Uid, NEW ip \in Ip \cup {None}, NEW until \in {1, Never},
           AddBan(u, ip, until)
    PROVE  BanInv'
<1> DEFINE b == [uid |-> u, ip |-> ip, until |-> until]
<1>1. b \in Ban
  BY DEF Ban
<1>2. bans' = Append(bans, b) /\ saveBans /\ running /\ running' = running /\ day' = day
  BY DEF AddBan
<1>3. /\ bans' \in Seq(Ban) /\ Rows(bans) \subseteq Rows(bans')
      /\ (b.ip = None \/ ~\E i \in DOMAIN bans : bans[i].uid = b.uid /\ bans[i].ip = b.ip)
         => b \in Rows(bans')
  BY <1>1, <1>2, RowsAppend DEF BanInv
<1>4. barred' \in SUBSET Uid /\ unsure' \in SUBSET Uid /\ unsure \cup Doubtful \subseteq unsure'
  BY DEF AddBan, Doubtful, BanInv
<1>5. ASSUME NEW v \in barred' \ unsure'
      PROVE  /\ reachable \/ ~blindToBans => Stands(Rows(bans'), v)
             /\ ~reachable => v \in barred \ unsure
  <2>1. CASE v \in barred
    <3>1. v \in barred \ unsure /\ ~(reachable /\ blindToBans)
      BY <1>4, <1>5, <2>1 DEF Doubtful
    <3>2. QED
      BY <1>2, <1>3, <3>1 DEF BanInv, Stands
  <2>2. CASE v \notin barred
    <3>1. v = u /\ until = Never
      BY <1>5, <2>2 DEF AddBan
    <3>2. reachable /\ ~(ip # None /\ \E i \in DOMAIN bans : bans[i].uid = u /\ bans[i].ip = ip)
      BY <1>5, <3>1 DEF AddBan
    <3>3. b \in Rows(bans')
      BY <1>3, <3>2
    <3>4. QED
      BY <3>1, <3>2, <3>3 DEF Stands
  <2>3. QED
    BY <2>1, <2>2
<1>6. QED
  BY <1>2, <1>3, <1>4, <1>5, BanSaved

LEMMA BanLifted ==
    ASSUME BanInv, NEW u \in Uid, Unban(u)
    PROVE  BanInv'
<1>1. /\ bans' \in Without(u) /\ saveBans /\ running /\ running' = running /\ day' = day
      /\ barred' = barred \ {u} /\ unsure' \subseteq unsure \cup Doubtful
      /\ unsure \cup Doubtful \subseteq unsure' \cup {u}
  BY DEF Unban, Doubtful
<1>2. /\ bans' \in Seq(Ban)
      /\ \A b \in Rows(bans) : b.uid # u => b \in Rows(bans')
  BY <1>1, RowsWithout DEF BanInv
<1>3. ASSUME NEW v \in barred' \ unsure'
      PROVE  v \in barred \ unsure /\ (reachable \/ ~blindToBans => Stands(Rows(bans'), v))
  <2>1. v # u /\ v \in barred \ unsure /\ ~(reachable /\ blindToBans)
    BY <1>1, <1>3 DEF Doubtful
  <2>2. QED
    BY <1>1, <1>2, <2>1 DEF BanInv, Stands
<1>4. barred' \in SUBSET Uid /\ unsure' \in SUBSET Uid
  BY <1>1 DEF Doubtful, BanInv
<1>5. QED
  BY <1>1, <1>2, <1>3, <1>4, BanSaved

LEMMA BanNext ==
    ASSUME BanInv, address \in [Uid -> Ip \cup {None}], [Next]_vars
    PROVE  BanInv'
<1>1. ASSUME NEW up \in BOOLEAN, Start(up) PROVE BanInv'
  BY <1>1, BanStart
<1>2. CASE Stop
  <2>1. /\ saveBans /\ running /\ ~running' /\ UNCHANGED <<bans, day, barred>>
        /\ unsure' = unsure \cup Doubtful
    BY <1>2 DEF Stop, Gone, memory
  <2>2. bans' \in Seq(Ban) /\ Rows(bans') = Rows(bans)
    BY <2>1 DEF BanInv
  <2>3. \A u \in barred' \ unsure' : u \in barred \ unsure /\ ~(reachable /\ blindToBans)
    BY <2>1 DEF Doubtful
  <2>4. barred' \in SUBSET Uid /\ unsure' \in SUBSET Uid
    BY <2>1 DEF Doubtful, BanInv
  <2>5. \A u \in barred' \ unsure' : reachable \/ ~blindToBans => Stands(Rows(bans'), u)
    BY <2>1, <2>2, <2>3 DEF BanInv
  <2>6. QED
    BY <2>1, <2>2, <2>3, <2>4, <2>5, BanSaved
<1>3. CASE Crash
  BY <1>3, BanQuiet DEF Crash, Gone, memory, banHistory, BanInv
<1>4. CASE NextDay
  <2>1. day' \in 0..MaxDay
    BY <1>4, PersistenceAssumption DEF NextDay, BanInv
  <2>2. QED
    BY <1>4, <2>1, BanQuiet DEF NextDay, memory
<1>5. CASE Reach \/ Tick
  BY <1>5, BanQuiet DEF Reach, Tick, memory, BanInv
<1>6. ASSUME NEW m \in Motd \cup {None}, EditIni(m) PROVE BanInv'
  BY <1>6, BanQuiet DEF EditIni, memory, BanInv
<1>7. ASSUME NEW m \in Motd, NEW refused \in BOOLEAN, ServerEdit(m, refused) PROVE BanInv'
  BY <1>7, BanQuiet DEF ServerEdit, BanInv
<1>8. ASSUME NEW x \in Fact, Change(x) PROVE BanInv'
  BY <1>8, BanQuiet DEF Change, BanInv
<1>9. ASSUME NEW u \in Uid, (\E ip \in Ip : Hello(u, ip)) \/ Leave(u) PROVE BanInv'
  BY <1>9, BanQuiet DEF Hello, Leave, memory, BanInv
<1>10. ASSUME NEW u \in Uid, NEW until \in {1, Never}, BanAdd(u, until) PROVE BanInv'
  BY <1>10, BanAdded DEF BanAdd
<1>11. ASSUME NEW u \in Uid, NEW until \in {1, Never}, BanClient(u, until) PROVE BanInv'
  <2>1. PICK ip \in Ip \cup {None} : ip = address[u]
    OBVIOUS
  <2>2. AddBan(u, ip, until)
    BY <1>11, <2>1 DEF BanClient, AddBan
  <2>3. QED
    BY <2>2, BanAdded
<1>12. ASSUME NEW u \in Uid, Unban(u) PROVE BanInv'
  BY <1>12, BanLifted
<1>13. CASE UNCHANGED vars
  BY <1>13, BanQuiet DEF vars, memory, BanInv
<1>14. ASSUME NEW u \in Uid,
              \/ \E ip \in Ip : Hello(u, ip)
              \/ Leave(u)
              \/ \E until \in {1, Never} : BanClient(u, until) \/ BanAdd(u, until)
              \/ Unban(u)
       PROVE  BanInv'
  BY <1>9, <1>10, <1>11, <1>12, <1>14
<1>15. QED
  BY <1>1, <1>2, <1>3, <1>4, <1>5, <1>6, <1>7, <1>8, <1>13, <1>14 DEF Next

-----------------------------------------------------------------------------
(* Types *)

RestOK ==
    /\ running \in BOOLEAN /\ reachable \in BOOLEAN
    /\ missed \in BOOLEAN /\ blind \in BOOLEAN
    /\ data \in SUBSET Fact /\ storedData \in SUBSET Fact /\ taken \in SUBSET Fact
    /\ motd \in Motd /\ storedMotd \in Motd /\ snapshot \in Motd
    /\ ini \in Motd \cup {None} /\ edited \in Motd \cup {None}
    /\ timer \in 0..Interval
    /\ address \in [Uid -> Ip \cup {None}]

LEMMA RestInit == Init => RestOK
<1>1. Nobody \in [Uid -> Ip \cup {None}] /\ 0 \in 0..Interval
  BY PersistenceAssumption DEF Nobody
<1>2. QED
  BY <1>1, PersistenceAssumption DEF Init, RestOK

\* What a save writes, and remembers of it.
Written ==
    /\ missed \in BOOLEAN /\ blind \in BOOLEAN
    /\ storedData \in SUBSET Fact
    /\ storedMotd \in Motd /\ snapshot \in Motd
    /\ edited \in Motd \cup {None}

LEMMA RestSave ==
    ASSUME RestOK, saveData, data' \in SUBSET Fact, motd' \in Motd, edited' \in Motd \cup {None}
    PROVE  Written'
<1>1. CASE reachable
  BY <1>1, PersistenceAssumption DEF RestOK, saveData, Written
<1>2. CASE ~reachable
  BY <1>2 DEF RestOK, saveData, database, Written
<1>3. QED
  BY <1>1, <1>2 DEF RestOK

LEMMA RestSaveRest ==
    ASSUME RestOK, saveRest, data' \in SUBSET Fact, motd' \in Motd
    PROVE  Written'
<1>1. edited' \in Motd \cup {None}
  BY DEF RestOK, saveRest
<1>2. QED
  BY <1>1, RestSave DEF saveRest

\* What resolveConfiguredSetting returns is one of the messages it is given, or
\* the default one.
LEMMA ResolvedIs ==
    ASSUME NEW c \in Motd \cup {None}, NEW p \in Motd, NEW s \in Motd
    PROVE  resolveConfiguredSetting(c, p, s) \in Motd
<1> USE PersistenceAssumption
<1>1. CASE c = None
  BY <1>1 DEF resolveConfiguredSetting
<1>2. CASE c # None /\ s # Empty
  <2>1. resolveConfiguredSetting(c, p, s) = IF c # s \/ p = Empty THEN c ELSE p
    BY <1>2 DEF resolveConfiguredSetting
  <2>2. QED
    BY <1>2, <2>1
<1>3. CASE c # None /\ s = Empty
  <2>1. resolveConfiguredSetting(c, p, s) = IF p = Empty \/ c # Default THEN c ELSE p
    BY <1>3 DEF resolveConfiguredSetting
  <2>2. QED
    BY <1>3, <2>1
<1>4. QED
  BY <1>1, <1>2, <1>3

LEMMA RestNext == RestOK /\ [Next]_vars => RestOK'
<1> SUFFICES ASSUME RestOK, [Next]_vars PROVE RestOK'
  OBVIOUS
<1>1. ASSUME NEW up \in BOOLEAN, Start(up) PROVE RestOK'
  <2>1. data' \in SUBSET Fact /\ motd' \in Motd
    <3>1. CASE up
      BY <1>1, <3>1, ResolvedIs DEF Start, loadData, RestOK
    <3>2. CASE ~up
      BY <1>1, <3>2, PersistenceAssumption DEF Start, RestOK
    <3>3. QED
      BY <3>1, <3>2
  <2>2. QED
    BY <1>1, <2>1 DEF Start, RestOK, timing, database
<1>2. CASE Stop \/ Crash
  <2>1. /\ running' = FALSE /\ timer' = 0 /\ address' = Nobody
        /\ UNCHANGED <<reachable, data, motd, ini, taken>>
    BY <1>2 DEF Stop, Crash, Gone, memory
  <2>2. Written'
    BY <1>2, <2>1, RestSaveRest DEF Stop, Crash, database, saveHistory, RestOK, Written
  <2>3. Nobody \in [Uid -> Ip \cup {None}] /\ 0 \in 0..Interval
    BY PersistenceAssumption DEF Nobody
  <2>4. QED
    BY <2>1, <2>2, <2>3 DEF RestOK, Written
<1>3. CASE Reach \/ NextDay
  BY <1>3 DEF Reach, NextDay, memory, timing, database, saveHistory, RestOK
<1>4. CASE Tick
  <2>1. /\ timer' = timer - 1 /\ timer > 0
        /\ UNCHANGED <<running, reachable, data, motd, address, ini, taken>>
    BY <1>4 DEF Tick, memory
  <2>2. Written'
    BY <1>4, <2>1, RestSaveRest DEF Tick, database, saveHistory, RestOK, Written
  <2>3. timer' \in 0..Interval
    BY <2>1, PersistenceAssumption DEF RestOK
  <2>4. QED
    BY <2>1, <2>2, <2>3 DEF RestOK, Written
<1>5. ASSUME NEW m \in Motd \cup {None}, EditIni(m) PROVE RestOK'
  BY <1>5 DEF EditIni, memory, timing, database, saveHistory, RestOK
<1>6. ASSUME NEW m \in Motd, NEW refused \in BOOLEAN, ServerEdit(m, refused) PROVE RestOK'
  <2>1. motd' = m /\ UNCHANGED <<running, reachable, data, timer, address, ini, taken>>
    BY <1>6 DEF ServerEdit, timing
  <2>2. edited' \in Motd \cup {None}
    BY <1>6 DEF ServerEdit
  <2>3. Written'
    BY <1>6, <2>1, <2>2, RestSave DEF ServerEdit, database, saveHistory, RestOK, Written
  <2>4. QED
    BY <2>1, <2>2, <2>3 DEF RestOK, Written
<1>7. ASSUME NEW x \in Fact, Change(x) PROVE RestOK'
  <2>1. /\ data' \in SUBSET Fact /\ taken' \in SUBSET Fact
        /\ UNCHANGED <<motd, running, reachable, address, ini>>
    BY <1>7 DEF Change, RestOK
  <2>2. Written'
    BY <1>7, <2>1, RestSaveRest DEF Change, database, saveHistory, RestOK, Written
  <2>3. timer' \in 0..Interval
    BY <1>7, PersistenceAssumption DEF Change, scheduleSave, timing, RestOK
  <2>4. QED
    BY <2>1, <2>2, <2>3 DEF RestOK, Written
<1>8. ASSUME NEW u \in Uid, NEW ip \in Ip, Hello(u, ip) PROVE RestOK'
  <2>1. /\ address' = [address EXCEPT ![u] = ip]
        /\ UNCHANGED <<running, reachable, data, motd, timer, ini, taken>>
    BY <1>8 DEF Hello, memory, timing
  <2>2. Written'
    BY <1>8, <2>1, RestSaveRest DEF Hello, RestOK
  <2>3. QED
    BY <2>1, <2>2 DEF RestOK, Written
<1>9. ASSUME NEW u \in Uid,
             \/ Leave(u)
             \/ \E until \in {1, Never} : BanClient(u, until) \/ BanAdd(u, until)
             \/ Unban(u)
      PROVE  RestOK'
  <2>1. /\ address' = [address EXCEPT ![u] = None] \/ address' = address
        /\ UNCHANGED <<running, reachable, data, motd, timer, ini, taken, edited, saveHistory, database>>
    BY <1>9 DEF Leave, BanClient, BanAdd, AddBan, Unban, memory, timing
  <2>2. QED
    BY <2>1 DEF RestOK, database, saveHistory
<1>10. CASE UNCHANGED vars
  BY <1>10 DEF vars, memory, timing, database, saveHistory, RestOK
<1>11. QED
  BY <1>1, <1>2, <1>3, <1>4, <1>5, <1>6, <1>7, <1>8, <1>9, <1>10 DEF Next

\* The types of the variables that are about bans.
BanTypes ==
    /\ day \in 0..MaxDay
    /\ bans \in Seq(Ban)
    /\ storedBans \in SUBSET Ban /\ IsFiniteSet(storedBans) /\ KeyOnce(storedBans)
    /\ barred \in SUBSET Uid /\ unsure \in SUBSET Uid /\ blindToBans \in BOOLEAN

LEMMA BanTypesInit == Init => BanTypes
  BY BanInit DEF Init, BanInv, BanTypes

LEMMA BanTypesSaved ==
    ASSUME BanTypes, bans' \in Seq(Ban), saveBans, day' \in 0..MaxDay,
           barred' \in SUBSET Uid, unsure' \in SUBSET Uid
    PROVE  BanTypes'
<1>1. (storedBans' = Rows(bans') \/ storedBans' = storedBans) /\ blindToBans' \in BOOLEAN
  BY DEF saveBans, BanTypes
<1>2. storedBans' \in SUBSET Ban /\ IsFiniteSet(storedBans') /\ KeyOnce(storedBans')
  BY <1>1, RowsAre DEF BanTypes
<1>3. QED
  BY <1>1, <1>2 DEF BanTypes

LEMMA BanTypesNext == BanTypes /\ RestOK /\ [Next]_vars => BanTypes'
<1> SUFFICES ASSUME BanTypes, RestOK, [Next]_vars PROVE BanTypes'
  OBVIOUS
<1>1. ASSUME NEW up \in BOOLEAN, Start(up) PROVE BanTypes'
  <2>1. bans' \in Lists(storedBans) \/ bans' = <<>>
    BY <1>1 DEF Start, loadBans
  <2>2. \A list \in Lists(storedBans) : list \in Seq(Ban)
    BY RowsLoaded DEF BanTypes
  <2>3. <<>> \in Seq(Ban)
    OBVIOUS
  <2>4. bans' \in Seq(Ban)
    BY <2>1, <2>2, <2>3
  <2>5. QED
    BY <1>1, <2>4 DEF Start, BanTypes
<1>2. CASE Stop
  <2>1. saveBans /\ UNCHANGED <<bans, day, barred>> /\ unsure' = unsure \cup Doubtful
    BY <1>2 DEF Stop, Gone, memory
  <2>2. bans' \in Seq(Ban) /\ day' \in 0..MaxDay /\ barred' \in SUBSET Uid /\ unsure' \in SUBSET Uid
    BY <2>1 DEF Doubtful, BanTypes
  <2>3. QED
    BY <2>1, <2>2, BanTypesSaved
<1>3. ASSUME NEW u \in Uid, NEW ip \in Ip \cup {None}, NEW until \in {1, Never}, AddBan(u, ip, until)
      PROVE  BanTypes'
  <2>1. [uid |-> u, ip |-> ip, until |-> until] \in Ban
    BY DEF Ban
  <2>2. bans' \in Seq(Ban)
    BY <1>3, <2>1, RowsAppend DEF AddBan, BanTypes
  <2>3. saveBans /\ day' = day /\ barred' \in SUBSET Uid /\ unsure' \in SUBSET Uid
    BY <1>3 DEF AddBan, Doubtful, BanTypes
  <2>4. QED
    BY <2>2, <2>3, BanTypesSaved DEF BanTypes
<1>4. ASSUME NEW u \in Uid, NEW until \in {1, Never}, BanAdd(u, until) \/ BanClient(u, until)
      PROVE  BanTypes'
  <2>1. address[u] \in Ip \cup {None}
    BY DEF RestOK
  <2>2. AddBan(u, None, until) \/ AddBan(u, address[u], until)
    BY <1>4 DEF BanAdd, BanClient
  <2>3. QED
    BY <1>3, <2>1, <2>2
<1>5. ASSUME NEW u \in Uid, Unban(u) PROVE BanTypes'
  <2>1. bans' \in Seq(Ban)
    BY <1>5, RowsWithout DEF Unban, BanTypes
  <2>2. saveBans /\ day' = day /\ barred' \in SUBSET Uid /\ unsure' \in SUBSET Uid
    BY <1>5 DEF Unban, Doubtful, BanTypes
  <2>3. QED
    BY <2>1, <2>2, BanTypesSaved DEF BanTypes
<1>6. CASE NextDay
  <2>1. day' \in 0..MaxDay
    BY <1>6, PersistenceAssumption DEF NextDay, BanTypes
  <2>2. QED
    BY <1>6, <2>1 DEF NextDay, BanTypes, memory, banHistory
<1>7. ASSUME UNCHANGED <<bans, storedBans, day, barred, unsure, blindToBans>> PROVE BanTypes'
  BY <1>7 DEF BanTypes
<1>8. CASE Crash \/ Reach \/ Tick
  BY <1>7, <1>8 DEF Crash, Gone, Reach, Tick, memory, banHistory
<1>9. ASSUME NEW m \in Motd \cup {None}, EditIni(m) PROVE BanTypes'
  BY <1>7, <1>9 DEF EditIni, memory, banHistory
<1>10. ASSUME NEW m \in Motd, NEW refused \in BOOLEAN, ServerEdit(m, refused) PROVE BanTypes'
  BY <1>7, <1>10 DEF ServerEdit, banHistory
<1>11. ASSUME NEW x \in Fact, Change(x) PROVE BanTypes'
  BY <1>7, <1>11 DEF Change, banHistory
<1>12. ASSUME NEW u \in Uid, (\E ip \in Ip : Hello(u, ip)) \/ Leave(u) PROVE BanTypes'
  BY <1>7, <1>12 DEF Hello, Leave, memory, banHistory
<1>13. CASE UNCHANGED vars
  BY <1>7, <1>13 DEF vars, memory, banHistory
<1>14. ASSUME NEW u \in Uid,
              \/ \E ip \in Ip : Hello(u, ip)
              \/ Leave(u)
              \/ \E until \in {1, Never} : BanClient(u, until) \/ BanAdd(u, until)
              \/ Unban(u)
       PROVE  BanTypes'
  BY <1>4, <1>5, <1>12, <1>14
<1>15. QED
  BY <1>1, <1>2, <1>6, <1>8, <1>9, <1>10, <1>11, <1>13, <1>14 DEF Next

LEMMA TypeFrom == RestOK /\ TimerOK /\ BanTypes => TypeOK
<1> SUFFICES ASSUME RestOK, TimerOK, BanTypes PROVE TypeOK
  OBVIOUS
<1>1. deferred \in 0..Window + Interval
  BY PersistenceAssumption DEF TimerOK
<1>2. QED
  BY <1>1 DEF RestOK, TimerOK, BanTypes, TypeOK

\* Every variable keeps its type, m_bans and its table included, in whatever
\* state the database is when the server starts.
THEOREM PersistenceTypes == Spec => []TypeOK
<1>1. Init => RestOK /\ BanTypes
  BY RestInit, BanTypesInit
<1>2. RestOK /\ BanTypes /\ [Next]_vars => RestOK' /\ BanTypes'
  BY RestNext, BanTypesNext
<1>3. Spec => []SaveInv
  BY SaveInvInit, SaveInvStep, PTL DEF Spec
<1>4. RestOK /\ BanTypes /\ SaveInv => TypeOK
  BY TypeFrom DEF SaveInv
<1>5. QED
  BY <1>1, <1>2, <1>3, <1>4, PTL DEF Spec

-----------------------------------------------------------------------------
(* Who is banned stays out *)

LEMMA BansAlways == Spec => [](RestOK /\ BanInv)
<1>1. Init => RestOK /\ BanInv
  BY RestInit, BanInit
<1>2. RestOK /\ BanInv /\ [Next]_vars => RestOK' /\ BanInv'
  BY RestNext, BanNext DEF RestOK
<1>3. QED
  BY <1>1, <1>2, PTL DEF Spec

\* Whoever is banned for good, with no earlier entry of the same identity and
\* address and by a save that did not fail, is not let in by a server that has
\* read or written table bans, whatever saves, starts, crashes and other bans come
\* in between, unless a server that had not read the table wrote it.
THEOREM FirstBansAreKept == Spec => FirstBansHold
<1>1. ASSUME RestOK, BanInv, Next PROVE \A u \in barred \ unsure : address'[u] # None => address[u] # None \/ blindToBans
  <2> SUFFICES ASSUME NEW u \in barred \ unsure, address'[u] # None, address[u] = None, ~blindToBans PROVE FALSE
    OBVIOUS
  <2>1. \E v \in Uid, ip \in Ip : Hello(v, ip) /\ v = u
    <3>1. ASSUME NEW v \in Uid, Leave(v) \/ \E until \in {1, Never} : BanClient(v, until)
          PROVE  address'[u] = None
      BY <1>1, <3>1 DEF Leave, BanClient, RestOK, BanInv
    <3>2. ASSUME NEW v \in Uid, NEW ip \in Ip, Hello(v, ip) PROVE v = u
      BY <1>1, <3>2 DEF Hello, RestOK, BanInv
    <3>3. CASE Stop \/ Crash
      BY <1>1, <3>3 DEF Stop, Crash, Gone, Nobody, BanInv
    <3>4. ASSUME NEW up \in BOOLEAN, Start(up) PROVE address' = address
      BY <3>4 DEF Start
    <3>5. ASSUME NEW m \in Motd \cup {None}, EditIni(m) PROVE address' = address
      BY <3>5 DEF EditIni
    <3>6. ASSUME NEW m \in Motd, NEW refused \in BOOLEAN, ServerEdit(m, refused) PROVE address' = address
      BY <3>6 DEF ServerEdit
    <3>7. ASSUME NEW x \in Fact, Change(x) PROVE address' = address
      BY <3>7 DEF Change
    <3>8. ASSUME NEW v \in Uid, Unban(v) \/ \E until \in {1, Never} : BanAdd(v, until)
          PROVE  address' = address
      BY <3>8 DEF Unban, BanAdd
    <3>9. Reach \/ Tick \/ NextDay => address' = address
      BY DEF Reach, Tick, NextDay
    <3>10. QED
      BY <1>1, <3>1, <3>2, <3>3, <3>4, <3>5, <3>6, <3>7, <3>8, <3>9 DEF Next
  <2>2. running /\ \E ip \in Ip : ~Banned(u, ip)
    BY <2>1 DEF Hello
  <2>3. PICK b \in Rows(bans) : b.uid = u /\ b.until = Never
    BY <1>1, <2>2 DEF BanInv, Stands
  <2>4. PICK i \in DOMAIN bans : bans[i] = b
    BY DEF Rows
  <2>5. Never > day
    BY <1>1, PersistenceAssumption DEF BanInv, Never
  <2>6. QED
    BY <2>2, <2>3, <2>4, <2>5 DEF Banned, Active
<1>2. RestOK /\ BanInv /\ [Next]_vars =>
         [\A u \in barred \ unsure : address'[u] # None => address[u] # None \/ blindToBans]_vars
  BY <1>1
<1>3. QED
  BY <1>2, BansAlways, PTL DEF Spec, FirstBansHold

=============================================================================
