# A TLA+ model of HallaServer

HallaServer is a voice-chat server: one process, one thread, one Qt event loop.
Clients speak newline-separated JSON over TLS (control) and UDP (voice). This
directory holds TLA+ modules translated from the code, the TLC configurations
that check them, and theorems that TLAPS proves. Paths below are relative to the
repository.

Because there is one thread, a handler is atomic. What is hard in this program
is the *order of events*: lines of different clients, sockets that close, the
5-second timer, ServerQuery commands and Qt's deferred deletion interleave
freely between handlers, and the state is spread over many tables that repeat
each other (session objects, `m_clients`, voice-token maps, whisper sets, channel
lists, a user-to-channel cache, cached authority, the database).

## Inventory

| Component | Code | State | Operations | What makes it correct |
|---|---|---|---|---|
| Sessions and presence | `ClientSession`, `ServerCore` 655-1326, 1657-1701, 2142-2247, 2715-2800, 3082-3105 | session objects, `m_clients`, `m_nextId`, voice tokens, whisper sets, `m_registry`, `m_bans`, who is in which channel | connect, oversize, drop, hello, proof, quit, nick, whisper, voice_hello, move, move_other, kick, ban, unban, idle timer, deferred deletion | no table outlives a session; one session per identity; distinct nicknames; limits; everybody in exactly one existing channel |
| Channel tree and voice routing | `ServerCore` 1743-2140, 2967-3080, `VoiceRelay` | `m_channels` (parent, links, order, limits, owner, operators), voice component cache and its revision | create, move, link, edit, delete, temporary cleanup, relay | no parent cycle, links symmetric and alive, cached components equal computed ones, voice reaches whom it should |
| Roles, hierarchy, permissions | `ServerCore` 299-643, 2346-2660, `HierarchyPolicy.h`, `GroupAssignmentPolicy.h`, `EffectiveGroupDisplay.h` | `m_groups`, `m_assignByUid`, authority cached on each session, what channels ask of groups, the tree each client was sent | group_set, reorder, delete, client_set_group, privilege keys, channel rules, visibility sync | strict hierarchy, no self-promotion, cached authority current, order independence, clients show a whole tree of what they may see |
| Persistence | `ServerCoreStorage.cpp`, `scheduleSave` | database, debounce timer, memory | load, save, import, bans, keys | what was saved is what is loaded; a failed start loses nothing |
| Talking indicators and screen sharing | `ServerCore` 893-976, 1590-1627, 3015-3080, `ServerV3` 209-248 | talking flags, indicators sent, streams | talking, whisper, stream on/off, signalling | an indicator is lit exactly where the voice is heard |
| ServerQuery | `ServerQuery.cpp`, `ServerV3` 484-731 | connection buffers, logins | clientkick, banclient, banadd, bandel, group and channel commands | same tables, same rules as clients |
| Offline messages, chat, files | `ServerV3` 126-470 | `m_offline`, file index, transfers | send, deliver, upload, download, delete | delivered once, kept until delivered |
| End-to-end key relay | `ServerCore`, `ServerV3` | none | forward an envelope | reaches the named session only |
| Password hashes, TLS, start-up, encoding, tools | `PasswordHash`, `TlsCertificate`, `main.cpp`, `shared/`, `tools/` | none that lives | library calls, configuration | not modelled |

Components meet in `ServerCore`: every handler is a method of it and touches the
shared tables directly. The two chokepoints are `reapUser` (every exit) and
`addToChannel`/`removeFromChannels` (every change of place); the interesting
code is what goes around them.

The hazards, each at its line, are listed in `PROJECT.json`; the four without a
property say why there is none.

## Modules

| Module | What it is |
|---|---|
| `Roster` | the abstract promise of the user list: each identity is offline or in one existing channel |
| `Sessions` | sessions, login, exits, presence: the core, with its properties and mutants |
| `SessionsMC` | instances of `Sessions` for TLC |
| `SessionsProofs` | theorems about the tables of `Sessions` |
| `PresenceProofs` | theorems about who is where under which name: nicknames, bans, seats, limits, the refinement of `Roster` |
| `Channels` | the channel tree, links, the voice component cache, temporary channels, restarts |
| `ChannelsMC` | the constraint under which TLC checks `Channels` |
| `ChannelsProofs` | theorems about `Channels` |
| `Hierarchy` | groups, who holds them, the authority that sessions cache, requests that change roles |
| `HierarchyMC` | values of its constants and the constraint under which TLC checks it |
| `HierarchyProofs` | theorems about `Hierarchy` |
| `Persistence` | the database: when it is written, what a start reads, bans and the message of the day across restarts |
| `PersistenceMC` | the constraints under which TLC checks it |
| `PersistenceProofs` | theorems about `Persistence` |
| `Talk` | who hears whom, and the indicators that tell of it; uses the voice components of `Channels` |
| `TalkMC` | the constraint under which TLC checks it |
| `TalkProofs` | theorems about `Talk` |
| `Visibility` | which channels each client may see and was shown; composes the roles of `Hierarchy` and the tree of `Channels` with the rules that channels have for groups |
| `VisibilityMC` | the rules that requests use and the constraint under which TLC checks it |
| `VisibilityProofs` | theorems about `Visibility` |

### Sessions

State and code:

| Variable | Code |
|---|---|
| `phase` | life of a `ClientSession` object: `free` (not allocated), `open`, `draining` (`m_protocolClosePending`), `closing` (after `closeAndDelete`/`deleteLater`, before the event loop deletes it) |
| `sid`, `uid`, `nick`, `verified`, `pending`, `whisperIds`, `hasToken` | `m_id`, `m_uid`, `m_name`, `m_identityVerified`, `m_pendingIdentityHello`, `m_whisperIds`, `hasVoiceToken()` |
| `verdict` | which error a refused hello was answered with (sent, not stored: a history variable) |
| `reading` | the session whose read loop in `onReadyRead` is still running after it closed itself |
| `clients`, `nextId`, `byVoiceToken` | `m_clients`, `m_nextId`, the values of both voice-token maps |
| `chanType`, `maxIn`, `nextChan`, `users`, `userChannelCache` | `m_channels` (`type`, `maxClients`, `users`), `m_nextChanId`, `m_userChannelCache` |
| `registry`, `bans` | `m_registry[..].name`, `m_bans` without expired entries |

One action is one handler with everything it calls. `Enter` is the whole tail of
`handleHello`: replacing the earlier session through `doKick`, the new id, the
lobby, the voice credential of `sendWelcome`, the registry. `Tick` is
`checkIdleClients` with both of its halves. `Expel` is `doKick` from the server.
`Reap` is `reapUser` for a set of sessions (the timer may reap several).

Abstractions: a permission check is an input (a refused request is a stuttering
step, except a refused `chan_create`, which uses up an id, and a refused `kick`,
which may create a phantom, below), and so are a password's being right and the outcome
of `RAND_bytes`; nicknames are compared up to case; the order of a channel list
does not matter, except in `chan_delete`, where the code erases from the list it
iterates. There, of `n` occupants `(n - 1) div 2` are passed over, whichever they
are (`PassedOver`). A channel that is not in `m_channels` but is looked up with
`operator[]` (in `handleKick`, after such a deletion) becomes a `phantom`.
The server starts with an empty database and one channel.

`Trailing` says whether a read may hold more lines after one whose handler
closed the session. `onReadyRead` dispatches them, and such a session can log
in, or obtain a voice credential, after it was reaped: when its identity was proved before
(the login was refused for something else), or when it proves it now by answering a challenge
that was sent before. A challenge that the session would draw once it has closed is not
sent (`ClientSession::send` needs an open socket), so `SayHello` leaves nothing to
prove then. The address of a session that closed itself is taken to be the one it came from, although Qt
may have cleared it; only bans by address read it. The runs `sessions` and
`sessions_trailing` take `TRUE`, the other runs take `FALSE`. Most theorems hold for
both; the five about what a closed session leaves in the tables assume
`Trailing = FALSE`, that is, they speak of clients that send nothing behind a closing
line, and are false without (below, Proofs). An object that a table still leads to is
never freed in the model: the program has no defined behaviour from there on.
`ClosedIsForgotten` proves that without such lines there is no such object, so that this
guard of `Deleted` excludes nothing then.

### Channels

| Variable | Code |
|---|---|
| `type` | `m_channels` and `SvrChan::type`: `none` (no such channel), `temp` (0), `kept` (1 or 2: semi-permanent and permanent differ only in the permission that creates them) |
| `parent`, `linkedChannels`, `tempChannelParent` | the fields of `SvrChan`, the last as the set of channels that have it set |
| `nextChan` | `m_nextChanId` |
| `cache`, `cacheIsOld` | `m_voiceComponentCache`; whether `m_voiceComponentCacheRev` differs from `m_channelTopologyRev` |
| `restarts` | how often the server was restarted; the code has no such counter |

`ChanCreate`, `ChanMove`, `ChanLink`, `ChanEdit` and `ChanDelete` are the handlers
of the five requests, `Cleanup` is the second half of `checkIdleClients`,
`voiceComponentOf` the lookup that every voice packet makes, and `Restart` is
what `saveDataToSql` leaves out followed by what `loadData` takes over. Channel
handlers save before they return, so a restart loads what memory held, less the
temporary channels; saves are taken to succeed.

The two loops that search a graph, the walk from a new parent to the root and the
search along links, are given as the least set closed under their step (`Above`,
`Component`). A walk that meets a channel twice is one that never reaches the root
or a missing parent, which is how `Fits` says it.

Abstractions: who is in a channel belongs to `Sessions`, so the timer may find any
set of temporary channels empty. Permissions, passwords and visibility are inputs:
any request may be refused, and a refused `chan_create` may have used up an id.
Names, order among siblings, operators, audio settings and files are left out. The
phantom channels that `operator[]` creates are in `Sessions` only.

The first run of a server has the lobby alone. Databases of older versions,
which might hold cycles or one-sided links already, are not initial states; the
one-sided links that a restart makes do occur.

### Hierarchy

| Variable | Code |
|---|---|
| `groups`, `position`, `perms`, `nextGroup` | `m_groups` (its keys, `GroupDef::position`, `GroupDef::perms`), `m_nextGroupId` |
| `assignByUid` | `m_assignByUid`; `{}` when the identity has no entry |
| `privilegedUids`, `usedKeys` | `m_privilegedUids`, `m_usedKeys` |
| `online`, `adminAuthenticated` | the identities in `m_clients`; `ClientSession::m_adminAuthenticated` |
| `groupId`, `groupPosition` | the copies `m_groupId` and `m_groupPosition` that a session keeps |

Authority is computed in two ways. `positionForUid`, `uidIsSuperAdmin` and `hasPerm`
read the groups at the moment of the question; `clientPosition` and `isSuperAdmin`
also believe what the session keeps since the last `applyGroup`. Each handler that
changes groups or assignments calls `applyGroup` for the sessions it thinks are
concerned (`Touched`), and the question of the module is whether those are all.

`GroupCreate` and `GroupEdit` are the two halves of `handleGroupSet`,
`GroupReorder`, `GroupDelete` and `ClientSetGroup` the handlers of the same names,
`Privkey` is `handlePrivkey`, `Hello` and `Leave` are what a login and `reapUser` do to
this state, and `QuerySetPosition` is the ServerQuery command
`servergroupsetposition`. `ClientSetGroup` with `byUid` is the request that names its
target by identity: it may be used for people who are offline, and the code then
recalculates nobody. The constant `ByUid` says whether clients also use it for people
who are online.

Abstractions: an identity has one session (`OneSessionPerIdentity` of `Sessions`), so a
session is named by its uid. Of the rights, the three that the rules speak of are kept
(`*`, `groupEdit`, `pluginDataGlobal`); a request for a set of rights gives the whole set.
Ids of custom groups start at 4 instead of 100 and are bounded by `MaxGroup`. `applyGroup`
sorts the groups of an identity by position; which of several equals comes first is
left open (`Primary`). `toggle` is `add` or `remove`. Names, colours, the displayed group,
talk power, the list of privilege keys themselves and restarts are left out.

### Persistence

| Variable | Code |
|---|---|
| `running`, `reachable` | is there a process; does `ensureSqlConnection` succeed |
| `data`, `storedData` | the tables in memory and in the database, as sets of facts |
| `motd`, `storedMotd`, `snapshot`, `ini` | `m_motd`; the rows `motd` and `configMotdSnapshot` of `settings`; `motd` in the INI file |
| `timer`, `deferred` | what is left of `m_saveDebounceTimer`, how long ago `m_saveDeferredSinceMs` is |
| `bans`, `storedBans` | `m_bans`, the table `bans` |
| `address` | the addresses of the sessions online, by identity |
| `taken`, `missed`, `blind`, `edited`, `barred`, `unsure`, `blindToBans` | history, for the properties: what requests took out of memory, whether the last save failed, whether the server runs on tables it could not read and has not written yet (`blind`; `blindToBans` the same of the table of bans), the edit that should be kept, who is banned for good, of whom the table may not know it |

`saveData` writes all tables but `bans` in one transaction or, when the database is
out of reach, logs and forgets the save; nothing tries again until the next change.
`scheduleSave` starts the timer, or starts it again as long as the first of the
changes that wait is younger than `Window`. The bound is thus `Window + Interval`
(2.4 s), not the 2 s of the comment. `Start` is `loadData` and `loadBans`; `Stop` is the
destructor, which saves both; `Crash` is any other end. `Change` stands for the
handlers that change a row and save (`Late`: those that call `scheduleSave`, which are the
four on groups and roles), `ServerEdit` is `handleServerEdit` with its late refusal.

Abstractions: the contents of the tables are facts that are there or not, and the
rows that `loadData` does not take over are `Unread`. A transaction is atomic (SQLite, or
MySQL with InnoDB); single INSERTs that fail inside one, which the code logs and
passes over, are left out except those of `bans`, where they matter. NULLs in a key
are distinct, as in SQLite. A refused ban is a stuttering step, and a session's
address is the one of its identity.
Of the name of the server the same could be said as of the message of the day, which has
the same code. Left out: the inbox, the JSON files of old versions, the generated privilege
key, avatars and banners.

The database may be out of reach at any moment, also when the server starts. Then the
server goes on with its defaults, and the first save, or the destructor, replaces all
that is stored by them. `saveData` says that it does not ("Só salva se houver dados carregados no servidor",
`ServerCoreStorage.cpp:719`), but what it asks is whether there are no channels and no groups,
which is never so after `loadData` has filled in the built-in ones. That save is part of
the model, and of the run: `RowsGoOnRequest`, `MotdKept` and `FirstBansHold` each name
it as an exception (`blind`, `blindToBans`), beside what a server without its database shows while it runs:
its own message, and no bans. Each of the three is violated without the
exception; rows are wiped in six steps: a start, a row is added and saved, a stop, a start
that does not find the database, the database comes back, a stop.

The database is taken to have its tables. On a first start that does not find it they are not
created, and every save fails until the next start.

### Talk

| Variable | Code |
|---|---|
| `where` | `channelOfUser`, that is `m_userChannelCache`; `Nowhere` for who is not online |
| `talking`, `whisperIds` | `ClientSession::m_talking`, `ClientSession::m_whisperIds` |
| `rooms`, `linkedChannels` | the keys of `m_channels`, `SvrChan::linkedChannels` |
| `mute`, `deaf` | for whom `canTalkIn` fails, and who may not listen, in which channel |
| `shown` | for each client, the last indicator it was sent of each other (sent, not stored in the server) |

`Reaches` is the decision of `relayVoice` for one packet, `Light` what
`broadcastTalkingState` and the welcome say of a speaker. The two are separate code, and
neither is derived from the other; the module asks where they agree. Each handler that changes
who hears whom is an action, with the indicators it sends or does not send:
`Hello`, `Leave` (`reapUser`), `Talking`, `Whisper`, `WhisperRefused`, `Move`, `MoveOther`,
`KickFromChannel`, `ChanRemove` (`chan_delete` and the timer), `ChanLink`, `RightsChange`.

Abstractions: a client is a session whose name may be used again after it left, since
no table keeps the id of a session that is gone (`NoGhosts`); the same holds of channels
(`SymmetricUntilRestart`). The components are computed (`CacheCurrent` says that the cache agrees).
Limits, passwords and the permissions to move, to whisper, to talk and to listen are inputs, the last two
as state. Channels of more than two people are not deleted (the people that the code
passes over are the subject of `Sessions`). Everybody online has said where its voice
packets go. The second that a repeated `on` has to wait is a choice.

### Visibility

| Variable | Code |
|---|---|
| `groups`, `nextGroup`, `assignByUid`, `privilegedUids`, `online`, `adminAuthenticated`, `groupId` | as in `Hierarchy` |
| `type`, `parent`, `nextChan`, `restarts` | as in `Channels` |
| `rule` | the `view` entries of `SvrChan::groupPerms`: allow, deny, inherit, or no entry |
| `req` | `SvrChan::groupPositionReqs`: none, or whether the group's position meets it |
| `known` | for each identity, the channels its client shows, each as it is or as it was before an edit (`old`); sent, not stored |

The module is a composition: `Roles` is `Hierarchy`, whose `groupIdsForUid`, `Primary`,
`orNormal`, `Touched`, `isSuperAdmin` it uses, `Tree` is `Channels`, whose `Fits`, `Above`
and `FirstFree` it uses, each with the variables that play no part here fixed.
`canViewChannel` is the walk to the root with `getChannelPermState` at each step. The loop of that
function over the groups of a person is given twice, as the recursive function
`PermStateInOrder` and as what it comes to. `syncChannelVisibility` sends a client what it may see
as the handler leaves things, and the question is which handlers call it for whom.

Abstractions: of positions only whether they meet what a channel asks, so a change of
a position may change that in any way (`Reposition`); which of the groups of a person is the highest is
left open (any of them); only the group Admin, a privilege key and the administrator's password give
full rights, not a custom group with `*`. The permission to ask for a change is an input.
Rules may be sent for any id, also one that no group has yet: `chan_create` and
`chan_edit` take them as they come (`ServerCore.cpp:1825`, `2078`), while the ServerQuery commands look
for the group first. Whether channels that went were linked with others, which decides whether
everybody is synced, is an input (`linked`). The other permissions of a channel are combined by
the same loop and not shown to anybody.

## Runs

| Run | Instance | Question |
|---|---|---|
| `sessions` | 3 connections, 2 identities, 2 nicknames, 2 seats, 3 logins, lobby only, no bans, `Trailing` | are identities and names right, also with lines behind a closing one? does a login throw out the right session? |
| `sessions_rooms` | 2 connections from 2 addresses, 2 channels, limit 1, 2 logins | are the tables clean after every exit, do lists and cache agree, do limits and bans hold, is `Roster` implemented, are closed sessions freed, do empty temporary channels vanish? |
| `sessions_trailing` | 2 connections, 1 seat, `Trailing` | violated `NoDangling`: see Findings |
| `sessions_evacuate` | 3 people in a channel that is deleted | violated `Seated` |
| `channels` | 4 channels, 1 restart | does the tree stay a tree, are links symmetric, is the cache current, is there one destination for temporary channels? |
| `channels_reuse` | 3 channels, 1 restart | violated `LinkedBothWays` |
| `hierarchy` | 2 people, 1 custom group, 3 positions, 4 sets of rights, 1 key | is cached authority current, are deleted groups gone, do rights, positions and roles come from where they may? |
| `hierarchy_by_uid` | the same, people online named by uid | violated `RolesFromAbove` |
| `persistence` | 3 facts (saved at once, by the timer, by the timer and not read back), interval 2, window 3, 3 messages, 2 identities behind 1 address, 2 ban entries, 2 days | are changes saved in time, do rows go only when a request takes them away, do messages and bans outlive restarts, outages at the start included? |
| `persistence_bans` | 1 identity, 2 ban entries, a database within reach | violated `PermanentBansHold` |
| `talk` | 3 clients, 3 channels, with links | is nobody shown as talking who is silent, do indicators follow the voice, which steps leave them wrong? |
| `visibility` | 1 person, 1 custom group, 3 channels, 1 restart, ServerQuery | are trees whole, do rules of several groups depend on their order, does a new group change anybody's view, which steps leave a tree outdated? |

Why the bounds are enough for what they show. A reconnection needs the old
object, the new one and a bystander: three connections. A name conflict or a
hijacked seat needs two identities and two names; on a server with two seats that are taken,
the third connection is refused. A channel besides the lobby
lets a person move to and fro, and a limit of one
is reached by one person and exceeded by two. `MaxSid` bounds the number of logins
in a behaviour (three let an identity leave, be replaced and come back), `MaxChan`
the number of channels ever created. `Alone` keeps `sessions` to no bans and no whispers, one handshake at a
time, one session that is draining (with no hello pending), two that are draining or closing, and one
closed object that a table still leads to; the step that leads out of these is checked, and the
theorems show the same for every number of each. `OneByOne` keeps `sessions_rooms` to one ban entry, one handshake at a time, and
no ban once a second channel was created, since no condition reads both. What the run with two
connections says of the tables is proved for any number of them. The theorems use none of these constraints.
`NobodyLeaves` only shortens the search for a behaviour that exists without it.
`DeleteLimit = 2` keeps `sessions_rooms` to deletions that the code carries out
as intended; `sessions_evacuate` raises it to 3. Symmetry is used for connections
(when all come from one address), identities and nicknames, which the actions
only compare; it is not used in `sessions_rooms`, which checks liveness. Deadlock is not checked: the
bounds on ids let a behaviour end, and a server without clients may wait for ever.

In `channels` four channels give a chain of three below the lobby, and a cycle
closed by the reuse of an id needs two kept channels and a vanished one; links need
three for a component that is not a pair. `Apart` keeps TLC from multiplying trees
by links: a behaviour goes on from a state with a tree of up to four channels, or
with links among up to three. No condition in the code reads both, and the theorems
do not use the constraint. One restart is enough to reuse an id, and a second one
starts from a state the first can leave. Ids are never exhausted in the code, so
deadlock (all ids used, nothing left to do) is not checked here either.

In `hierarchy` one person acts and the other is acted on, and either may be either;
one custom group besides the three built-in ones can be created at each of the three
positions, edited, moved together with a built-in group (`MaxMoves = 2`), given, taken
and deleted. The positions are those of the built-in groups: each is below, level with and
above another. `Few` ends behaviours at states where a built-in group was moved or got
other rights than `groupEdit`, where the two people hold more than two groups, or where more than
one of them has a key or the password; the step that leads there is still checked.
The theorems use neither the bounds nor the constraint. Ids of groups run out only
because of `MaxGroup`, and a server where nobody is online may wait for ever.

In `persistence` one fact of each kind is enough, since no condition relates two; the
window is longer than the interval and not a multiple of it. Three messages are the empty
one, the default one and another, the cases that `resolveConfiguredSetting` tells
apart. Two entries make the conflict of keys, two identities behind one address the
one that is banned because of the other; entries for a time end on day 1. `Apart` lets behaviours go on
only as long as one of facts, message and bans has left its beginning and, of bans, as long as
people online and entries are two at most (`FewOnline`); the three parts share
`reachable`, `running` and the saves, and no condition reads two of them. The step that
leads out is checked, and the theorems do not use the constraint. A server that has
been stopped may stay stopped.

In `talk` three clients are a speaker, a listener and somebody else, three channels a
place to be, one linked with it and one that is not. `OneVoice` ends behaviours where a second person
speaks or whispers, or a second permission is missing: an indicator depends on one speaker
and one listener, and the step that leads out is checked.

In `visibility` one person is enough, because no condition relates what two clients were
shown; three channels give a channel, one above it and a sibling or a chain of three. `Small` keeps rules and
requirements to two, on channel 2, and takes away what makes everything visible (full rights) after one
step; assignments go on from the base group and the custom one. One channel at most is shown as it was before a
refused edit, and not together with the third channel or after a restart; the third channel is a kept one that
the first life of the server has. To be in the lobby, which has no rules under the constraint, is the same as to be at the top. The group that is
deleted and whose id comes back after a restart is the custom one. The theorems use neither.

Fairness (`FairSpec`): the event loop deletes objects passed to `deleteLater`;
the timer fires every 5 seconds; and a session that is `draining` discards what
it reads *without* refreshing `m_lastActivity`, so the timer finds it idle within
five minutes. No client is assumed to do anything, in particular not to close.
Liveness is checked under `OneByOne`: TLC sees the behaviours that stay within it, so this is the
weakest of the claims. `SessionsAreFreed` and `TempRoomsVanish` are about what happens when
nothing more comes in, which the constraint does not cut off.

## Findings

1. `sessions_trailing`. `onReadyRead` goes on dispatching the lines of a read
   after `closeAndDelete()`, and two sequences of lines in one read enter `m_clients` with an object
   that is about to be deleted and whose `disconnected` signal is cut: an `identity_proof`
   that is valid, but whose login is refused for its password, and then a hello that is accepted, since the
   identity stays verified (the trace of the run); and, after a challenge that was sent in an earlier
   read, a line that closes the session, `server_probe` for instance, and then the valid
   `identity_proof`. A hello alone behind a closing line does nothing, because its challenge is
   never sent.
2. `sessions_evacuate`. `chan_delete` with three or more occupants leaves some of
   them in no channel list (`ServerCore.cpp:2115-2123`).
3. `channels_reuse`. `ServerCore.h:231` calls `linkedChannels` a symmetric relation.
   A kept channel that was linked with a temporary one keeps that id in the
   database. After a restart ids start again above the highest *saved* one, so
   the next channel may get the id of the vanished one and is in a voice
   component nobody put it in; only the other side knows of the link.
   `voiceComponentOf` reads links in both directions, so the audio flows
   (`MutualVoice`), and an unlink request removes it. The same reuse gives the new
   channel the sub-channels of the old one and can close a cycle in the tree, the
   only way there is (`CyclesOnlyByReuse`).

4. `hierarchy_by_uid`. PROTOCOL.md:555 lets an editor manage only people strictly below.
   `handleClientSetGroup` recalculates the target's session only when the target was named
   by session id. A person who is online and is named by uid loses the role in
   `m_assignByUid` but keeps its position and, if it was the administrators' group, full
   rights in the session, until a group it holds changes or it logs in again.

5. `persistence_bans`. PROTOCOL.md:329 says that a ban with `minutes` 0 is permanent. An
   entry stays in `m_bans` when it has run out, and a later ban of the same identity at the
   same address becomes a second one. `bans` has one row for each uid and address and
   `saveBansToSql` ignores an INSERT that fails, so the older entry is the one stored;
   after a restart the ban for good is gone. `FirstBansHold` says that this, a
   save that failed, and a server that could not read the table are the only ways to lose one.

Observations without a run:

- PROTOCOL.md:202 says that a reconnection replaces the session of the same identity.
  `handleHello` compares the number of clients with the limit before it looks for that session
  (`ServerCore.cpp:1113`), so on a full server it is refused.
- A database out of reach at the start is overwritten with defaults by the first save
  that succeeds, against the comment at `ServerCoreStorage.cpp:719` (above, Persistence).
- Names and rights of the built-in groups are saved, but `loadData` takes over only five other
  fields of theirs (`ServerCoreStorage.cpp:236`): an edit of the rights of `normal`
  lasts until the restart.
- An empty message, in the configuration or from an administrator, counts as none in
  `resolveConfiguredSetting`, so it is not kept (`edited` excludes it).
- A `server_edit` that is refused for its banner has changed name and message already; they are
  not announced, and stored with the next save (`ServerCore.cpp:2675`).
- The generated privilege key is a row of `settings`, which `saveDataToSql` empties
  without writing it back: every start after a save makes a new key.

- PROTOCOL.md:378 has indicators follow the same rule as the relay of voice, and names of it
  the component of the channel and the whisper targets. They follow these two, and ignore whether the speaker may talk or the listener may
  listen there: after a move to a channel where a person lacks the power to talk its indicator stays lit, and
  no packet of it is relayed (`LampsFollowVoice` names this exception).
- Indicators are not sent again when the listener moves, after a kick from a channel, a
  deletion, a change of links, or a whisper that is refused or whose last target left
  (`StaleOnlyBy` lists them). They are right again with the speaker's next change.
- PROTOCOL.md:576 says that changes of groups resynchronise the tree at once. They do not for
  the holders of a deleted group that was not their primary one, for somebody named by
  uid in `client_set_group`, and after `servergroupsetposition`; nor does the timer when it removes a channel
  with sub-channels, nor a `chan_edit` that is refused after its name was taken
  (`TreeStaleOnlyBy` lists them).
- Channels keep their rules for groups that were deleted, and take rules for groups that
  do not exist yet. Ids of groups are used again after a restart, and a new group then has the rules of the
  old one. The creation itself changes nobody's view (`NewGroupsChangeNoView`), since nobody holds
  the group yet; the first person who is given it gets those rules.
- `m_screenWatchers` is written and never read.

Another, about roles: whoever holds only the guest group has position
0, and on the loss of it gets the base group (`orNormal`). A request to take the guest
group away can thus lift a person to the position of the base group, and to its rights, by
an editor who could not have given that group. `RightsFromAdmins` and
`RisesBelowEditors` name this exception; nothing in the documents excludes it.

## Proofs

`SessionsProofs` proves, for every number of connections, identities, channels and
every value of the bounds:

- `TypeCorrect`: `Spec => []TypeOK`. `TypeOK` is not inductive: a ban or a rename
  reads `uid` of the object behind an id. `TypeInv` adds that a logged-in object
  has an identity and a name (`Named`) and that an object in `m_clients` carries
  the id it is filed under (`Filed`).
- `SingleSession` (`OneSessionPerIdentity`), whatever lines follow a closing one in a read. Such a
  session may log in and be online, closed, next to the ids it had before, so that the tables
  need not be clean; what is kept nevertheless is `IdInv`. Ids are handed out in order and
  no two objects that spoke share one (`SidsDrawn`, `SidsDiffer`); an object that was freed has no
  id and is in no table (`Unfiled`); an open object with an id is in `m_clients` under it
  (`OpenIsFiled`). The part that is easily missed is `ReaderIsLast`: while a session that closed
  itself reads on, nobody else is dispatched, so that nobody else can be online under its identity.
  Without it a `nick` of such a session could change the name that the registry has for somebody who
  logged in again; `NicksAreDistinct` rests on it (`SpeakerIsLast`).
- with `Trailing = FALSE`, `NeverDangling`, `CleanExit` and `ClosedIsForgotten`, from `ObjInv`:
  `NoDangling` and `NothingLeftBehind` are inductive only together, with no read going on
  (`reading = None`), and relative to `IdInv`. Each exit is first shown to be an instance of one
  operator, `Leave` (`Exits`), so that the argument about reaping is made once (`ObjLeave`), and
  once for the replacement of a session by a login (`ObjEnter`).
- with `Trailing = FALSE`, `GhostFree`, from `GhostInv` relative to the two above. Without the
  hypothesis the run `sessions_trailing` shows the first of them to fail; a session that moves after it
  closed itself leaves its id in a list.

`PresenceProofs` proves what is left of the safety of `Sessions`, relative to `IdInv` and therefore,
but for the last part of `Seated`, whatever follows a closing line. `StepKind` sorts the
steps once: a login, an exit of some sessions, the timer, a rename, a walk of one session to
another channel, a kick from a channel, the handlers of channels, bans, and steps that nobody
sees. Then:

- `NicksAreDistinct` (`DistinctNicks`): only a login and a rename give a name, and both look at all
  sessions online first.
- `BansHold` (`BannedAreGone`): a ban removes whom it names in the same step, and a login
  is refused to them.
- `LoginsEvictNobodyElse` (`NobodyElseEvicted`): by `OneSessionPerIdentity` the one session that
  a login replaces is all that there is of that identity.
- `LimitsHold` (`RoomForOne`): a list grows only by `Seat`, which is behind `HasRoom` except
  for the lobby.
- with `DeleteLimit <= 2`, `PeopleAreSeated` (`PeopleSeated`, the part of `Seated` about
  those online). Inductive with `ChannelsInOrder` (the lobby exists, ids from `nextChan` on are
  free). A deletion of at most two people passes over nobody, since `(n - 1) div 2 = 0`; that is
  the step which fails for three. With `Trailing = FALSE` moreover nobody else has an entry in the
  cache: `EverybodyIsSeated` (`Seated`).
- `SeatsLostByDeletionOnly`, with no hypothesis: whoever has a seat and stays online loses it only
  by the deletion of a channel with more than two people, of whom it is one. The hypothesis on `DeleteLimit`
  thus leaves out one kind of step and nothing else. Phantom channels may come and go here, and the only
  invariant needed is that the lobby stays.
- with `DeleteLimit <= 2`, `SessionsImplementRoster` (`ImplementsRoster`): each kind of step
  is mapped to a step of `Roster` or to none. By `OneSessionPerIdentity` the place of an
  identity is that of its one session.

`ChannelsProofs` proves every property of the run `channels`, for every number of
channels and restarts:

- `ChannelTypes`. `nextChan` stays in its range after a restart because the highest
  saved id exists, which is shown with the well-founded order on the naturals
  (`FirstFreeAbove`), and because channels have ids below `nextChan` and the lobby is
  always kept (`Ids`).
- `LinksKnownToBoth` (`SymmetricUntilRestart`): inductive once the channels that do
  not exist are known to have no links (`LinkInv`).
- `TreeStaysATree` (`AcyclicUntilRestart`): until the first restart no channel names
  a parent with an id not yet handed out (`TreeInv`), so a creation adds a leaf; a
  move keeps the tree because the new parent's ancestors do not hold the channel
  moved (`MoveKeepsTree`).
- `CyclesNeedReuse` (`CyclesOnlyByReuse`) is an action property and needs the types
  and `Ids` only.
- `CacheNeverStale` (`CacheCurrent`): every step either leaves types and links alone
  or makes the cache old.
- `VoiceBothWays` (`MutualVoice`): `Component` is an equivalence class, from
  `ComponentIsLeast` and the symmetry of `Linked`.
- `SingleDestination` (`OneDestination`).

`HierarchyProofs` proves every property of the run `hierarchy`, for any people, groups,
rights asked for, and any positions that have an upper bound (`GreatestIs` finds the
greatest of a set of them with the well-founded order on the naturals):

- `HierarchyTypes` and `DeletedGroupsAreGone`; what `applyGroup` leaves is
  stated once (`Applied`), and each handler shows that whom it does not recalculate needs
  no recalculation.
- with `ByUid = FALSE`, `AuthorityIsCurrent`. `AuthorityCurrent` is not inductive: a
  position that a session keeps may be covered by another group that is then taken away.
  `CachedInv` says what is kept: a group that the identity holds, and that group's
  position or 0.
- `RolesComeFromSessionsAbove` and `PositionsRiseBelowSessions`, also when people online are named
  by uid: roles are given and taken, and positions rise, only below what the *session* of
  an editor counts for. This is what the handlers look at, and all they promise then.
- with `ByUid = FALSE`, `RolesComeFromAbove` (`RolesFromAbove`) and `PositionsRiseBelowEditors`
  (`RisesBelowEditors`), from the two and `AuthorityCurrent`: what a session counts for is covered by
  present roles. The hypothesis is needed: the run `hierarchy_by_uid` refutes the first, and
  with a fourth position TLC refutes the second as well, since a person who lost a role by uid still
  lifts others to just below it.
- `RightsComeFromAdmins` needs the types only, and holds for both values of `ByUid`.

`PersistenceProofs`, for any facts, messages, interval and window:

- `SavedInTime` (`UnsavedInTime`), whatever the database does. Inductive with `TimerOK`: the bound on
  what has passed and what is left of the timer.
- `RowsAreKept` (`RowsGoOnRequest`), whatever the database does, also at the start. `TakenInv` says what a save
  would erase: unless the server is blind, what is stored and not in memory was taken out by a request, or is not
  read back. A start establishes it by reading, which is where a `loadData` that skips a table would
  fail; a request that the timer saves later keeps it because of `taken`, and so does a save that fails.
- `PersistenceTypes` (`TypeOK`), whatever the database does, also at the start. `m_bans` stays a list of
  entries because what is loaded is finite: the rows that a save writes are, for a list is (`BanTypes`).
- `FirstBansAreKept` (`FirstBansHold`), from `BanInv`: whoever is banned for good, without a doubt recorded in `unsure`, has an entry in the
  table and, while a server runs that has read or written the table, while the server runs, one among the rows that a save would write (`Rows(bans)`). An entry
  that is appended takes the place of none (`RowsAppend`), one that is taken out neither (`RowsWithout`),
  and a table that is loaded, in any order, would be saved as it was, because it has each key
  once (`RowsLoaded`).
- `EditsAreKept` (`MotdKept`): an edit that counts is in the database,
  next to the configuration under which it was made, and `resolveConfiguredSetting` then
  returns it (`EditInv`, `EditResolved`).

`TalkProofs` proves every property of the run `talk`, for any clients and channels:

- `TalkTypes`, and `SilenceIsDark` (`QuietIsDark`), which is inductive with the types: whatever makes
  somebody silent sends it to all, and who comes is told the present state.
- `LampsAreRight` (`LampsFollowVoice`): an indicator that changes was just computed by `Light`
  from the state after the step, or put out; `Light` and `Reaches` agree but for the two rights.
- `StaleLampsExplained` (`StaleOnlyBy`): step by step, `Light` reads nothing else.
- `TalkImplementsRoster`: its seats and channels are a user list as `Roster` has it, with sessions for
  identities, so that `Talk` and `Sessions` agree on what a move, a kick, a departure and a deletion do.
  Its invariant, everybody online is in a channel that exists, is `SeatsExist`.
- `VoiceIsAnswered`: of two people who speak to their channel and may talk and listen where they are,
  either each hears the other or neither does. It takes `VoiceIsMutual` over from `ChannelsProofs`, for the
  channels and links of `Talk`.

`VisibilityProofs` proves every property of the run `visibility`, for any identities,
groups, channels and rules:

- `VisibilityTypes`, and `NewGroupsAreUnseen` (`NewGroupsChangeNoView`), from `HeldInv`: groups have ids below
  `nextGroup`, and people hold only groups that there are, in the assignments and in their sessions, also after
  a restart. Rules for the new id may be there, and count for nobody yet.
- `ShownTreesAreWhole` (`TreeIsWhole`): a sync shows with a channel all that is above it; a
  creation and a move sync everybody, and what is removed is forgotten by everybody.
- `OrderNeverMatters` (`OrderFree`): `Combine` takes the greater of two states, so the loop returns
  the greatest, which does not depend on the order. That the recursive function exists at all for
  each length is shown by a least counterexample, since the induction theorems of the library
  cannot be used.
- `StaleTreesExplained` (`TreeStaleOnlyBy`): for each step, whoever is not sent a tree
  sees what it saw, or the step is one of those named.
- `VisibilityImplementsChannels`: its channels take no step that `Channels`, with no links and no
  cache, does not take. What is proved of `Channels` therefore holds here: `ViewWalksATree` is
  `TreeStaysATree` for the tree that `canViewChannel` walks, taken over from `ChannelsProofs`
  and not proved again.
- `ShownUpToTheTop`: a channel is shown with all that is above it, from `TreeIsWhole`, because
  `Above` is the least set closed under parents and what is shown is closed.

The assumptions are `TalkAssumption` (a positive number of channels), `VisibilityAssumption` (the built-in
groups among the groups, types of the constants), `ChannelsAssumption` (a positive number of channels, a natural
number of restarts), `HierarchyAssumption` (types of the constants, the built-in positions
among those in use, an upper bound on them), `PersistenceAssumption` (types; the interval and the window are not 0; the default message is not the empty one) and `SessionsAssumption` (types of the constants; `None` is none of
the values it stands beside), which TLC evaluates in every run. `Trailing = FALSE`, `DeleteLimit <= 2`
and `ByUid = FALSE` are hypotheses of the theorems that need them; the
violated runs and the paragraphs above show what happens without. Every safety property and every
action property of the runs that pass is proved; only model-checked is liveness (`SessionsAreFreed`, `TempRoomsVanish`),
which is out of the prover's reach.

## Plan

1. *(done)* `Sessions`, `Roster`, their theorems and the refinement.
2. *(done)* `Channels`: the tree, moves and cycles, symmetric links, the voice
   component cache, temporary channels, restarts with reused ids, with theorems.
3. *(done)* `Hierarchy`: groups, assignments, authority cached on sessions, strictness of
   the hierarchy over sequences of grants, reorders and deletions, with theorems.
4. *(done)* `Persistence`: saves, the debounce timer, outages, crashes and restarts, the message
   of the day and the table of bans, with theorems.
5. *(done)* `Talk`: indicators against audibility, on top of components and whispers, with theorems.
6. *(done)* `Visibility`: rules of channels for groups, their combination, deleted groups
   and reused ids, who is told, with theorems.

What could follow: the deletion loop as a loop over a
list, checked against `PassedOver`; the bookkeeping of file transfers; the login
limit of ServerQuery.

## Not modelled

- The inbox of offline messages: a list that is appended to by one handler and sent and
  emptied by another. What can be lost is what was handed to a socket that closes, which nothing in
  the server can notice.
- Chat, screen sharing and the relay of end-to-end keys: a request is checked and
  forwarded, and no state is kept that anything reads.
- Files, avatars, icons, banner: contents and I/O under a name.
- ServerQuery connections (buffers, logins): their commands are actions of the other modules.
- TLS, password hashing, configuration, packet encoding, logging, rate limits, the network
  test tool, packaging: no protocol state.
