-------------------------------- MODULE Talk --------------------------------
(***************************************************************************)
(* Who hears whom, and who is told that somebody speaks: relayVoice, which *)
(* decides for each packet, and the "talking" indicators of user_state,    *)
(* which are sent when a handler thinks of it.                             *)
(*                                                                         *)
(* A client here is a session that comes and goes: the id of one that left *)
(* means nothing to anybody (NoGhosts of Sessions), nor does that of a     *)
(* channel that is gone (SymmetricUntilRestart of Channels), so that names *)
(* may be used again.  Everybody online has told where its voice packets   *)
(* go.  Limits, passwords and permissions to move are inputs.              *)
(***************************************************************************)
EXTENDS Integers, FiniteSets

CONSTANTS
    Client,       \* sessions
    MaxChan       \* bound on channel ids

ASSUME TalkAssumption == MaxChan \in Nat \ {0}

Chan == 1..MaxChan
Lobby == 1
Nowhere == 0

VARIABLES
    where,          \* channelOfUser; Nowhere for who is not online
    talking,        \* ClientSession::m_talking
    whisperIds,     \* ClientSession::m_whisperIds
    rooms,          \* the keys of m_channels
    linkedChannels, \* SvrChan::linkedChannels
    mute, deaf,     \* <<client, channel>>: no canTalkIn, no permission to listen
    shown           \* shown[l][s]: what l was last told of the voice of s

seatVars == <<where, rooms, linkedChannels>>
rightVars == <<mute, deaf>>
vars == <<seatVars, talking, whisperIds, rightVars, shown>>

Lamp == {"dark", "talking", "whispering"}

TypeOK ==
    /\ where \in [Client -> Chan \cup {Nowhere}]
    /\ talking \in SUBSET Client
    /\ whisperIds \in [Client -> SUBSET Client]
    /\ rooms \in SUBSET Chan /\ Lobby \in rooms
    /\ linkedChannels \in [Chan -> SUBSET Chan]
    /\ mute \in SUBSET (Client \X Chan) /\ deaf \in SUBSET (Client \X Chan)
    /\ shown \in [Client -> [Client -> Lamp]]

AllDark == [s \in Client |-> "dark"]

Init ==
    /\ where = [c \in Client |-> Nowhere]
    /\ talking = {}
    /\ whisperIds = [c \in Client |-> {}]
    /\ rooms = {Lobby}
    /\ linkedChannels = [ch \in Chan |-> {}]
    /\ mute = {} /\ deaf = {}
    /\ shown = [l \in Client |-> AllDark]

-----------------------------------------------------------------------------
(* Who hears, and who should be told *)

\* The components are those of Channels, whose cache is shown to be current.
Tree == INSTANCE Channels WITH
    type <- [ch \in Chan |-> IF ch \in rooms THEN "kept" ELSE "none"],
    parent <- [ch \in Chan |-> 0], tempChannelParent <- {}, nextChan <- 2,
    cache <- [ch \in Chan |-> {}], cacheIsOld <- TRUE, restarts <- 0, MaxRestarts <- 0

Online == {c \in Client : where[c] # Nowhere}

canTalkIn(c) == where[c] \in rooms /\ <<c, where[c]>> \notin mute

Nearby(s, l) == where[l] \in Tree!Component(where[s])

\* relayVoice: does a packet of s go to l?
Reaches(s, l) ==
    /\ s # l /\ {s, l} \subseteq Online
    /\ canTalkIn(s)
    /\ IF whisperIds[s] # {} THEN l \in whisperIds[s] ELSE Nearby(s, l)
    /\ <<l, where[l]>> \notin deaf

\* Mutant of Light: the channel is told of a whisper.
LightWide(s, l) == CASE s \notin talking -> "dark"
                     [] s \in talking /\ l \in whisperIds[s] -> "whispering"
                     [] s \in talking /\ l \notin whisperIds[s] -> IF Nearby(s, l) THEN "talking" ELSE "dark"

\* What l is told of s, by broadcastTalkingState and by the welcome.
Light(s, l) == CASE s \notin talking -> "dark"
                 [] s \in talking /\ l \in whisperIds[s] -> "whispering"
                 [] s \in talking /\ l \notin whisperIds[s] ->
                       IF whisperIds[s] = {} /\ Nearby(s, l) THEN "talking" ELSE "dark"

\* The indicators of s are sent to everybody else, as the step leaves things.
broadcastTalkingState(s) ==
    shown' = [l \in Client |-> IF l \in Online' \ {s}
                               THEN [shown[l] EXCEPT ![s] = Light(s, l)'] ELSE shown[l]]

TellIfTalking(s) == IF s \in talking THEN broadcastTalkingState(s) ELSE UNCHANGED shown

-----------------------------------------------------------------------------
(* Sessions *)

\* Mutant of Hello: the welcome lights every lamp there is.
HelloGlobal(c) ==
    /\ c \notin Online
    /\ where' = [where EXCEPT ![c] = Lobby]
    /\ shown' = [shown EXCEPT ![c] = [s \in Client |-> IF s \in talking THEN "talking" ELSE "dark"]]
    /\ UNCHANGED <<talking, whisperIds, rooms, linkedChannels, rightVars>>

\* The welcome tells who comes of those who are speaking.
Hello(c) ==
    /\ c \notin Online
    /\ where' = [where EXCEPT ![c] = Lobby]
    /\ UNCHANGED <<talking, whisperIds, rooms, linkedChannels, rightVars>>
    /\ shown' = [shown EXCEPT ![c] = [s \in Client |-> Light(s, c)']]

\* reapUser: user_left puts out the lamps for who goes, and the id leaves the
\* whisper sets.  A set that is emptied turns the voice back to the channel.
Leave(c) ==
    /\ c \in Online
    /\ where' = [where EXCEPT ![c] = Nowhere]
    /\ talking' = talking \ {c}
    /\ whisperIds' = [d \in Client |-> IF d = c THEN {} ELSE whisperIds[d] \ {c}]
    /\ shown' = [l \in Client |-> IF l = c THEN AllDark ELSE [shown[l] EXCEPT ![c] = "dark"]]
    /\ UNCHANGED <<rooms, linkedChannels, rightVars>>

-----------------------------------------------------------------------------
(* Speaking *)

\* Mutant of Talking: the end of a sentence is taken for a repetition.
TalkingDeduplicated(c, on) ==
    /\ c \in Online
    /\ on => canTalkIn(c)
    /\ talking' = IF on THEN talking \cup {c} ELSE talking \ {c}
    /\ UNCHANGED <<seatVars, whisperIds, rightVars>>
    /\ IF on THEN broadcastTalkingState(c) ELSE UNCHANGED shown

\* talking.  A repeated "on" may be sent again, at most once in a second; a
\* repeated "off", and an "on" without the power to talk, does nothing.
Talking(c, on) ==
    /\ c \in Online
    /\ on => canTalkIn(c)
    /\ talking' = IF on THEN talking \cup {c} ELSE talking \ {c}
    /\ UNCHANGED <<seatVars, whisperIds, rightVars>>
    /\ \/ (on \/ c \in talking) /\ broadcastTalkingState(c)
       \/ (c \in talking <=> on) /\ UNCHANGED shown

\* Mutant of Whisper: nobody is told of the new targets.
WhisperQuietly(c, I) ==
    /\ c \in Online
    /\ I \subseteq Online \ {c}
    /\ whisperIds' = [whisperIds EXCEPT ![c] = I]
    /\ UNCHANGED <<seatVars, talking, rightVars, shown>>

\* whisper: the same set again is answered, and changes nothing.
Whisper(c, I) ==
    /\ c \in Online
    /\ I \subseteq Online \ {c} /\ I # whisperIds[c]
    /\ whisperIds' = [whisperIds EXCEPT ![c] = I]
    /\ UNCHANGED <<seatVars, talking, rightVars>>
    /\ TellIfTalking(c)

\* Without the permission the targets are dropped, and nobody is told.
WhisperRefused(c) ==
    /\ c \in Online
    /\ whisperIds' = [whisperIds EXCEPT ![c] = {}]
    /\ UNCHANGED <<seatVars, talking, rightVars, shown>>

-----------------------------------------------------------------------------
(* Places *)

Move(c, ch) ==
    /\ c \in Online
    /\ ch \in rooms /\ where[c] # ch
    /\ where' = [where EXCEPT ![c] = ch]
    /\ UNCHANGED <<talking, whisperIds, rooms, linkedChannels, rightVars>>
    /\ TellIfTalking(c)

\* move_other, which may name the channel where i is.
MoveOther(i, ch) ==
    /\ i \in Online
    /\ ch \in rooms
    /\ where' = [where EXCEPT ![i] = ch]
    /\ UNCHANGED <<talking, whisperIds, rooms, linkedChannels, rightVars>>
    /\ TellIfTalking(i)

\* A kick from the channel tells nobody.
KickFromChannel(i) ==
    /\ i \in Online
    /\ where' = [where EXCEPT ![i] = Lobby]
    /\ UNCHANGED <<talking, whisperIds, rooms, linkedChannels, rightVars, shown>>

ChanCreate(ch) ==
    /\ ch \in Chan \ rooms
    /\ rooms' = rooms \cup {ch}
    /\ UNCHANGED <<where, linkedChannels, talking, whisperIds, rightVars, shown>>

Occupants(ch) == {c \in Client : where[c] = ch}

\* Mutant of ChanRemove: the first channel may be deleted as well.
ChanRemoveAny(ch) ==
    /\ ch \in rooms
    /\ rooms' = rooms \ {ch}
    /\ where' = [c \in Client |-> IF where[c] = ch THEN Lobby ELSE where[c]]
    /\ linkedChannels' = [d \in Chan |-> IF d = ch THEN {} ELSE linkedChannels[d] \ {ch}]
    /\ UNCHANGED <<talking, whisperIds, rightVars, shown>>

\* chan_delete, and the timer for a temporary channel that is empty.  With more
\* than two people in it the code loses some of them (PassedOver of Sessions).
ChanRemove(ch) ==
    /\ ch \in rooms \ {Lobby}
    /\ Cardinality(Occupants(ch)) <= 2
    /\ rooms' = rooms \ {ch}
    /\ where' = [c \in Client |-> IF where[c] = ch THEN Lobby ELSE where[c]]
    /\ linkedChannels' = [d \in Chan |-> IF d = ch THEN {} ELSE linkedChannels[d] \ {ch}]
    /\ UNCHANGED <<talking, whisperIds, rightVars, shown>>

ChanLink(ids, link) ==
    /\ ids \in SUBSET rooms
    /\ Cardinality(ids) >= 2
    /\ linkedChannels' =
          [ch \in Chan |-> IF ch \notin ids THEN linkedChannels[ch]
                           ELSE IF link THEN linkedChannels[ch] \cup (ids \ {ch})
                           ELSE linkedChannels[ch] \ (ids \ {ch})]
    /\ UNCHANGED <<where, rooms, talking, whisperIds, rightVars, shown>>

\* A group, a rule of a channel or the power it asks for changes, and with it
\* who may talk or listen there.  Indicators are not among what is sent then.
RightsChange(c, ch) ==
    /\ \/ mute' = (mute \ {<<c, ch>>}) \cup ({<<c, ch>>} \ mute) /\ UNCHANGED deaf
       \/ deaf' = (deaf \ {<<c, ch>>}) \cup ({<<c, ch>>} \ deaf) /\ UNCHANGED mute
    /\ UNCHANGED <<seatVars, talking, whisperIds, shown>>

Next ==
    \/ \E c \in Client :
          \/ Hello(c) \/ Leave(c) \/ WhisperRefused(c) \/ KickFromChannel(c)
          \/ \E on \in BOOLEAN : Talking(c, on)
          \/ \E I \in SUBSET Client : Whisper(c, I)
          \/ \E ch \in Chan : Move(c, ch) \/ MoveOther(c, ch) \/ RightsChange(c, ch)
    \/ \E ch \in Chan : ChanCreate(ch) \/ ChanRemove(ch)
    \/ \E ids \in SUBSET Chan, link \in BOOLEAN : ChanLink(ids, link)

Spec == Init /\ [][Next]_vars

-----------------------------------------------------------------------------
(* Properties *)

\* Whoever does not speak, or is gone, has no lamp lit anywhere, and whoever is
\* gone sees none: no order of moves, whispers, logins and exits leaves one on.
QuietIsDark ==
    \A l, s \in Client : s \notin talking \/ l \notin Online => shown[l][s] = "dark"

\* PROTOCOL.md: the indicators that are sent follow the rule by which voice is
\* relayed.  A lamp that changes while both are online is lit if, and only if,
\* voice goes that way at that moment; the rights to talk and to listen, which
\* relayVoice asks for and the indicators do not, are the one exception.
LampsFollowVoice ==
    [][\A l, s \in Client :
          /\ {l, s} \subseteq Online' /\ shown'[l][s] # shown[l][s]
          /\ <<l, where'[l]>> \notin deaf' /\ <<s, where'[s]>> \notin mute'
          => (shown'[l][s] # "dark" <=> s \in talking' /\ Reaches(s, l)')]_vars

\* A lamp that is right goes wrong by few kinds of step: the listener changes
\* place, links change, the speaker is put somewhere without a word to anybody,
\* or its whisper ends.
StaleOnlyBy ==
    [][\A l, s \in Online :
          l # s /\ {l, s} \subseteq Online' /\ shown[l][s] = Light(s, l) /\ shown'[l][s] # Light(s, l)'
          => /\ s \in talking
             /\ \/ where'[l] # where[l]
                \/ linkedChannels' # linkedChannels
                \/ where'[s] # where[s] /\ UNCHANGED shown
                \/ whisperIds[s] # {} /\ whisperIds'[s] = {}]_vars

=============================================================================
