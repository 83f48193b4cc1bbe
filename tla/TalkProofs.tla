----------------------------- MODULE TalkProofs -----------------------------
(***************************************************************************)
(* Theorems about Talk, for every set of clients and number of channels:   *)
(* lamps follow the voice, the seats are a user list as Roster has it, and *)
(* whoever is heard hears.                                                 *)
(***************************************************************************)
EXTENDS Talk, TLAPS

-----------------------------------------------------------------------------
(* What is told *)

LEMMA LightIsLamp == \A s, l \in Client : Light(s, l) \in Lamp
  BY DEF Light, Lamp

\* The message about s changes the lamp of s, and for those online only.
LEMMA Told ==
    ASSUME TypeOK, NEW s \in Client, broadcastTalkingState(s)
    PROVE  /\ shown' \in [Client -> [Client -> Lamp]]
           /\ \A l, x \in Client :
                 shown'[l][x] = IF x = s /\ l # s /\ l \in Online' THEN Light(s, l)' ELSE shown[l][x]
<1>1. \A l \in Client : Light(s, l)' \in Lamp
  BY DEF Light, Lamp
<1>2. \A l \in Client : shown[l] \in [Client -> Lamp]
  BY DEF TypeOK
<1>3. QED
  BY <1>1, <1>2 DEF broadcastTalkingState, TypeOK

LEMMA ToldIfTalking ==
    ASSUME TypeOK, NEW s \in Client, TellIfTalking(s)
    PROVE  /\ shown' \in [Client -> [Client -> Lamp]]
           /\ \A l, x \in Client :
                 shown'[l][x] = IF s \in talking /\ x = s /\ l # s /\ l \in Online' THEN Light(s, l)'
                                ELSE shown[l][x]
<1>1. CASE s \in talking
  BY <1>1, Told DEF TellIfTalking
<1>2. CASE s \notin talking
  BY <1>2 DEF TellIfTalking, TypeOK
<1>3. QED
  BY <1>1, <1>2

-----------------------------------------------------------------------------
(* Type correctness *)

LEMMA TypeInit == Init => TypeOK
  BY TalkAssumption DEF Init, TypeOK, AllDark, Lamp, Chan, Lobby

LEMMA TypeStep == TypeOK /\ [Next]_vars => TypeOK'
<1> SUFFICES ASSUME TypeOK, [Next]_vars PROVE TypeOK'
  OBVIOUS
<1> USE TalkAssumption
<1>0. Lobby \in Chan
  BY DEF Lobby, Chan
<1>1. ASSUME NEW c \in Client, Hello(c) PROVE TypeOK'
  <2>1. \A s \in Client : Light(s, c)' \in Lamp
    BY DEF Light, Lamp
  <2>2. [s \in Client |-> Light(s, c)'] \in [Client -> Lamp]
    BY <2>1
  <2>3. shown' \in [Client -> [Client -> Lamp]]
    BY <1>1, <2>2 DEF Hello, TypeOK
  <2>4. QED
    BY <1>0, <1>1, <2>3 DEF Hello, TypeOK, rightVars
<1>2. ASSUME NEW c \in Client, Leave(c) PROVE TypeOK'
  <2>1. AllDark \in [Client -> Lamp] /\ "dark" \in Lamp
    BY DEF AllDark, Lamp
  <2>2. shown' \in [Client -> [Client -> Lamp]]
    BY <1>2, <2>1 DEF Leave, TypeOK
  <2>3. QED
    BY <1>2, <2>2 DEF Leave, TypeOK, rightVars
<1>3. ASSUME NEW c \in Client, NEW on \in BOOLEAN, Talking(c, on) PROVE TypeOK'
  <2>1. shown' \in [Client -> [Client -> Lamp]]
    BY <1>3, Told DEF Talking, TypeOK
  <2>2. QED
    BY <1>3, <2>1 DEF Talking, TypeOK, rightVars, seatVars
<1>4. ASSUME NEW c \in Client, NEW I \in SUBSET Client, Whisper(c, I) PROVE TypeOK'
  BY <1>4, ToldIfTalking DEF Whisper, TypeOK, rightVars, seatVars
<1>5. ASSUME NEW c \in Client, WhisperRefused(c) PROVE TypeOK'
  BY <1>5 DEF WhisperRefused, TypeOK, rightVars, seatVars
<1>6. ASSUME NEW c \in Client, NEW ch \in Chan, Move(c, ch) PROVE TypeOK'
  BY <1>6, ToldIfTalking DEF Move, TypeOK, rightVars
<1>7. ASSUME NEW c \in Client, NEW ch \in Chan, MoveOther(c, ch) PROVE TypeOK'
  BY <1>7, ToldIfTalking DEF MoveOther, TypeOK, rightVars
<1>8. ASSUME NEW c \in Client, KickFromChannel(c) PROVE TypeOK'
  BY <1>0, <1>8 DEF KickFromChannel, TypeOK, rightVars
<1>9. ASSUME NEW ch \in Chan, ChanCreate(ch) PROVE TypeOK'
  BY <1>9 DEF ChanCreate, TypeOK, rightVars
<1>10. ASSUME NEW ch \in Chan, ChanRemove(ch) PROVE TypeOK'
  BY <1>0, <1>10 DEF ChanRemove, TypeOK, rightVars
<1>11. ASSUME NEW ids \in SUBSET Chan, NEW link \in BOOLEAN, ChanLink(ids, link) PROVE TypeOK'
  BY <1>11 DEF ChanLink, TypeOK, rightVars
<1>12. ASSUME NEW c \in Client, NEW ch \in Chan, RightsChange(c, ch) PROVE TypeOK'
  BY <1>12 DEF RightsChange, TypeOK, rightVars, seatVars
<1>13. CASE UNCHANGED vars
  BY <1>13 DEF vars, seatVars, rightVars, TypeOK
<1>14. QED
  BY <1>1, <1>2, <1>3, <1>4, <1>5, <1>6, <1>7, <1>8, <1>9, <1>10, <1>11, <1>12, <1>13 DEF Next

\* The variables keep their types.
THEOREM TalkTypes == Spec => []TypeOK
  BY TypeInit, TypeStep, PTL DEF Spec

-----------------------------------------------------------------------------
(* Silence is dark *)

\* Who is gone is silent, nobody has a lamp of its own, and QuietIsDark.
QuietInv ==
    /\ TypeOK
    /\ talking \subseteq Online
    /\ \A c \in Client : shown[c][c] = "dark"
    /\ QuietIsDark

\* A lamp that a step sends for a silent voice is a dark one.
LEMMA SilentLight == \A s, l \in Client : s \notin talking => Light(s, l) = "dark"
  BY DEF Light

LEMMA QuietInit == Init => QuietInv
<1> SUFFICES ASSUME Init PROVE QuietInv
  OBVIOUS
<1>1. TypeOK
  BY TypeInit
<1>2. \A l, s \in Client : shown[l][s] = "dark"
  BY DEF Init, AllDark
<1>3. QED
  BY <1>1, <1>2 DEF Init, QuietInv, QuietIsDark

\* A step after which as many are online and as many speak keeps the invariant,
\* when it sends nothing or what is true of one of them.
LEMMA QuietKept ==
    ASSUME QuietInv, TypeOK', UNCHANGED <<talking, Online>>, NEW s \in Client,
           UNCHANGED shown \/ TellIfTalking(s)
    PROVE  QuietInv'
<1>1. CASE UNCHANGED shown
  BY <1>1 DEF QuietInv, QuietIsDark
<1>2. CASE TellIfTalking(s)
  <2>1. \A l, x \in Client :
            shown'[l][x] = IF s \in talking /\ x = s /\ l # s /\ l \in Online' THEN Light(s, l)'
                           ELSE shown[l][x]
    BY <1>2, ToldIfTalking DEF QuietInv
  <2>2. QED
    BY <2>1 DEF QuietInv, QuietIsDark
<1>3. QED
  BY <1>1, <1>2

LEMMA QuietStep == QuietInv /\ [Next]_vars => QuietInv'
<1> SUFFICES ASSUME QuietInv, [Next]_vars PROVE QuietInv'
  OBVIOUS
<1>0. TypeOK /\ TypeOK' /\ Nowhere \notin Chan /\ Lobby \in Chan
  BY TypeStep, TalkAssumption DEF QuietInv, Nowhere, Lobby, Chan
<1>1. ASSUME NEW c \in Client, Hello(c) PROVE QuietInv'
  <2>1. \A s \in Client : s \notin talking' => Light(s, c)' = "dark"
    BY DEF Light
  <2>2. /\ Online' = Online \cup {c} /\ c \notin Online /\ talking' = talking
        /\ c \notin talking
        /\ \A l, s \in Client : shown'[l][s] = IF l = c THEN Light(s, c)' ELSE shown[l][s]
    BY <1>0, <1>1 DEF Hello, Online, TypeOK, QuietInv
  <2>3. QED
    BY <1>0, <2>1, <2>2 DEF QuietInv, QuietIsDark
<1>2. ASSUME NEW c \in Client, Leave(c) PROVE QuietInv'
  <2>1. /\ Online' = Online \ {c} /\ talking' = talking \ {c}
        /\ \A l, s \in Client : shown'[l][s] = IF l = c \/ s = c THEN "dark" ELSE shown[l][s]
    BY <1>0, <1>2 DEF Leave, Online, TypeOK, AllDark
  <2>2. QED
    BY <1>0, <2>1 DEF QuietInv, QuietIsDark
<1>3. ASSUME NEW c \in Client, NEW on \in BOOLEAN, Talking(c, on) PROVE QuietInv'
  <2>1. /\ Online' = Online /\ c \in Online
        /\ talking' = IF on THEN talking \cup {c} ELSE talking \ {c}
    BY <1>3 DEF Talking, seatVars, Online
  <2>2. CASE broadcastTalkingState(c)
    <3>1. \A l, x \in Client :
             shown'[l][x] = IF x = c /\ l # c /\ l \in Online' THEN Light(c, l)' ELSE shown[l][x]
      BY <1>0, <2>2, Told
    <3>2. \A l \in Client : c \notin talking' => Light(c, l)' = "dark"
      BY DEF Light
    <3>3. QED
      BY <1>0, <2>1, <3>1, <3>2 DEF QuietInv, QuietIsDark
  <2>3. CASE (c \in talking <=> on) /\ UNCHANGED shown
    BY <1>0, <2>1, <2>3 DEF QuietInv, QuietIsDark
  <2>4. QED
    BY <1>3, <2>2, <2>3 DEF Talking
<1>4. ASSUME NEW c \in Client, NEW I \in SUBSET Client, Whisper(c, I) PROVE QuietInv'
  BY <1>0, <1>4, QuietKept DEF Whisper, seatVars, Online
<1>5. ASSUME NEW c \in Client, WhisperRefused(c) PROVE QuietInv'
  BY <1>0, <1>5, QuietKept DEF WhisperRefused, seatVars, Online
<1>6. ASSUME NEW c \in Client, NEW ch \in Chan, Move(c, ch) PROVE QuietInv'
  <2>1. UNCHANGED <<talking, Online>> /\ TellIfTalking(c)
    BY <1>0, <1>6 DEF Move, TypeOK, Online
  <2>2. QED
    BY <1>0, <2>1, QuietKept
<1>7. ASSUME NEW c \in Client, NEW ch \in Chan, MoveOther(c, ch) PROVE QuietInv'
  <2>1. UNCHANGED <<talking, Online>> /\ TellIfTalking(c)
    BY <1>0, <1>7 DEF MoveOther, TypeOK, Online
  <2>2. QED
    BY <1>0, <2>1, QuietKept
<1>8. ASSUME NEW c \in Client, KickFromChannel(c) PROVE QuietInv'
  <2>1. UNCHANGED <<talking, Online, shown>>
    BY <1>0, <1>8 DEF KickFromChannel, TypeOK, Online
  <2>2. QED
    BY <1>0, <2>1, QuietKept
<1>9. ASSUME NEW ch \in Chan, ChanCreate(ch) PROVE QuietInv'
  BY <1>0, <1>9 DEF ChanCreate, Online, QuietInv, QuietIsDark
<1>10. ASSUME NEW ch \in Chan, ChanRemove(ch) PROVE QuietInv'
  <2>1. UNCHANGED <<talking, Online, shown>>
    BY <1>0, <1>10 DEF ChanRemove, TypeOK, Online
  <2>2. QED
    BY <1>0, <2>1 DEF QuietInv, QuietIsDark
<1>11. ASSUME NEW ids \in SUBSET Chan, NEW link \in BOOLEAN, ChanLink(ids, link) PROVE QuietInv'
  BY <1>0, <1>11 DEF ChanLink, Online, QuietInv, QuietIsDark
<1>12. ASSUME NEW c \in Client, NEW ch \in Chan, RightsChange(c, ch) PROVE QuietInv'
  BY <1>0, <1>12 DEF RightsChange, seatVars, Online, QuietInv, QuietIsDark
<1>13. CASE UNCHANGED vars
  BY <1>0, <1>13 DEF vars, seatVars, rightVars, Online, QuietInv, QuietIsDark
<1>14. QED
  BY <1>1, <1>2, <1>3, <1>4, <1>5, <1>6, <1>7, <1>8, <1>9, <1>10, <1>11, <1>12, <1>13 DEF Next

\* QuietIsDark: no lamp is lit for a voice that is silent or gone, and none is
\* left on for who comes back.
THEOREM SilenceIsDark == Spec => []QuietIsDark
<1>1. QuietInv => QuietIsDark
  BY DEF QuietInv
<1>2. QED
  BY <1>1, QuietInit, QuietStep, PTL DEF Spec

-----------------------------------------------------------------------------
(* Everybody online is somewhere, and links lead to channels that exist *)

PlaceInv ==
    /\ TypeOK
    /\ \A c \in Online : where[c] \in rooms
    /\ \A ch \in Chan : linkedChannels[ch] \subseteq rooms
    /\ \A ch \in Chan \ rooms : linkedChannels[ch] = {}

LEMMA PlaceInit == Init => PlaceInv
  BY TypeInit DEF Init, PlaceInv, Online

LEMMA PlaceKept ==
    ASSUME PlaceInv, TypeOK', UNCHANGED seatVars
    PROVE  PlaceInv'
  BY DEF PlaceInv, seatVars, Online

LEMMA PlaceStep == PlaceInv /\ [Next]_vars => PlaceInv'
<1> SUFFICES ASSUME PlaceInv, [Next]_vars PROVE PlaceInv'
  OBVIOUS
<1>0. TypeOK /\ TypeOK'
  BY TypeStep DEF PlaceInv
<1>1. ASSUME NEW c \in Client, Hello(c) PROVE PlaceInv'
  BY <1>0, <1>1 DEF Hello, PlaceInv, TypeOK, Online
<1>2. ASSUME NEW c \in Client, Leave(c) PROVE PlaceInv'
  BY <1>0, <1>2 DEF Leave, PlaceInv, TypeOK, Online
<1>3. ASSUME NEW c \in Client, NEW on \in BOOLEAN, Talking(c, on) PROVE PlaceInv'
  BY <1>0, <1>3, PlaceKept DEF Talking
<1>4. ASSUME NEW c \in Client, NEW I \in SUBSET Client, Whisper(c, I) PROVE PlaceInv'
  BY <1>0, <1>4, PlaceKept DEF Whisper
<1>5. ASSUME NEW c \in Client, WhisperRefused(c) PROVE PlaceInv'
  BY <1>0, <1>5, PlaceKept DEF WhisperRefused
<1>6. ASSUME NEW c \in Client, NEW ch \in Chan, Move(c, ch) PROVE PlaceInv'
  BY <1>0, <1>6 DEF Move, PlaceInv, TypeOK, Online
<1>7. ASSUME NEW c \in Client, NEW ch \in Chan, MoveOther(c, ch) PROVE PlaceInv'
  BY <1>0, <1>7 DEF MoveOther, PlaceInv, TypeOK, Online
<1>8. ASSUME NEW c \in Client, KickFromChannel(c) PROVE PlaceInv'
  BY <1>0, <1>8 DEF KickFromChannel, PlaceInv, TypeOK, Online
<1>9. ASSUME NEW ch \in Chan, ChanCreate(ch) PROVE PlaceInv'
  BY <1>0, <1>9 DEF ChanCreate, PlaceInv, TypeOK, Online
<1>10. ASSUME NEW ch \in Chan, ChanRemove(ch) PROVE PlaceInv'
  <2>1. /\ rooms' = rooms \ {ch} /\ Lobby \in rooms'
        /\ \A c \in Client : where'[c] = IF where[c] = ch THEN Lobby ELSE where[c]
        /\ \A d \in Chan : linkedChannels'[d] = IF d = ch THEN {} ELSE linkedChannels[d] \ {ch}
    BY <1>0, <1>10 DEF ChanRemove, TypeOK
  <2>2. \A c \in Online' : where'[c] \in rooms'
    BY <1>0, <2>1 DEF PlaceInv, Online
  <2>3. /\ \A d \in Chan : linkedChannels'[d] \subseteq rooms'
        /\ \A d \in Chan \ rooms' : linkedChannels'[d] = {}
    BY <2>1 DEF PlaceInv
  <2>4. QED
    BY <1>0, <2>2, <2>3 DEF PlaceInv
<1>11. ASSUME NEW ids \in SUBSET Chan, NEW link \in BOOLEAN, ChanLink(ids, link) PROVE PlaceInv'
  <2>1. /\ ids \subseteq rooms /\ UNCHANGED <<rooms, where>>
        /\ \A d \in Chan : linkedChannels'[d] = IF d \notin ids THEN linkedChannels[d]
                                              ELSE IF link THEN linkedChannels[d] \cup (ids \ {d})
                                              ELSE linkedChannels[d] \ (ids \ {d})
    BY <1>0, <1>11 DEF ChanLink
  <2>2. \A d \in Chan : linkedChannels'[d] \subseteq rooms
    BY <2>1 DEF PlaceInv
  <2>3. QED
    BY <1>0, <2>1, <2>2 DEF PlaceInv, Online
<1>12. ASSUME NEW c \in Client, NEW ch \in Chan, RightsChange(c, ch) PROVE PlaceInv'
  BY <1>0, <1>12, PlaceKept DEF RightsChange
<1>13. CASE UNCHANGED vars
  BY <1>0, <1>13, PlaceKept DEF vars
<1>14. QED
  BY <1>1, <1>2, <1>3, <1>4, <1>5, <1>6, <1>7, <1>8, <1>9, <1>10, <1>11, <1>12, <1>13 DEF Next

-----------------------------------------------------------------------------
(* Lamps follow the voice *)

Follows(l, s) ==
    /\ {l, s} \subseteq Online' /\ shown'[l][s] # shown[l][s]
    /\ <<l, where'[l]>> \notin deaf' /\ <<s, where'[s]>> \notin mute'
    => (shown'[l][s] # "dark" <=> s \in talking' /\ Reaches(s, l)')

\* A lamp that was sent is as relayVoice decides at that moment.
LEMMA SentFollows ==
    ASSUME PlaceInv', NEW l \in Client, NEW s \in Client, l # s, shown'[l][s] = Light(s, l)'
    PROVE  Follows(l, s)
<1> SUFFICES ASSUME {l, s} \subseteq Online', <<l, where'[l]>> \notin deaf',
                    <<s, where'[s]>> \notin mute'
             PROVE  Light(s, l)' # "dark" <=> s \in talking' /\ Reaches(s, l)'
  BY DEF Follows
<1>1. canTalkIn(s)'
  BY DEF canTalkIn, PlaceInv
<1>2. Reaches(s, l)' <=> IF whisperIds'[s] # {} THEN l \in whisperIds'[s] ELSE Nearby(s, l)'
  BY <1>1 DEF Reaches
<1>3. CASE s \notin talking'
  BY <1>3 DEF Light
<1>4. CASE s \in talking' /\ l \in whisperIds'[s]
  <2>1. Light(s, l)' = "whispering" /\ whisperIds'[s] # {}
    BY <1>4 DEF Light
  <2>2. QED
    BY <1>2, <1>4, <2>1
<1>5. CASE s \in talking' /\ l \notin whisperIds'[s]
  <2>1. Light(s, l)' = IF whisperIds'[s] = {} /\ Nearby(s, l)' THEN "talking" ELSE "dark"
    BY <1>5 DEF Light
  <2>2. QED
    BY <1>2, <1>5, <2>1
<1>6. QED
  BY <1>3, <1>4, <1>5

LEMMA TellingFollows ==
    ASSUME TypeOK, PlaceInv', NEW c \in Client, UNCHANGED shown \/ broadcastTalkingState(c),
           NEW l \in Client, NEW s \in Client
    PROVE  Follows(l, s)
<1>1. CASE UNCHANGED shown
  BY <1>1 DEF Follows
<1>2. CASE broadcastTalkingState(c)
  <2>1. shown'[l][s] = IF s = c /\ l # c /\ l \in Online' THEN Light(c, l)' ELSE shown[l][s]
    BY <1>2, Told
  <2>2. CASE s = c /\ l # c /\ l \in Online'
    BY <2>1, <2>2, SentFollows
  <2>3. CASE ~(s = c /\ l # c /\ l \in Online')
    BY <2>1, <2>3 DEF Follows
  <2>4. QED
    BY <2>2, <2>3
<1>3. QED
  BY <1>1, <1>2

LEMMA FollowsStep ==
    ASSUME QuietInv, PlaceInv, [Next]_vars, NEW l \in Client, NEW s \in Client
    PROVE  Follows(l, s)
<1>0. TypeOK /\ PlaceInv'
  BY PlaceStep DEF PlaceInv
<1>1. ASSUME NEW c \in Client, Hello(c) PROVE Follows(l, s)
  <2>1. /\ c \notin Online /\ c \notin talking' /\ Light(c, c)' = "dark"
        /\ shown'[l][s] = IF l = c THEN Light(s, c)' ELSE shown[l][s]
    <3>1. c \notin Online /\ c \notin talking'
      BY <1>1 DEF Hello, QuietInv
    <3>2. Light(c, c)' = "dark"
      BY <3>1 DEF Light
    <3>3. QED
      BY <1>0, <1>1, <3>1, <3>2 DEF Hello, TypeOK
  <2>2. CASE l = c /\ s = c
    BY <2>1, <2>2 DEF Follows, QuietInv
  <2>3. CASE l = c /\ s # c
    BY <1>0, <2>1, <2>3, SentFollows
  <2>4. CASE l # c
    BY <2>1, <2>4 DEF Follows
  <2>5. QED
    BY <2>2, <2>3, <2>4
<1>2. ASSUME NEW c \in Client, Leave(c) PROVE Follows(l, s)
  <2>1. /\ c \notin Online'
        /\ l # c /\ s # c => shown'[l][s] = shown[l][s]
    BY <1>0, <1>2 DEF Leave, Online, TypeOK
  <2>2. QED
    BY <2>1 DEF Follows
<1>3. ASSUME NEW c \in Client, NEW on \in BOOLEAN, Talking(c, on) PROVE Follows(l, s)
  BY <1>0, <1>3, TellingFollows DEF Talking
<1>4. ASSUME NEW c \in Client, NEW I \in SUBSET Client, Whisper(c, I) PROVE Follows(l, s)
  BY <1>0, <1>4, TellingFollows DEF Whisper, TellIfTalking
<1>5. ASSUME NEW c \in Client, WhisperRefused(c) PROVE Follows(l, s)
  BY <1>5 DEF WhisperRefused, Follows
<1>6. ASSUME NEW c \in Client, NEW ch \in Chan, Move(c, ch) PROVE Follows(l, s)
  BY <1>0, <1>6, TellingFollows DEF Move, TellIfTalking
<1>7. ASSUME NEW c \in Client, NEW ch \in Chan, MoveOther(c, ch) PROVE Follows(l, s)
  BY <1>0, <1>7, TellingFollows DEF MoveOther, TellIfTalking
<1>8. ASSUME NEW c \in Client, KickFromChannel(c) PROVE Follows(l, s)
  BY <1>8 DEF KickFromChannel, Follows
<1>9. ASSUME NEW ch \in Chan, ChanCreate(ch) \/ ChanRemove(ch) PROVE Follows(l, s)
  BY <1>9 DEF ChanCreate, ChanRemove, Follows
<1>10. ASSUME NEW ids \in SUBSET Chan, NEW link \in BOOLEAN, ChanLink(ids, link)
       PROVE  Follows(l, s)
  BY <1>10 DEF ChanLink, Follows
<1>11. ASSUME NEW c \in Client, NEW ch \in Chan, RightsChange(c, ch) PROVE Follows(l, s)
  BY <1>11 DEF RightsChange, Follows
<1>12. CASE UNCHANGED vars
  BY <1>12 DEF vars, Follows
<1>13. QED
  BY <1>1, <1>2, <1>3, <1>4, <1>5, <1>6, <1>7, <1>8, <1>9, <1>10, <1>11, <1>12 DEF Next

\* LampsFollowVoice: what the indicators say when they are sent is what
\* relayVoice does, but for the rights to talk and to listen.
THEOREM LampsAreRight == Spec => LampsFollowVoice
<1>1. ASSUME QuietInv, PlaceInv, [Next]_vars
      PROVE  [\A l, s \in Client :
                 /\ {l, s} \subseteq Online' /\ shown'[l][s] # shown[l][s]
                 /\ <<l, where'[l]>> \notin deaf' /\ <<s, where'[s]>> \notin mute'
                 => (shown'[l][s] # "dark" <=> s \in talking' /\ Reaches(s, l)')]_vars
  BY <1>1, FollowsStep DEF Follows
<1>2. QED
  BY <1>1, QuietInit, QuietStep, PlaceInit, PlaceStep, PTL DEF Spec, LampsFollowVoice

-----------------------------------------------------------------------------
(* What makes a lamp stale *)

\* Component of Channels, for the channels R and the links L.
Closed(R, L, S) == \A x \in S, y \in R \ S : y \notin L[x] /\ x \notin L[y]
Heard(R, L, a) == {d \in R : \A S \in SUBSET R : a \in S /\ Closed(R, L, S) => d \in S}

LEMMA NearbyIsHeard ==
    \A s, l \in Client : rooms \in SUBSET Chan =>
        (Nearby(s, l) <=> where[l] \in Heard(rooms, linkedChannels, where[s]))
  BY DEF Nearby, Heard, Closed, Tree!Component, Tree!Exists, Tree!Linked, Tree!Chan, Chan

LEMMA NearbyIsHeardNext ==
    ASSUME NEW s \in Client, NEW l \in Client, rooms' \in SUBSET Chan
    PROVE  Nearby(s, l)' <=> where'[l] \in Heard(rooms', linkedChannels', where'[s])
  BY DEF Nearby, Heard, Closed, Tree!Component, Tree!Exists, Tree!Linked, Tree!Chan, Chan

\* A channel without links makes no difference to the others.
LEMMA HeardBeside ==
    ASSUME NEW R, NEW L, NEW ch, ch \notin R,
           \A x \in R : ch \notin L[x] /\ x \notin L[ch],
           NEW a \in R, NEW d \in R
    PROVE  d \in Heard(R, L, a) <=> d \in Heard(R \cup {ch}, L, a)
<1>1. ASSUME d \in Heard(R, L, a), NEW S \in SUBSET (R \cup {ch}), a \in S,
             Closed(R \cup {ch}, L, S)
      PROVE  d \in S
  <2>1. Closed(R, L, S \cap R)
    BY <1>1 DEF Closed
  <2>2. QED
    BY <1>1, <2>1 DEF Heard
<1>2. ASSUME d \in Heard(R \cup {ch}, L, a), NEW S \in SUBSET R, a \in S, Closed(R, L, S)
      PROVE  d \in S
  <2>1. Closed(R \cup {ch}, L, S)
    BY <1>2 DEF Closed
  <2>2. QED
    BY <1>2, <2>1 DEF Heard
<1>3. QED
  BY <1>1, <1>2 DEF Heard

LEMMA NearbyKept ==
    ASSUME NEW l \in Client, NEW s \in Client, where'[l] = where[l], where'[s] = where[s],
           UNCHANGED <<rooms, linkedChannels>>, TypeOK
    PROVE  Nearby(s, l)' <=> Nearby(s, l)
<1>1. rooms \in SUBSET Chan /\ rooms' \in SUBSET Chan
  BY DEF TypeOK
<1>2. Heard(rooms', linkedChannels', where'[s]) = Heard(rooms, linkedChannels, where[s])
  OBVIOUS
<1>3. QED
  BY <1>1, <1>2, NearbyIsHeard, NearbyIsHeardNext

\* A step that keeps the channels, the links, and the places, targets and voice
\* of two people keeps what one is to be told of the other.
LEMMA LightKept ==
    ASSUME NEW l \in Client, NEW s \in Client,
           Nearby(s, l)' <=> Nearby(s, l),
           s \in talking' <=> s \in talking,
           l \in whisperIds'[s] <=> l \in whisperIds[s],
           whisperIds'[s] = {} <=> whisperIds[s] = {}
    PROVE  Light(s, l)' = Light(s, l)
<1>1. CASE s \notin talking
  BY <1>1 DEF Light
<1>2. CASE s \in talking /\ l \in whisperIds[s]
  BY <1>2 DEF Light
<1>3. CASE s \in talking /\ l \notin whisperIds[s]
  BY <1>3 DEF Light
<1>4. QED
  BY <1>1, <1>2, <1>3

Excused(l, s) ==
    /\ s \in talking
    /\ \/ where'[l] # where[l]
       \/ linkedChannels' # linkedChannels
       \/ where'[s] # where[s] /\ UNCHANGED shown
       \/ whisperIds[s] # {} /\ whisperIds'[s] = {}

\* The lamp of s at l was right and is wrong now.
GoesWrong(l, s) ==
    /\ l # s /\ {l, s} \subseteq Online'
    /\ shown[l][s] = Light(s, l) /\ shown'[l][s] # Light(s, l)'

\* When nothing was sent about s, there was something to send: s speaks, and
\* places, links or targets have changed.
LEMMA Unsent ==
    ASSUME TypeOK, NEW l \in Client, NEW s \in Client, GoesWrong(l, s),
           shown'[l][s] = shown[l][s], s \in talking' <=> s \in talking
    PROVE  /\ s \in talking
           /\ ~ /\ Nearby(s, l)' <=> Nearby(s, l)
                /\ l \in whisperIds'[s] <=> l \in whisperIds[s]
                /\ whisperIds'[s] = {} <=> whisperIds[s] = {}
<1>1. Light(s, l)' # Light(s, l)
  BY DEF GoesWrong
<1>2. s \notin talking => Light(s, l) = "dark" /\ Light(s, l)' = "dark"
  BY DEF Light
<1>3. QED
  BY <1>1, <1>2, LightKept

\* A step that moves i and tells of it goes wrong for listeners that move only.
LEMMA MovedAndTold ==
    ASSUME TypeOK, NEW l \in Client, NEW s \in Client, GoesWrong(l, s), NEW i \in Client,
           NEW ch \in Chan, where' = [where EXCEPT ![i] = ch],
           UNCHANGED <<talking, whisperIds, rooms, linkedChannels>>, TellIfTalking(i)
    PROVE  Excused(l, s)
<1>1. shown'[l][s] = IF i \in talking /\ s = i /\ l # i /\ l \in Online' THEN Light(i, l)'
                     ELSE shown[l][s]
  BY ToldIfTalking
<1>2. shown'[l][s] = shown[l][s] /\ (s = i => s \notin talking)
  BY <1>1 DEF GoesWrong
<1>3. s \in talking /\ ~(Nearby(s, l)' <=> Nearby(s, l))
  BY <1>2, Unsent
<1>4. where'[l] # where[l] \/ where'[s] # where[s]
  BY <1>3, NearbyKept
<1>5. where'[s] = where[s]
  BY <1>2, <1>3 DEF TypeOK
<1>6. QED
  BY <1>3, <1>4, <1>5 DEF Excused

LEMMA StaleStep ==
    ASSUME PlaceInv, [Next]_vars, NEW l \in Online, NEW s \in Online, GoesWrong(l, s)
    PROVE  Excused(l, s)
<1>0. TypeOK /\ TypeOK' /\ PlaceInv' /\ l \in Client /\ s \in Client /\ Nowhere \notin Chan
  BY PlaceStep, TalkAssumption DEF PlaceInv, Online, Nowhere, Chan
<1>1. ASSUME NEW c \in Client, Hello(c) PROVE Excused(l, s)
  <2>1. /\ shown'[l][s] = shown[l][s] /\ UNCHANGED <<talking, whisperIds, rooms, linkedChannels>>
        /\ where'[l] = where[l] /\ where'[s] = where[s]
    BY <1>0, <1>1 DEF Hello, TypeOK
  <2>2. QED
    BY <1>0, <2>1, NearbyKept, Unsent
<1>2. ASSUME NEW c \in Client, Leave(c) PROVE Excused(l, s)
  <2>1. l # c /\ s # c
    BY <1>0, <1>2 DEF Leave, Online, TypeOK, GoesWrong
  <2>2. /\ shown'[l][s] = shown[l][s] /\ UNCHANGED <<rooms, linkedChannels>>
        /\ s \in talking' <=> s \in talking
        /\ whisperIds'[s] = whisperIds[s] \ {c}
        /\ where'[l] = where[l] /\ where'[s] = where[s]
    BY <1>0, <1>2, <2>1 DEF Leave, TypeOK
  <2>3. s \in talking /\ ~(whisperIds'[s] = {} <=> whisperIds[s] = {})
    BY <1>0, <2>1, <2>2, NearbyKept, Unsent
  <2>4. QED
    BY <2>2, <2>3 DEF Excused
<1>3. ASSUME NEW c \in Client, NEW on \in BOOLEAN, Talking(c, on) PROVE Excused(l, s)
  <2>1. /\ UNCHANGED <<whisperIds, rooms, linkedChannels, where>>
        /\ talking' = IF on THEN talking \cup {c} ELSE talking \ {c}
    BY <1>3 DEF Talking, seatVars
  <2>2. CASE s = c /\ broadcastTalkingState(c)
    BY <1>0, <2>2, Told DEF GoesWrong
  <2>3. CASE ~(s = c /\ broadcastTalkingState(c))
    <3>1. shown'[l][s] = shown[l][s]
      BY <1>0, <1>3, <2>3, Told DEF Talking
    <3>2. s \in talking' <=> s \in talking
      BY <1>3, <2>1, <2>3 DEF Talking
    <3>3. QED
      BY <1>0, <2>1, <3>1, <3>2, NearbyKept, Unsent
  <2>4. QED
    BY <2>2, <2>3
<1>4. ASSUME NEW c \in Client, NEW I \in SUBSET Client, Whisper(c, I) PROVE Excused(l, s)
  <2>1. /\ UNCHANGED <<talking, rooms, linkedChannels, where>> /\ TellIfTalking(c)
        /\ s # c => whisperIds'[s] = whisperIds[s]
    BY <1>0, <1>4 DEF Whisper, seatVars, TypeOK
  <2>2. shown'[l][s] = IF c \in talking /\ s = c /\ l # c /\ l \in Online' THEN Light(c, l)'
                       ELSE shown[l][s]
    BY <1>0, <2>1, ToldIfTalking
  <2>3. shown'[l][s] = shown[l][s] /\ (s = c => s \notin talking)
    BY <2>2 DEF GoesWrong
  <2>4. QED
    BY <1>0, <2>1, <2>3, NearbyKept, Unsent
<1>5. ASSUME NEW c \in Client, WhisperRefused(c) PROVE Excused(l, s)
  <2>1. /\ UNCHANGED <<talking, rooms, linkedChannels, where, shown>>
        /\ whisperIds'[s] = IF s = c THEN {} ELSE whisperIds[s]
    BY <1>0, <1>5 DEF WhisperRefused, seatVars, TypeOK
  <2>2. s \in talking /\ whisperIds'[s] # whisperIds[s]
    BY <1>0, <2>1, NearbyKept, Unsent
  <2>3. QED
    BY <2>1, <2>2 DEF Excused
<1>6. ASSUME NEW c \in Client, NEW ch \in Chan, Move(c, ch) PROVE Excused(l, s)
  BY <1>0, <1>6, MovedAndTold DEF Move
<1>7. ASSUME NEW c \in Client, NEW ch \in Chan, MoveOther(c, ch) PROVE Excused(l, s)
  BY <1>0, <1>7, MovedAndTold DEF MoveOther
<1>8. ASSUME NEW c \in Client, KickFromChannel(c) PROVE Excused(l, s)
  <2>1. UNCHANGED <<talking, whisperIds, rooms, linkedChannels, shown>>
    BY <1>8 DEF KickFromChannel
  <2>2. s \in talking /\ (where'[l] # where[l] \/ where'[s] # where[s])
    BY <1>0, <2>1, NearbyKept, Unsent
  <2>3. QED
    BY <2>1, <2>2 DEF Excused
<1>9. ASSUME NEW ch \in Chan, ChanCreate(ch) PROVE Excused(l, s)
  <2>1. /\ UNCHANGED <<where, linkedChannels, talking, whisperIds, shown>>
        /\ ch \notin rooms /\ rooms' = rooms \cup {ch}
    BY <1>9 DEF ChanCreate
  <2>2. /\ where[s] \in rooms /\ where[l] \in rooms
        /\ \A x \in rooms : ch \notin linkedChannels[x] /\ x \notin linkedChannels[ch]
    BY <1>0, <2>1 DEF PlaceInv, TypeOK
  <2>3. where[l] \in Heard(rooms, linkedChannels, where[s])
        <=> where[l] \in Heard(rooms \cup {ch}, linkedChannels, where[s])
    BY <2>1, <2>2, HeardBeside
  <2>4. Nearby(s, l) <=> where[l] \in Heard(rooms, linkedChannels, where[s])
    BY <1>0, NearbyIsHeard DEF TypeOK
  <2>5. Nearby(s, l)' <=> where'[l] \in Heard(rooms', linkedChannels', where'[s])
    BY <1>0, NearbyIsHeardNext DEF TypeOK
  <2>6. Nearby(s, l)' <=> Nearby(s, l)
    BY <2>1, <2>3, <2>4, <2>5
  <2>7. QED
    BY <1>0, <2>1, <2>6, Unsent
<1>10. ASSUME NEW ch \in Chan, ChanRemove(ch) PROVE Excused(l, s)
  <2>1. /\ UNCHANGED <<talking, whisperIds, shown>>
        /\ ch \in rooms /\ rooms' = rooms \ {ch}
        /\ linkedChannels' = [d \in Chan |-> IF d = ch THEN {} ELSE linkedChannels[d] \ {ch}]
    BY <1>10 DEF ChanRemove
  <2>2. s \in talking /\ ~(Nearby(s, l)' <=> Nearby(s, l))
    BY <1>0, <2>1, Unsent
  <2>3. ASSUME UNCHANGED linkedChannels, where'[l] = where[l], where'[s] = where[s] PROVE FALSE
    <3>1. /\ ch \notin rooms' /\ rooms = rooms' \cup {ch}
          /\ where[s] \in rooms' /\ where[l] \in rooms'
      BY <1>0, <2>1, <2>3 DEF PlaceInv, GoesWrong
    <3>2. linkedChannels[ch] = {} /\ \A x \in Chan : ch \notin linkedChannels[x]
      BY <1>0, <2>1, <2>3 DEF TypeOK
    <3>3. \A x \in rooms' : ch \notin linkedChannels[x] /\ x \notin linkedChannels[ch]
      BY <1>0, <3>2 DEF TypeOK
    <3>4. where[l] \in Heard(rooms', linkedChannels, where[s])
          <=> where[l] \in Heard(rooms' \cup {ch}, linkedChannels, where[s])
      BY <3>1, <3>3, HeardBeside
    <3>5. Nearby(s, l) <=> where[l] \in Heard(rooms, linkedChannels, where[s])
      BY <1>0, NearbyIsHeard DEF TypeOK
    <3>6. Nearby(s, l)' <=> where'[l] \in Heard(rooms', linkedChannels', where'[s])
      BY <1>0, NearbyIsHeardNext DEF TypeOK
    <3>7. QED
      BY <2>2, <2>3, <3>1, <3>4, <3>5, <3>6
  <2>4. QED
    BY <2>1, <2>2, <2>3 DEF Excused
<1>11. ASSUME NEW ids \in SUBSET Chan, NEW link \in BOOLEAN, ChanLink(ids, link)
       PROVE  Excused(l, s)
  <2>1. UNCHANGED <<talking, whisperIds, rooms, where, shown>>
    BY <1>11 DEF ChanLink
  <2>2. s \in talking /\ linkedChannels' # linkedChannels
    BY <1>0, <2>1, NearbyKept, Unsent
  <2>3. QED
    BY <2>2 DEF Excused
<1>12. ASSUME NEW c \in Client, NEW ch \in Chan, RightsChange(c, ch) PROVE Excused(l, s)
  BY <1>0, <1>12, NearbyKept, Unsent DEF RightsChange, seatVars
<1>13. CASE UNCHANGED vars
  BY <1>0, <1>13, NearbyKept, Unsent DEF vars, seatVars
<1>14. QED
  BY <1>1, <1>2, <1>3, <1>4, <1>5, <1>6, <1>7, <1>8, <1>9, <1>10, <1>11, <1>12, <1>13 DEF Next

\* StaleOnlyBy: a lamp goes wrong only when the listener moves, links change,
\* the speaker is moved without a word, or its whisper ends.
THEOREM StaleLampsExplained == Spec => StaleOnlyBy
<1>1. ASSUME PlaceInv, [Next]_vars
      PROVE  [\A l, s \in Online :
                 l # s /\ {l, s} \subseteq Online' /\ shown[l][s] = Light(s, l)
                       /\ shown'[l][s] # Light(s, l)'
                 => /\ s \in talking
                    /\ \/ where'[l] # where[l]
                       \/ linkedChannels' # linkedChannels
                       \/ where'[s] # where[s] /\ UNCHANGED shown
                       \/ whisperIds[s] # {} /\ whisperIds'[s] = {}]_vars
  BY <1>1, StaleStep DEF GoesWrong, Excused
<1>2. QED
  BY <1>1, PlaceInit, PlaceStep, PTL DEF Spec, StaleOnlyBy

-----------------------------------------------------------------------------
(* Talk implements Roster *)

\* A session is an entry of the user list, and its id names it while it lasts.
R == INSTANCE Roster WITH Uid <- Client, place <- where

LEMMA RosterKept ==
    ASSUME UNCHANGED <<where, rooms>>
    PROVE  UNCHANGED R!rosterVars
  BY DEF R!rosterVars

\* A session goes to a channel that exists, of its own will or by another's.
LEMMA RosterWalked ==
    ASSUME NEW c \in Client, NEW ch \in rooms, ch \in Chan, c \in Online,
           where' = [where EXCEPT ![c] = ch], UNCHANGED rooms
    PROVE  R!RosterNext
<1>1. R!Walk(c, ch)
  BY DEF R!Walk, R!Offline, Online, Nowhere
<1>2. QED
  BY <1>1 DEF R!RosterNext, R!Chan, Chan

LEMMA RosterStep == PlaceInv /\ [Next]_vars => R!RosterNext \/ UNCHANGED R!rosterVars
<1> SUFFICES ASSUME PlaceInv, [Next]_vars PROVE R!RosterNext \/ UNCHANGED R!rosterVars
  OBVIOUS
<1>0. /\ TypeOK /\ Lobby \in rooms /\ Lobby \in Chan /\ Lobby = R!Lobby /\ Chan = R!Chan
      /\ Nowhere = R!Offline
  BY TalkAssumption DEF PlaceInv, TypeOK, Chan, R!Chan, Lobby, R!Lobby, Nowhere, R!Offline
<1>1. ASSUME NEW c \in Client, Hello(c) PROVE R!RosterNext
  <2>1. R!Arrive(c)
    BY <1>0, <1>1 DEF Hello, R!Arrive
  <2>2. QED
    BY <2>1 DEF R!RosterNext
<1>2. ASSUME NEW c \in Client, Leave(c) PROVE R!RosterNext
  <2>1. where' = [d \in Client |-> IF d \in {c} THEN R!Offline ELSE where[d]]
    BY <1>0, <1>2 DEF Leave, TypeOK
  <2>2. R!Depart({c}, {})
    BY <1>2, <2>1 DEF Leave, R!Depart
  <2>3. QED
    BY <2>2 DEF R!RosterNext
<1>3. ASSUME NEW c \in Client, NEW ch \in Chan, Move(c, ch) \/ MoveOther(c, ch) PROVE R!RosterNext
  BY <1>3, RosterWalked DEF Move, MoveOther
<1>4. ASSUME NEW c \in Client, KickFromChannel(c) PROVE R!RosterNext
  BY <1>0, <1>4, RosterWalked DEF KickFromChannel
<1>5. ASSUME NEW ch \in Chan, ChanCreate(ch) PROVE R!RosterNext
  <2>1. R!Found(ch)
    BY <1>0, <1>5 DEF ChanCreate, R!Found
  <2>2. QED
    BY <1>0, <2>1 DEF R!RosterNext
<1>6. ASSUME NEW ch \in Chan, ChanRemove(ch) PROVE R!RosterNext
  <2>1. R!Demolish(ch)
    BY <1>0, <1>6 DEF ChanRemove, R!Demolish
  <2>2. QED
    BY <1>0, <2>1 DEF R!RosterNext
<1>7. ASSUME NEW c \in Client,
             \/ \E on \in BOOLEAN : Talking(c, on)
             \/ \E I \in SUBSET Client : Whisper(c, I)
             \/ WhisperRefused(c)
             \/ \E ch \in Chan : RightsChange(c, ch)
      PROVE  UNCHANGED R!rosterVars
  BY <1>7, RosterKept DEF Talking, Whisper, WhisperRefused, RightsChange, seatVars
<1>8. ASSUME NEW ids \in SUBSET Chan, NEW link \in BOOLEAN, ChanLink(ids, link)
      PROVE  UNCHANGED R!rosterVars
  BY <1>8, RosterKept DEF ChanLink
<1>9. CASE UNCHANGED vars
  BY <1>9, RosterKept DEF vars, seatVars
<1>10. QED
  BY <1>1, <1>2, <1>3, <1>4, <1>5, <1>6, <1>7, <1>8, <1>9 DEF Next

\* What Talk keeps of seats and channels is a user list as Roster has it, which
\* is what Sessions implements too: the two modules describe the same moves.
THEOREM TalkImplementsRoster == Spec => R!RosterSpec
<1>1. Init => R!RosterInit
  BY DEF Init, R!RosterInit, Nowhere, R!Offline, Lobby, R!Lobby
<1>2. PlaceInv /\ [Next]_vars => [R!RosterNext]_(R!rosterVars)
  BY RosterStep
<1>3. QED
  BY <1>1, <1>2, PlaceInit, PlaceStep, PTL DEF Spec, R!RosterSpec

\* relayVoice relays between people online only, and everybody online, which is
\* whoever may hear or be heard, sits in a channel that exists.
THEOREM SeatsExist == Spec => [](\A c \in Online : where[c] \in rooms)
<1>1. PlaceInv => \A c \in Online : where[c] \in rooms
  BY DEF PlaceInv
<1>2. QED
  BY <1>1, PlaceInit, PlaceStep, PTL DEF Spec

-----------------------------------------------------------------------------
(* Conversations *)

\* Channels again, with what is proved about it.
C == INSTANCE ChannelsProofs WITH
    type <- [ch \in Chan |-> IF ch \in rooms THEN "kept" ELSE "none"],
    parent <- [ch \in Chan |-> 0], tempChannelParent <- {}, nextChan <- 2,
    cache <- [ch \in Chan |-> {}], cacheIsOld <- TRUE, restarts <- 0, MaxRestarts <- 0

\* Who hears a channel hears it the other way, whatever links there are.
LEMMA NearbyIsMutual ==
    ASSUME TypeOK, NEW s \in Client, NEW l \in Client, where[s] \in rooms, Nearby(s, l)
    PROVE  Nearby(l, s)
<1>1. MaxChan \in Nat \ {0} /\ 0 \in Nat
  BY TalkAssumption
<1>2. C!Exists = Tree!Exists /\ where[s] \in C!Exists
  BY DEF C!Exists, Tree!Exists, C!Chan, Tree!Chan, Chan, TypeOK
<1>3. \A ch : C!Component(ch) = Tree!Component(ch)
  BY <1>2 DEF C!Component, Tree!Component, C!Linked, Tree!Linked
<1>4. where[l] \in C!Component(where[s])
  BY <1>3 DEF Nearby
<1>5. C!Component(where[l]) = C!Component(where[s])
  BY <1>1, <1>2, <1>4, C!VoiceIsMutual DEF C!MutualVoice
<1>6. where[s] \in C!Component(where[s])
  BY <1>1, <1>2, C!ComponentIsLeast
<1>7. QED
  BY <1>3, <1>5, <1>6 DEF Nearby

\* Two people who speak to their channel, may talk where they are and may listen
\* there hear each other or neither hears the other: relayVoice leaves nobody
\* answering into the void, whatever channels were linked and deleted.
THEOREM VoiceIsAnswered ==
    Spec => [](\A s, l \in Online :
                  /\ whisperIds[s] = {} /\ whisperIds[l] = {}
                  /\ canTalkIn(s) /\ canTalkIn(l)
                  /\ <<s, where[s]>> \notin deaf /\ <<l, where[l]>> \notin deaf
                  => (Reaches(s, l) <=> Reaches(l, s)))
<1>1. PlaceInv => \A s, l \in Online : Nearby(s, l) <=> Nearby(l, s)
  BY NearbyIsMutual DEF PlaceInv, Online
<1>2. PlaceInv =>
         \A s, l \in Online :
            /\ whisperIds[s] = {} /\ whisperIds[l] = {}
            /\ canTalkIn(s) /\ canTalkIn(l)
            /\ <<s, where[s]>> \notin deaf /\ <<l, where[l]>> \notin deaf
            => (Reaches(s, l) <=> Reaches(l, s))
  BY <1>1 DEF Reaches
<1>3. QED
  BY <1>2, PlaceInit, PlaceStep, PTL DEF Spec

=============================================================================
