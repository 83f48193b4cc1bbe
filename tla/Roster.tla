------------------------------- MODULE Roster -------------------------------
(***************************************************************************)
(* What the session and channel bookkeeping of the server promises to      *)
(* everybody who looks at the user list: an identity is offline or sits in *)
(* exactly one channel, that channel exists, and only a few kinds of       *)
(* change can happen.  No session, id, cache or list appears here; the     *)
(* module Sessions is shown to implement it.                               *)
(***************************************************************************)
EXTENDS Naturals

CONSTANTS Uid,        \* identities
          MaxChan     \* bound on channel ids

Chan == 1..MaxChan
Lobby == 1            \* the default channel
Offline == 0

VARIABLES place,      \* where each identity is
          rooms       \* the channels that exist

rosterVars == <<place, rooms>>

RosterTypeOK == /\ place \in [Uid -> Chan \cup {Offline}]
                /\ rooms \in SUBSET Chan

RosterInit == /\ place = [u \in Uid |-> Offline]
              /\ rooms = {Lobby}

(* A login, whether or not the identity was already online elsewhere. *)
Arrive(u) == /\ place' = [place EXCEPT ![u] = Lobby]
             /\ UNCHANGED rooms

(* Some identities leave, and then some channels close; a closing channel  *)
(* has nobody in it.                                                       *)
Depart(gone, closed) ==
    /\ Lobby \notin closed
    /\ place' = [u \in Uid |-> IF u \in gone THEN Offline ELSE place[u]]
    /\ rooms' = rooms \ closed
    /\ \A u \in Uid : place'[u] \notin closed

(* One identity that is online changes channel. *)
Walk(u, ch) == /\ place[u] # Offline
               /\ ch \in rooms
               /\ place' = [place EXCEPT ![u] = ch]
               /\ UNCHANGED rooms

Found(ch) == /\ ch \in Chan \ rooms
             /\ rooms' = rooms \cup {ch}
             /\ UNCHANGED place

(* A channel is deleted: everybody in it falls back to the lobby. *)
Demolish(ch) ==
    /\ ch \in rooms \ {Lobby}
    /\ rooms' = rooms \ {ch}
    /\ place' = [u \in Uid |-> IF place[u] = ch THEN Lobby ELSE place[u]]

RosterNext ==
    \/ \E u \in Uid : Arrive(u)
    \/ \E gone \in SUBSET Uid, closed \in SUBSET Chan : Depart(gone, closed)
    \/ \E u \in Uid, ch \in Chan : Walk(u, ch)
    \/ \E ch \in Chan : Found(ch) \/ Demolish(ch)

RosterSpec == RosterInit /\ [][RosterNext]_rosterVars

=============================================================================
