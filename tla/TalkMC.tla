------------------------------- MODULE TalkMC -------------------------------
(* Instances of Talk for TLC. *)
EXTENDS Talk, TLC

Sessions == Permutations(Client)

\* At most one permission is missing, and at most one person speaks or
\* whispers: lamps for two speakers have nothing to do with each other.
OneVoice ==
    /\ Cardinality(mute) + Cardinality(deaf) <= 1
    /\ Cardinality(talking \cup {c \in Client : whisperIds[c] # {}}) <= 1

=============================================================================
