---------------------------- MODULE SessionsMC ----------------------------
(* Instances of Sessions for TLC. *)
EXTENDS Sessions, TLC

NoLimit == {Unlimited}

OneIp == [c \in Conn |-> CHOOSE ip \in Ip : TRUE]

Symmetry == Permutations(Conn) \cup Permutations(Uid) \cup Permutations(Nick)

\* One connection comes from an address of its own.
TwoIps == LET first == CHOOSE c \in Conn : TRUE
              home == CHOOSE ip \in Ip : TRUE
          IN  [c \in Conn |-> IF c = first THEN home
                              ELSE CHOOSE ip \in Ip : ip # home]

\* Enough to fill a channel: nobody leaves and nobody is banned.
NobodyLeaves == bans = {} /\ \A c \in Conn : phase[c] \in {"free", "open"}

\* Bans and whispers are the subject of another run: here one is made, and no
\* further step.  One handshake at a time; at most one session reads nothing
\* more, and that one has no use for the hello that it left pending.  At most two
\* sessions are on their way out, and only one of them can be one that a table
\* still leads to, so that it is never freed.
Alone ==
    /\ bans = {}
    /\ Cardinality({c \in Conn : pending[c] # None}) <= 1
    /\ Cardinality({c \in Conn : phase[c] = "draining"}) <= 1
    /\ \A c \in Conn : phase[c] = "draining" => pending[c] = None
    /\ \A c \in Conn : whisperIds[c] = {}
    /\ Cardinality({c \in Conn : phase[c] \in {"draining", "closing"}}) <= 2
    /\ Cardinality({c \in ObjectsOf(Live) \cup byVoiceToken : phase[c] = "closing"}) <= 1

\* At most one ban entry at a time.
FewBans == Cardinality(bans) <= 1

\* One handshake at a time, and a session that reads nothing more has said no
\* hello; while there is a ban no channel but the lobby was created.
OneByOne ==
    /\ FewBans
    /\ Cardinality({c \in Conn : pending[c] # None}) <= 1
    /\ \A c \in Conn : phase[c] = "draining" => pending[c] = None
    /\ bans = {} \/ nextChan = 2

=============================================================================
