---------------------------- MODULE ChannelsMC ----------------------------
(* Instances of Channels for TLC. *)
EXTENDS Channels

\* No condition of the code reads both the tree and the links, so behaviours
\* go on from a tree of up to four channels without links, or from up to three
\* channels with links outside a tree, at most two components being cached.
Apart == \/ \A ch \in Chan : linkedChannels[ch] = {} /\ cache[ch] = {}
         \/ /\ nextChan <= 4
            /\ tempChannelParent = {}
            /\ \A ch \in Chan : parent[ch] = Root
            /\ Cardinality({ch \in Chan : cache[ch] # {}}) <= 2

=============================================================================
