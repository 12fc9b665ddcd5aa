----------------------------- MODULE MC_WgBatch ------------------------------
(* Model values for WgBatch: those of MC_WgNetlink.                        *)
EXTENDS WgBatch, TLC

CONSTANTS o1, o2, k1, k2, k3, a, z, p1, p2, x1, x2

MCPeerIds == {o1, o2}
MCPeerKeys == {k1, k2, k3}
MCPrivKeys == {a, z}
MCPubOf == (a :> k1) @@ (z :> NoKey)
MCLowOrder == {k3}
MCPrefixSeq == <<p1, p2>>
MCDumps1 == {x1}
=============================================================================
