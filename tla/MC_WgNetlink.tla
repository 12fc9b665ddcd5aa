--------------------------- MODULE MC_WgNetlink -----------------------------
(***************************************************************************)
(* Model values and bounds for checking WgNetlink with TLC.                *)
(*   two peer objects, three peer keys: k1 is the public key of private    *)
(*   key a, k3 is of low order; private key z is the all-zero key for      *)
(*   which curve25519_generate_public fails;                               *)
(*   two prefixes, so that one peer's allowed IPs can span two messages.   *)
(***************************************************************************)
EXTENDS WgNetlink, TLC

CONSTANTS o1, o2, k1, k2, k3, a, z, p1, p2, x1, x2

MCPeerIds == {o1, o2}
MCPeerKeys == {k1, k2, k3}
MCPrivKeys == {a, z}
MCPubOf == (a :> k1) @@ (z :> NoKey)
MCLowOrder == {k3}
MCPrefixSeq == <<p1, p2>>
MCDumps1 == {x1}

=============================================================================
