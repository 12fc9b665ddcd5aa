------------------------------ MODULE WgRoster -------------------------------
(***************************************************************************)
(* What the configuration of one WireGuard device promises, whatever the  *)
(* wire format: a roster that maps each peer's public key to the set of    *)
(* allowed-IP prefixes routed to it, and the device's own public key.      *)
(* Every change an observer can see between two steps is one of:          *)
(*   - one peer block applied: the peer is created or updated, its        *)
(*     prefixes optionally replaced, and some prefixes handed over to it   *)
(*     from whichever peer held them (a failing block applies only part    *)
(*     of its prefixes: spec 4.5 partial application);                     *)
(*   - one peer removed;                                                   *)
(*   - every peer removed (WGDEVICE_F_REPLACE_PEERS);                      *)
(*   - a new identity installed, once no peer carries its public key, and  *)
(*     every peer unusable under it dropped.                               *)
(***************************************************************************)
EXTENDS FiniteSets

CONSTANTS
  PeerKeys,   \* peer public keys
  Prefixes,   \* allowed-IP prefixes
  LowOrder,   \* keys no handshake can be computed with
  NoKey       \* "the device has no identity"

VARIABLES
  roster,     \* [keys of the peers -> SUBSET Prefixes]
  id          \* the device's public key, or NoKey

rosterVars == <<roster, id>>

\* A peer with key k can exist under the identity.
Usable(k) == id = NoKey \/ (k # id /\ k \notin LowOrder)

Init ==
  /\ roster = [k \in {} |-> {}]
  /\ id = NoKey

\* A peer block: peer k, created if it is new, ends up routing some set of
\* prefixes, each taken over from whichever peer held it.  Whether the block
\* replaced k's prefixes or added to them, and how many of its own it got
\* through before failing, only decide which set that is.
ApplyBlock(k) ==
  /\ Usable(k)
  /\ k \in DOMAIN roster'
  /\ roster' = [j \in DOMAIN roster \cup {k} |->
                  IF j = k THEN roster'[k] ELSE roster[j] \ roster'[k]]
  /\ UNCHANGED id

RemovePeer(k) ==
  /\ k \in DOMAIN roster
  /\ k \notin DOMAIN roster'
  /\ roster' = [j \in DOMAIN roster \ {k} |-> roster[j]]
  /\ UNCHANGED id

RemoveAll ==
  /\ roster' = [k \in {} |-> {}]
  /\ UNCHANGED id

InstallIdentity(new) ==
  /\ id' = new
  /\ new \notin DOMAIN roster
  /\ roster' = [j \in {k \in DOMAIN roster :
                         new = NoKey \/ (k # new /\ k \notin LowOrder)} |->
                  roster[j]]

Next ==
  \/ \E k \in PeerKeys : ApplyBlock(k)
  \/ \E k \in PeerKeys : RemovePeer(k)
  \/ RemoveAll
  \/ \E new \in PeerKeys \cup {NoKey} : InstallIdentity(new)

Spec == Init /\ [][Next]_rosterVars
=============================================================================
