------------------------------ MODULE WgDevice ------------------------------
(***************************************************************************)
(* The state of one WireGuard device as the netlink control plane          *)
(* (src/src/netlink.c) sees it, and the collaborator operations that       *)
(* netlink.c calls on it: peer lookup, creation, removal and reference     *)
(* counting (peer.c), the allowed-IPs table (allowedips.c) and the static  *)
(* identity (noise.c).  Those collaborators are not under src/, so their   *)
(* definitions here follow spec.md and are marked spec-modelled in         *)
(* PROJECT.json.                                                           *)
(*                                                                         *)
(* The device is one record variable so that a handler, which runs a      *)
(* sequence of such calls under the device lock, is written as the        *)
(* composition of the operators below.                                     *)
(***************************************************************************)
EXTENDS Naturals, Sequences, FiniteSets

CONSTANTS
  PeerIds,    \* the memory a struct wg_peer can live in (allocation pool)
  PeerKeys,   \* peer public keys (model values)
  PrivKeys,   \* device private keys that a request may carry
  PubOf,      \* curve25519_generate_public: PrivKeys -> PeerKeys \cup {NoKey}
  LowOrder,   \* public keys whose static-static precomputation fails
  PrefixSeq,  \* allowed-IP prefixes, in the order the trie walk visits them
  NoPeer,     \* the NULL peer pointer
  NoKey       \* "no identity": generate_public failed / never set

Prefixes == {PrefixSeq[i] : i \in DOMAIN PrefixSeq}

ASSUME /\ NoPeer \notin PeerIds
       /\ NoKey \notin PeerKeys
       /\ PubOf \in [PrivKeys -> PeerKeys \cup {NoKey}]
       /\ LowOrder \subseteq PeerKeys
       /\ Cardinality(Prefixes) = Len(PrefixSeq)

VARIABLE dev

\* What freed memory held is of no further meaning; it reads as this key.
FreedKey == CHOOSE k \in PeerKeys : TRUE

(***************************************************************************)
(* dev.list     wg->peer_list, in insertion order (list_add_tail)          *)
(* dev.key      each peer object's handshake.remote_static                 *)
(* dev.refs     each peer object's kref; 0 means the memory is free        *)
(* dev.aips     wg->peer_allowedips: the peer each prefix routes to        *)
(* dev.fresh    the dumps whose allowed-IPs walk cursor still carries the  *)
(*              table's seq: every modification bumps the seq, so it       *)
(*              empties this set, and a walk that starts records the seq   *)
(* dev.gen      wg->device_update_gen                                      *)
(* dev.hasId    wg->static_identity.has_identity                           *)
(* dev.pub      wg->static_identity.static_public                          *)
(* dev.locked   rtnl_lock + wg->device_update_lock held by set_device      *)
(* dev.holds    the net_device references (dev_hold) netlink handlers keep *)
(***************************************************************************)
DevInit ==
  dev = [list   |-> <<>>,
         key    |-> [o \in PeerIds |-> FreedKey],
         refs   |-> [o \in PeerIds |-> 0],
         aips   |-> [p \in Prefixes |-> NoPeer],
         fresh  |-> {},
         gen    |-> 0,
         hasId  |-> FALSE,
         pub    |-> NoKey,
         locked |-> FALSE,
         holds  |-> 0]

Listed(d) == {d.list[i] : i \in DOMAIN d.list}

FreeIds(d) == {o \in PeerIds : d.refs[o] = 0}

\* wg_pubkey_hashtable_lookup: the listed peer with public key k, or NULL.
\* The lookup takes a reference (wg_peer_get_maybe_zero); see PeerGet.
PubkeyLookup(d, k) ==
  IF \E o \in Listed(d) : d.key[o] = k
  THEN CHOOSE o \in Listed(d) : d.key[o] = k
  ELSE NoPeer

\* wg_peer_get / wg_peer_put; both accept NULL.  A put that reaches zero
\* frees the object (kref_release), which makes its id free again.
PeerGet(d, o) == IF o = NoPeer THEN d ELSE [d EXCEPT !.refs[o] = @ + 1]

\* One wg_peer_put on each peer of the set S.
PutEach(d, S) ==
  [d EXCEPT !.refs = [o \in PeerIds |-> IF o \in S THEN @[o] - 1 ELSE @[o]],
            !.key  = [o \in PeerIds |->
                        IF o \in S /\ d.refs[o] = 1 THEN FreedKey ELSE @[o]]]

PeerPut(d, o) == IF o = NoPeer THEN d ELSE PutEach(d, {o})

\* The prefixes routed to peer o, in walk order.
PrefixesOf(d, o) == SelectSeq(PrefixSeq, LAMBDA p : d.aips[p] = o)

\* A walk that does not compare the node's peer with o: every entry goes.
RemoveByPeerAny(d, o) ==
  [d EXCEPT !.fresh = {}, !.aips = [p \in Prefixes |-> NoPeer]]

\* wg_allowedips_remove_by_peer: bumps the table seq, drops o's prefixes.
RemoveByPeer(d, o) ==
  [d EXCEPT !.fresh = {},
            !.aips = [p \in Prefixes |-> IF @[p] = o THEN NoPeer ELSE @[p]]]

\* wg_allowedips_insert_v4/_v6 of a valid prefix: bumps the seq; an
\* existing node for the same prefix is handed over to the new peer.
InsertPrefix(d, p, o) == [d EXCEPT !.fresh = {}, !.aips[p] = o]

\* wg_peer_create: allocation, handshake init (which fails for a low-order
\* key once the device has an identity), list_add_tail, kref_init.
CanCreate(d, o, k) ==
  /\ o \in FreeIds(d)
  /\ ~(d.hasId /\ k \in LowOrder)

PeerCreate(d, o, k) ==
  [d EXCEPT !.list = Append(@, o), !.key[o] = k, !.refs[o] = 1]

\* wg_peer_remove on each peer of the set S: list_del_init, allowed-IPs
\* removal (which bumps the table seq), hashtable removal, then the put of
\* the reference the list held.
RemoveEach(d, S) ==
  PutEach([d EXCEPT !.list  = SelectSeq(@, LAMBDA x : x \notin S),
                    !.aips  = [p \in Prefixes |-> IF @[p] \in S THEN NoPeer ELSE @[p]],
                    !.fresh = IF S = {} THEN @ ELSE {}], S)

PeerRemove(d, o) == RemoveEach(d, {o})

\* wg_peer_remove_all: removes every listed peer.
PeerRemoveAll(d) == RemoveEach(d, Listed(d))

\* wg_noise_set_static_identity_private_key followed by the
\* wg_noise_precompute_static_static loop of set_device: peers whose
\* precomputation fails under the new identity are removed.
SetStaticIdentity(d, priv) ==
  LET d1 == [d EXCEPT !.hasId = PubOf[priv] # NoKey, !.pub = PubOf[priv]]
  IN  RemoveEach(d1, {o \in Listed(d1) : d1.hasId /\ d1.key[o] \in LowOrder})
=============================================================================
