------------------------------- MODULE WgSet --------------------------------
(***************************************************************************)
(* The mutation engine of WG_CMD_SET_DEVICE: set_device, set_socket,       *)
(* set_peer and set_allowedip.  A request holds the device lock from its   *)
(* generation bump to its return; its steps are separate actions where    *)
(* the data path (which reads the identity and the peer table without the *)
(* device lock) could observe the state between them: the collider        *)
(* removal and the identity change of a private-key update, and each peer *)
(* block.                                                                  *)
(*                                                                         *)
(* Data no property tells apart (fwmark, port, endpoint, keepalive, key    *)
(* bytes) is left out; the control flow of their handling is kept.         *)
(***************************************************************************)
EXTENDS WgResolver

CONSTANTS
  MaxGen,     \* bound on accepted set_device requests
  GenWidth,   \* bits of device_update_gen (an unsigned int)
  MaxBlocks,  \* bound on peer blocks in one request
  MaxIPs,     \* bound on allowed IPs in one peer block
  BadPrefix,  \* an allowed IP whose family/cidr/length set_allowedip rejects
  Absent,     \* an attribute the request does not carry
  WithPsk     \* requests may carry preshared keys (only KeysWipedOnReturn
              \* reads them; other runs send peer blocks without one)

ASSUME /\ MaxGen \in Nat /\ MaxBlocks \in Nat /\ MaxIPs \in Nat
       /\ GenWidth \in Nat \ {0}
       /\ WithPsk \in BOOLEAN
       /\ BadPrefix \notin Prefixes
       /\ Absent \notin PrivKeys

VARIABLES
  mpc,      \* "idle" | "key" | "identity" | "peers" | "out"
  req,      \* the request: number of peer blocks, private key attribute
  nextBlk,  \* index of the next peer block (nla_for_each_nested)
  pskLive,  \* peer blocks whose preshared-key bytes are still in the buffer
  accepted, \* requests that took the lock so far (bounded by MaxGen)
  ret       \* what set_device returns from out: "ok" (0), "socket"
            \* (set_socket), "parse" (nla_parse_nested), "peer" (set_peer)

setVars == <<mpc, req, nextBlk, pskLive, accepted, ret>>

SetInit ==
  /\ mpc = "idle"
  /\ req = [n |-> 0, priv |-> Absent]
  /\ nextBlk = 1
  /\ pskLive = {}
  /\ accepted = 0
  /\ ret = "ok"

(***************************************************************************)
(* A peer block after nla_parse_nested.  `valid` is FALSE when set_peer   *)
(* rejects it before the lookup: public key missing or of wrong length    *)
(* (-EINVAL), or protocol version other than 1 (-EPFNOSUPPORT).           *)
(***************************************************************************)
IPLists == UNION {[1..m -> Prefixes \cup {BadPrefix}] : m \in 0..MaxIPs}

Blocks ==
  {[valid |-> FALSE, pk |-> CHOOSE k \in PeerKeys : TRUE,
    remove |-> FALSE, replace |-> FALSE, ips |-> <<>>]}
  \cup [valid : {TRUE}, pk : PeerKeys, remove : {TRUE},
        replace : {FALSE}, ips : {<<>>}]
  \cup [valid : {TRUE}, pk : PeerKeys, remove : {FALSE},
        replace : BOOLEAN, ips : IPLists]

(***************************************************************************)
(* The nla_for_each_nested loop of set_peer over the allowed IPs: each is  *)
(* inserted in turn; a rejected one stops the loop with -EINVAL and the    *)
(* ones before it stay inserted.                                           *)
(***************************************************************************)
RECURSIVE SetAllowedIPs(_, _, _)
SetAllowedIPs(d, o, ips) ==
  IF ips = <<>> THEN [dev |-> d, ok |-> TRUE]
  ELSE IF Head(ips) = BadPrefix THEN [dev |-> d, ok |-> FALSE]
  ELSE SetAllowedIPs(InsertPrefix(d, Head(ips), o), o, Tail(ips))

(***************************************************************************)
(* set_peer(wg, attrs) for block b, with `o` the memory wg_peer_create     *)
(* would get (NoPeer: the allocation fails).  Result: the device after the *)
(* final wg_peer_put, and whether set_peer returned 0.                     *)
(***************************************************************************)
SetPeer(d, b, o) ==
  LET found == PubkeyLookup(d, b.pk)
      self  == d.hasId /\ b.pk = d.pub
      \* the peer the rest of set_peer works on, holding the lookup ref
      d1 == IF found # NoPeer THEN PeerGet(d, found)
            ELSE PeerGet(PeerCreate(d, o, b.pk), o)
      p  == IF found # NoPeer THEN found ELSE o
      d2 == IF b.replace THEN RemoveByPeer(d1, p) ELSE d1
      s  == SetAllowedIPs(d2, p, b.ips)
  IN  CASE ~b.valid                               -> [dev |-> d, ok |-> FALSE]
        [] found = NoPeer /\ b.remove             -> [dev |-> d, ok |-> FALSE]
        [] found = NoPeer /\ self                 -> [dev |-> d, ok |-> TRUE]
        [] found = NoPeer /\ ~CanCreate(d, o, b.pk) -> [dev |-> d, ok |-> FALSE]
        [] b.remove -> [dev |-> PeerPut(PeerRemove(d1, p), p), ok |-> TRUE]
        [] OTHER    -> [dev |-> PeerPut(s.dev, p), ok |-> s.ok]

(***************************************************************************)
(* set_device up to the private key: Resolve (a failure returns before    *)
(* the lock, wiping only the private key; the device reference is kept   *)
(* until out:), then under the lock: ++device_update_gen, fwmark,         *)
(* set_socket (whose failure jumps to out), WGDEVICE_F_REPLACE_PEERS.      *)
(***************************************************************************)
\* The peer blocks of a request that carry WGPEER_A_PRESHARED_KEY.
PskChoices == IF WithPsk THEN SUBSET (1..MaxBlocks) ELSE {{}}

SetDeviceStart ==
  /\ mpc = "idle"
  /\ nextBlk' = 1
  /\ \E net \in NetInputs, capable \in BOOLEAN, devIn \in DevInputs,
        psk \in PskChoices :
       LET r == Resolve(net, capable, TRUE, devIn)
       IN
       /\ pskLive' = psk
       /\ \/ /\ ~r.ok                        \* out_nodev, out_nonet: no lock
             /\ dev' = [dev EXCEPT !.holds = @ + r.held]
             /\ UNCHANGED <<mpc, req, accepted, ret>>
          \/ /\ r.ok
             /\ accepted < MaxGen
             /\ accepted' = accepted + 1
             /\ \E n \in 0..MaxBlocks, priv \in PrivKeys \cup {Absent},
                   replacePeers \in BOOLEAN, socketOk \in BOOLEAN :
                  LET d1 == [dev EXCEPT !.gen = (@ + 1) % 2^GenWidth,
                                        !.locked = TRUE, !.holds = @ + r.held]
                  IN
                  /\ psk \subseteq 1..n
                  /\ req' = [n |-> n, priv |-> priv]
                  /\ IF ~socketOk
                     THEN /\ dev' = d1
                          /\ mpc' = "out"
                          /\ ret' = "socket"
                     ELSE /\ dev' = IF replacePeers THEN PeerRemoveAll(d1) ELSE d1
                          /\ mpc' = IF priv = Absent THEN "peers" ELSE "key"
                          /\ UNCHANGED ret

\* Mutant: the private key is installed without removing the collider.
RemoveColliderSkipped ==
  /\ mpc = "key"
  /\ mpc' = "identity"
  /\ UNCHANGED <<dev, req, nextBlk, pskLive, accepted, ret>>

(***************************************************************************)
(* Private key, first half: the peer whose public key the new private key *)
(* yields is looked up and removed before the identity is set.            *)
(***************************************************************************)
RemoveCollider ==
  LET pub == PubOf[req.priv]
      p   == IF pub = NoKey THEN NoPeer ELSE PubkeyLookup(dev, pub)
  IN  /\ mpc = "key"
      /\ dev' = IF p = NoPeer THEN dev
                ELSE PeerRemove(PeerPut(PeerGet(dev, p), p), p)
      /\ mpc' = "identity"
      /\ UNCHANGED <<req, nextBlk, pskLive, accepted, ret>>

(***************************************************************************)
(* Private key, second half, under static_identity.lock: set the identity,*)
(* precompute static-static for every peer and remove those that fail,     *)
(* recompute the cookie keys.                                              *)
(***************************************************************************)
SetIdentity ==
  /\ mpc = "identity"
  /\ dev' = SetStaticIdentity(dev, req.priv)
  /\ mpc' = "peers"
  /\ UNCHANGED <<req, nextBlk, pskLive, accepted, ret>>

\* The memory wg_peer_create gets: any free object (all are alike), or
\* none when the allocation fails.
NewPeer(d) ==
  {NoPeer} \cup (IF FreeIds(d) = {} THEN {} ELSE {CHOOSE o \in FreeIds(d) : TRUE})

(***************************************************************************)
(* One iteration of the WGDEVICE_A_PEERS loop: parse the block, run        *)
(* set_peer, which wipes the block's preshared key on every return path;  *)
(* a parse error or a negative return jumps to out.                        *)
(***************************************************************************)
SetPeerBlock ==
  /\ mpc = "peers"
  /\ UNCHANGED <<req, accepted>>
  /\ IF nextBlk > req.n
     THEN /\ mpc' = "out"
          /\ UNCHANGED <<dev, nextBlk, pskLive, ret>>
     ELSE \/ /\ mpc' = "out"                        \* nla_parse_nested < 0
             /\ ret' = "parse"
             /\ UNCHANGED <<dev, nextBlk, pskLive>>
          \/ \E b \in Blocks, o \in NewPeer(dev) :
               \E r \in {SetPeer(dev, b, o)} :
                   /\ dev' = r.dev
                   /\ pskLive' = pskLive \ {nextBlk}
                   /\ nextBlk' = nextBlk + 1
                   /\ mpc' = IF r.ok THEN "peers" ELSE "out"
                   /\ ret' = IF r.ok THEN ret ELSE "peer"

\* Mutant: the out: path without mutex_unlock.
SetDeviceReturnLocked ==
  /\ mpc = "out"
  /\ dev' = [dev EXCEPT !.holds = @ - 1]
  /\ mpc' = "idle"
  /\ req' = [n |-> 0, priv |-> Absent]
  /\ nextBlk' = 1
  /\ ret' = "ok"
  /\ UNCHANGED <<pskLive, accepted>>

(***************************************************************************)
(* out: unlock, dev_put of lookup_interface's reference, put_net, and wipe *)
(* the private key attribute.                                              *)
(***************************************************************************)
SetDeviceReturn ==
  /\ mpc = "out"
  /\ dev' = [dev EXCEPT !.locked = FALSE, !.holds = @ - 1]
  /\ mpc' = "idle"
  /\ req' = [n |-> 0, priv |-> Absent]
  /\ nextBlk' = 1
  /\ ret' = "ok"
  /\ UNCHANGED <<pskLive, accepted>>

=============================================================================
