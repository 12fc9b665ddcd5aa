----------------------------- MODULE WgNetlink ------------------------------
(***************************************************************************)
(* The WireGuard generic-netlink control plane of one device: dump         *)
(* requests (WgDump) and set requests (WgSet) running against the shared   *)
(* device state (WgDevice).  Dump messages and set requests serialize on   *)
(* the device update lock; a dump spans many messages, so set requests     *)
(* interleave with it between messages.  get_device_done runs without the  *)
(* lock and may interleave with the steps of a set request.                *)
(***************************************************************************)
EXTENDS WgDump, WgSet

vars == <<dev, dumpVars, setVars>>

Init == DevInit /\ DumpInit /\ SetInit

\* The steps of each component, leaving the other's variables alone.
DumpStep(x) ==
  \E room \in MinRoom..MaxRoom : GetDeviceDump(x, room) /\ UNCHANGED setVars
SetStep(A) == A /\ UNCHANGED dumpVars

Next ==
  \/ \E x \in Dumps : GetDeviceStart(x) /\ UNCHANGED setVars
  \/ \E x \in Dumps : DumpStep(x)
  \/ \E x \in Dumps : GetDeviceDone(x) /\ UNCHANGED setVars
  \/ SetStep(SetDeviceStart)
  \/ SetStep(RemoveCollider)
  \/ SetStep(SetIdentity)
  \/ SetStep(SetPeerBlock)
  \/ SetStep(SetDeviceReturn)

(***************************************************************************)
(* Fairness: a client that started a dump keeps reading until the dump     *)
(* ends (or closes it), so every message netlink can produce is produced;  *)
(* a set request that holds the lock runs to its return.  Starting a       *)
(* request and closing a dump are the client's choice and are not fair.    *)
(***************************************************************************)
Fairness ==
  /\ \A x \in Dumps : WF_vars(DumpStep(x))
  /\ WF_vars(SetStep(RemoveCollider))
  /\ WF_vars(SetStep(SetIdentity))
  /\ WF_vars(SetStep(SetPeerBlock))
  /\ WF_vars(SetStep(SetDeviceReturn))

Spec == Init /\ [][Next]_vars /\ Fairness

-----------------------------------------------------------------------------
TypeOK ==
  /\ dev.list \in Seq(PeerIds)
  /\ dev.key \in [PeerIds -> PeerKeys]
  /\ dev.refs \in [PeerIds -> Nat]
  /\ dev.aips \in [Prefixes -> PeerIds \cup {NoPeer}]
  /\ dev.gen \in 0..(2^GenWidth - 1) /\ accepted \in 0..MaxGen
  /\ dev.hasId \in BOOLEAN /\ dev.pub \in PeerKeys \cup {NoKey}
  /\ dev.locked = (mpc \in {"key", "identity", "peers", "out"})
  /\ dstate \in [Dumps -> {"idle", "running", "finished", "closed"}]
  /\ wgArg \in [Dumps -> BOOLEAN]
  /\ dev.holds \in Nat /\ cursorAllocs \in Nat
  /\ cursor \in [Dumps -> PeerIds \cup {NoPeer}]
  /\ rt \in [Dumps -> [started : BOOLEAN, pos : Nat]]
  /\ dev.fresh \subseteq Dumps
  /\ mpc \in {"idle", "key", "identity", "peers", "out"}
  /\ nextBlk \in 1..(MaxBlocks + 1)
  /\ pskLive \subseteq 1..MaxBlocks
  /\ ret \in {"ok", "socket", "parse", "peer"}

(***************************************************************************)
(* Peer reference counting across dump messages: every peer object's kref *)
(* equals the references that really exist between steps, one for being    *)
(* on wg->peer_list and one per dump whose cb->args[1] points at it.  It   *)
(* fails if get_device_dump takes or drops the cursor reference on the     *)
(* wrong path, if get_device_done misses it, or if set_peer's lookup and   *)
(* create references are not balanced: too few is a use after free of the *)
(* cursor peer, too many a leaked peer.                                    *)
(***************************************************************************)
RefsAccounted ==
  \A o \in PeerIds :
    dev.refs[o] = (IF o \in Listed(dev) THEN 1 ELSE 0)
                  + Cardinality({x \in Dumps : cursor[x] = o})

(***************************************************************************)
(* The references and allocations the netlink handlers keep across calls *)
(* balance on every path: the net_device reference lookup_interface took  *)
(* is held exactly by the dumps that get_device_start set up and that are *)
(* not yet done, and by a set request between its lookup and out:; one    *)
(* allowedips_cursor is allocated per such dump.  It fails if an error    *)
(* path of lookup_interface or get_device_start keeps a reference or the *)
(* cursor, if get_device_done misses its dev_put or kfree, or if          *)
(* set_device's out: misses the dev_put.                                  *)
(***************************************************************************)
HandlerRefsAccounted ==
  LET setUp == {x \in Dumps : wgArg[x] /\ dstate[x] # "closed"}
  IN  /\ dev.holds = Cardinality(setUp) + (IF mpc = "idle" THEN 0 ELSE 1)
      /\ cursorAllocs = Cardinality(setUp)

(***************************************************************************)
(* No listed peer is unusable under the device identity, in any state the  *)
(* data path can observe: none carries the device's own public key, and    *)
(* none has a low-order key once there is an identity.  It depends on      *)
(* set_device removing the colliding peer before installing the key, on    *)
(* the precompute loop removing failing peers, and on set_peer's self-key  *)
(* check.                                                                  *)
(***************************************************************************)
IdentityConsistent ==
  dev.hasId => \A o \in Listed(dev) : dev.key[o] # dev.pub
                                      /\ dev.key[o] \notin LowOrder

(***************************************************************************)
(* A dump that completes without the client seeing NLM_F_DUMP_INTR          *)
(* returned exactly the device's peers and allowed IPs, each peer's        *)
(* first-page details exactly once, however the peers and their allowed   *)
(* IPs were split across messages (spec 8: pagination transparency; a     *)
(* removal of the cursor peer must be flagged).                            *)
(***************************************************************************)
Coherent(x) ==
  /\ view[x].peers = {dev.key[o] : o \in Listed(dev)}
  /\ view[x].ips = {<<dev.key[dev.aips[p]], p>> :
                      p \in {q \in Prefixes : dev.aips[q] # NoPeer}}
  /\ \A k \in view[x].peers : view[x].details[k] = 1

DumpIsSnapshot ==
  [][\A x \in Dumps :
       (dstate[x] = "running" /\ dstate'[x] = "finished" /\ ~view'[x].intr)
         => Coherent(x)']_vars

(***************************************************************************)
(* Every dump that is running eventually stops: the client either reads   *)
(* to the end or closes it; the engine never loops on the same peer.       *)
(***************************************************************************)
DumpTerminates ==
  \A x \in Dumps : dstate[x] = "running" ~> dstate[x] # "running"

(***************************************************************************)
(* The device configuration as the abstract roster of WgRoster: the keys  *)
(* of the listed peers, each with the prefixes the allowed-IPs table       *)
(* routes to it, and the identity's public key.                           *)
(***************************************************************************)
RosterOf(d) ==
  [k \in {d.key[o] : o \in Listed(d)} |->
     {p \in Prefixes : d.aips[p] # NoPeer /\ d.key[d.aips[p]] = k}]

Roster == INSTANCE WgRoster WITH roster <- RosterOf(dev), id <- dev.pub

(***************************************************************************)
(* set_device, with everything that runs between its steps, implements    *)
(* the abstract roster: every step the data path can observe is one whole *)
(* peer block of set_peer (possibly partly applied), one removal, the      *)
(* REPLACE_PEERS flush, or an identity change made only after the peer    *)
(* with the new public key is gone; dump messages and get_device_done     *)
(* change nothing of it.  It fails if a block touches a second peer's     *)
(* prefixes other than by handover, if a removal or the precompute loop   *)
(* drops the wrong peers, or if the key changes before the collider goes.  *)
(***************************************************************************)
RosterRefinement == Roster!Spec

(***************************************************************************)
(* spec 4.3: the device-level fields (listen port, fwmark, ifindex, name,  *)
(* keys) are emitted once per dump, on its first message.                  *)
(***************************************************************************)
DeviceFieldsOnce == \A x \in Dumps : view[x].devPages <= 1

(***************************************************************************)
(* spec 4.5 and 7: every buffer holding preshared-key bytes of a set      *)
(* request is wiped before set_device returns, on every exit path.        *)
(***************************************************************************)
KeysWipedOnReturn == mpc = "idle" => pskLive = {}
=============================================================================
