# TLA+ models of the WireGuard generic-netlink control plane

This directory holds TLA+ models of `src/src/netlink.c`, the kernel side of
WireGuard's configuration interface, and the TLC configurations that check
them. There is one dump command (`WG_CMD_GET_DEVICE`: start, dumpit, done)
and one set command (`WG_CMD_SET_DEVICE`).

## The system

`netlink.c` has these parts (spec.md names them as components):

| part | code | what it does |
|---|---|---|
| Device Resolver | `lookup_interface`, `get_attr_net`, `test_socket_net_capable` | finds the device and the network namespace, checks capabilities |
| Attribute Codec | the `nla_policy` tables, `nla_parse_nested` calls | decodes attributes |
| Dump Engine | `get_device_start`, `get_device_dump`, `get_device_done` | multi-message snapshot with a peer cursor (`cb->args[1]`) and an allowed-IPs cursor (`cb->args[2]`) |
| Peer Attribute Serializer | `get_peer`, `get_allowedips` | one peer per call, its allowed IPs resumable across messages |
| Mutation Engine | `set_device`, `set_socket`, `set_peer`, `set_allowedip` | applies a batch under `rtnl_lock` and `device_update_lock` |
| registration | `genl_ops`, `genl_family`, `wg_genetlink_init/uninit` | registers the handlers |

`src/src/tools/ipc.h` only declares the userspace IPC entry points.

The handlers call code that is not under `src/`: `wg_peer_create`,
`wg_peer_remove`, `wg_peer_get`/`put` (peer.c), the pubkey hashtable, the
allowed-IPs trie with its walk sequence number (allowedips.c), and the static
identity (noise.c). These are modelled from spec.md and marked
`spec_modelled` in `PROJECT.json`.

How the parts interact:
- Dump messages and set requests serialize on the device update lock.
- A dump spans many messages. Set requests run between its messages and
  change the peer list under it.
- The dump holds a reference on its cursor peer. It detects an unlinked
  cursor peer with `list_empty(&last->peer_list)`. It tells the client that
  the dump is not coherent through `cb->seq = device_update_gen` and
  `genl_dump_check_consistent`, which sets NLM_F_DUMP_INTR.
- `get_device_done` takes no lock and may run in the middle of a set
  request.
- The data path reads the identity and the peer table without the device
  lock. That is why the model splits a private-key change into its two
  halves.

## Modules

- **WgDevice**: the device as one record variable `dev`.
  - Fields: peer list, each peer object's key and kref, prefix → peer table,
    `fresh` (the dumps whose allowed-IPs cursor still matches the table seq),
    `device_update_gen`, identity, and the lock.
  - The collaborators are operators on that record: `PubkeyLookup`,
    `PeerGet`/`PeerPut`, `PeerCreate`/`CanCreate`, `PeerRemove`/`RemoveEach`,
    `RemoveByPeer`, `InsertPrefix`, `SetStaticIdentity`.
  - A handler that runs several calls under the lock is the composition of
    these operators.
- **WgResolver**: the Device Resolver. It has no variables; it is a set
  of operators from a request's inputs to their outcome.
  - `GetAttrNet`: `get_attr_net`, lines 173-182. Both namespace attributes
    give an error; none gives NULL; one gives a namespace or an error.
  - `LookupInterface`: `lookup_interface`, lines 53-74. It returns -EBADR,
    -ENODEV, or -EOPNOTSUPP after `dev_put`; otherwise it returns the
    WireGuard device with its `dev_hold` reference (`held = 1`).
  - `Resolve` composes them in the order both handlers use: namespace,
    `netlink_ns_capable`, the cursor `kzalloc` (dump only), then lookup.
    It returns whether the request goes on and the device references it
    leaves held.
- **WgDump**: the Dump Engine and the Serializer.
  - Variables: `dstate` (idle / running / finished / closed), `wgArg`
    (`cb->args[0]` and `cb->args[2]` set by `.start`), `cursorAllocs`
    (allowed-IPs cursors allocated and not yet freed), `cursor`
    (`cb->args[1]`), `rt` (`cb->args[2]`), `prevSeq` (`cb->prev_seq`), and
    `view` (what the client has received). `dev.holds` counts the device
    references the handlers hold.
  - Actions:
    - `GetDeviceStart`: `Resolve`, then either hand the device and the
      cursor to `cb->args` or free the cursor. A failed start ends the
      request, and netlink calls neither dumpit nor done for it.
    - `GetDeviceDump`: one whole message, `DumpMessage`. It covers the
      stamp, the device fields, the early exit `PeersExhausted`, the peer
      loop `DumpFill`, and the cursor reference `CursorRef` with the put
      of the old cursor. A message with room 0 cannot hold the genetlink
      header. It takes the `ret != 0` exit instead, `DumpAborted`: the old
      cursor is put, `cb->args[1]` is left as it was, and netlink ends the
      dump.
    - `GetDeviceDone`: `dev_put`, `kfree` of the cursor, and the put of
      the cursor peer.
  - `DumpFill` computes the loop in closed form. `Pending` gives each
    peer's remaining prefixes, taking the walk's seq check into account.
    The first `whole` peers fit entirely. The next one is either cancelled
    (its header does not fit) or partly emitted with its sub-cursor kept.
    `StartCursor` is the `memset` of `rt_cursor` between peers.
- **WgSet**: the Mutation Engine. Variables: `mpc` (the position inside
  `set_device`), `req`, `nextBlk` (the peer block being processed),
  `pskLive` (blocks whose preshared key is still in the buffer),
  `accepted`, and `ret`. `ret` is what `set_device` returns from `out:`:
  0, `set_socket`'s error, a `nla_parse_nested` error or `set_peer`'s
  error. Actions:
  - `SetDeviceStart`: `Resolve` before the lock. A failure keeps the
    device reference that `lookup_interface` left, if any, and returns
    through `out_nodev`/`out_nonet`. On success it does `++gen`, fwmark,
    the outcome of `set_socket`, and REPLACE_PEERS. `PskChoices` gives
    which blocks carry a preshared key. It is every subset when
    `WithPsk`, and none otherwise, since only the psk run reads them.
  - `RemoveCollider`: lines 611-618.
  - `SetIdentity`: lines 620-629.
  - `SetPeerBlock`: one iteration of the peers loop, with the whole of
    `set_peer` and its allowed-IPs loop `SetAllowedIPs`.
  - `SetDeviceReturn`: `out:`, including the `dev_put`.

  An allowed IP that `set_allowedip` rejects (wrong family, cidr or
  address length), or whose insert fails, is the model value `BadPrefix`.

  `device_update_gen` is an unsigned int. The model keeps its width as the
  constant `GenWidth` and bumps it `% 2^GenWidth`. The number of requests
  that took the lock is counted separately in `accepted`, bounded by
  `MaxGen`.
- **WgRoster**: the abstract specification of what the Mutation Engine
  promises, over two variables:
  - `roster`: each peer's public key mapped to the prefixes routed to it;
  - `id`: the device's public key.

  Its steps are `ApplyBlock(k)`, `RemovePeer(k)`, `RemoveAll` and
  `InstallIdentity(new)`:
  - `ApplyBlock(k)`: peer k ends up with some set of prefixes, taken from
    the peers that held them. Replace or add, and partial application, only
    decide which set.
  - `InstallIdentity(new)`: only when no peer has key `new`. It drops the
    peers that are unusable under it.

  `WgNetlink` instances it `WITH roster <- RosterOf(dev), id <- dev.pub`.
  `RosterRefinement` is `Roster!Spec`.
- **WgNetlink**: the composition, its fairness, and the properties.
- **WgBatch**: `WgNetlink` with one history variable, `entry`. It holds
  the roster and identity a set request found when it took the lock. No
  guard reads it. `MC_WgBatch` gives it the model values of
  `MC_WgNetlink`.
- **MC_WgNetlink**: model values. There are two peer objects and three keys:
  - `k1` is the public key of private key `a`;
  - `k3` is a low-order key;
  - `z` is a private key whose public key cannot be generated.

  There are two prefixes, so one peer's allowed IPs can span two messages.

Abstractions:
- Message size is counted in units: a peer header is 1, an allowed IP is 1.
  A message offers `MinRoom..MaxRoom` units. `MinRoom >= 2` in every run
  but tiny, because a fresh skb always holds one header and one allowed
  IP. Room 0 stands for an skb that cannot hold the genetlink header or
  the peers nest.
- The allowed-IPs seq is replaced by the set `dev.fresh`.
- Memory freed by the last put reads as one fixed key.
- The allocator gives any free object or fails.
- Ports, fwmark, endpoints, keepalive and key bytes are not modelled. No
  property reads them, but the control flow around them is kept.

## Runs

| run | cfg | expect | checks |
|---|---|---|---|
| main | `MC_WgNetlink.cfg` | pass | `TypeOK`, `RefsAccounted`, `IdentityConsistent`, `DumpIsSnapshot` |
| live | `MC_WgNetlink_live.cfg` | pass | `DumpTerminates` |
| fields | `MC_WgNetlink_fields.cfg` | violation | `DeviceFieldsOnce` |
| psk | `MC_WgNetlink_psk.cfg` | violation | `KeysWipedOnReturn` |
| roster | `MC_WgNetlink_roster.cfg` | pass | `RosterRefinement` |
| wrap | `MC_WgNetlink_wrap.cfg` | violation | `DumpIsSnapshot` |
| tiny | `MC_WgNetlink_tiny.cfg` | violation | `RefsAccounted` |
| decode | `MC_WgBatch.cfg` | violation | `DecodeErrorUntouched` |

The main run also checks `HandlerRefsAccounted`.

- **RefsAccounted**: every peer's kref equals one for list membership plus
  one per dump whose cursor points at it. It is violated by a wrong get/put
  in `get_device_dump`'s `out:`, by a missed put in `get_device_done`, or by
  an unbalanced lookup/create reference in `set_peer` or the collider
  removal.
- **HandlerRefsAccounted**: the device references the handlers hold equal
  one per started dump that is not closed, plus one while a set request
  is past `lookup_interface`. The allocated allowed-IPs cursors equal the
  started dumps that are not closed. It is violated by a failure exit
  that keeps `dev_get_*`'s reference (line 68), a failed start that does
  not free the cursor, or a done that misses `dev_put` or `kfree`. It
  covers abandoned dumps too.
- **IdentityConsistent**: under an identity, no listed peer has the
  device's own public key or a low-order key. This holds in every state
  between steps, including the state between collider removal and identity
  change.
- **DumpIsSnapshot** (action property): a dump that finishes without
  NLM_F_DUMP_INTR delivered exactly the current peers and allowed IPs, and
  each peer's first-page details exactly once.
- **DumpTerminates**: every running dump eventually stops. Removals of the
  cursor peer are included.
- **RosterRefinement**: every step is a step of `WgRoster`. That means:
  - a peer block changes one peer's prefixes, and takes them from the
    others only by handover;
  - removals and the precompute loop drop exactly the peers they should;
  - the key changes only after the collider is gone;
  - dump steps leave the roster alone.
- **wrap** violates `DumpIsSnapshot` with a 1-bit counter. After the
  counter wraps, a first message stamped 0 leaves `prev_seq = 0`, and
  `genl_dump_check_consistent` ignores `prev_seq = 0`. A set request before
  the next message then goes unflagged. With the real 32-bit counter this
  needs 2^32 accepted requests. It is a divergence from spec 3 and the glossary,
  which call the counter monotonically increasing.
- **DeviceFieldsOnce** is violated. The device fields are emitted on every
  message while `last_peer_cursor` is NULL. That includes every message of a
  first peer whose allowed IPs span messages. This is a divergence from
  spec 4.3.
- **tiny** violates **RefsAccounted** with `MinRoom = 0`. Suppose a
  message after the first cannot hold the header. `out:` puts
  `last_peer_cursor` and returns the error, but `cb->args[1]` still
  points at that peer, and `get_device_done` then puts it a second time.
  Spec 7 names this buffer case as an error, and spec 5 requires the
  cursor reference to be released exactly once. Real dump skbs are far
  larger than a header, so the path is latent.
- **decode** violates **DecodeErrorUntouched**. Spec 4.1 and 7 say decode-time
  errors abort the whole request before any state is touched or before
  the lock is taken. `set_device` parses each peer block with
  `nla_parse_nested` inside the lock (line 636). By then it has already
  applied REPLACE_PEERS, the key change and the earlier blocks. TLC
  finds a request whose first block creates a peer and whose second
  block fails to parse: it returns the decode error with the peer
  installed.
- **KeysWipedOnReturn** is violated. `set_peer` wipes only its own block's
  preshared key. Early exits and blocks after a failure keep theirs. This
  is a divergence from spec 4.5, 7 and 8.

Each property of a passing run has a mutant in `PROJECT.json`. Each one is
a plausible bug that TLC catches:

| mutant | models | property that catches it |
|---|---|---|
| `SetDeviceReturnLocked` | a missing unlock | `TypeOK` |
| `CursorRefAlways` | a reference taken also when the dump is done | `RefsAccounted` |
| `RemoveColliderSkipped` | no collider removal | `IdentityConsistent` |
| `StartCursorKept` | no `memset` of `rt_cursor` | `DumpIsSnapshot` |
| `PeersExhaustedListOnly` | no `list_empty(&last->peer_list)` test | `DumpTerminates` |
| `RemoveByPeerAny` | `remove_by_peer` not comparing the node's peer | `RosterRefinement` |
| `LookupInterfaceLeaky` | the -EOPNOTSUPP exit without `dev_put` | `HandlerRefsAccounted` |

## Bounds

- The main run: one dump, `MaxGen = 3` set requests of up to
  `MaxBlocks = 2` peer blocks with up to `MaxIPs = 1` allowed IP each, and
  rooms 2..3. That covers:
  - a peer split across messages;
  - the cursor peer removed between messages, by a remove block,
    REPLACE_PEERS, the collider, or the precompute loop;
  - a batch failing after its first block;
  - allocation failure.

  The main run also takes every resolver input for both commands. Its
  requests carry no preshared keys (`WithPsk = FALSE`). The run reaches
  1,131,634 distinct states in about a minute.
- The liveness run uses `MaxBlocks = 1`, which is enough to remove a
  cursor peer in a third request. It reaches 61,581 states.
- The decode run uses the main run's bounds with `MaxGen = 2`. Two peer
  blocks are enough for one block applied and one failing to parse. TLC
  finds the violation in 6 states.
- The tiny run uses the main run's bounds with rooms 0..3. TLC needs
  9 steps: a request creating two peers, a dump message that stops after
  the first, then an aborted message.
- The passing runs use `GenWidth = 2`, so 3 requests never wrap the
  counter. The run wrap uses `GenWidth = 1`.
- The roster run has the main run's request bounds but one room size
  (`MaxRoom = 2`). Message size does not change the roster. The run
  reaches 928,076 states in about two minutes.
- `CountCap = 2` caps how often the client saw an item. That is enough to
  tell once from twice.

## Fairness

- A client that started a dump keeps reading: `WF` on each dump's message
  step.
- A set request that holds the lock runs to its return: `WF` on its inner
  steps.
- Starting a request, starting a dump and closing a dump are the client's
  choice, so they are not fair.

## Not modelled, and the plan

Not modelled:
- The byte-level attribute codec: it is pure I/O.
- Which device a name or index resolves to: there is one device.
  A foreign link kind stands for every other device.
- `nlmsg_parse` failing in `get_device_start`: it has the same outcome as
  the other failures before the cursor allocation.
- Namespace references (`get_net`/`put_net`): every path puts the owned
  namespace at its exit (`out:` of start, `out_nodev` of set_device, and
  `set_socket`'s `out:`), and no handler state depends on it.
- `set_socket`'s port and namespace changes, beyond success or failure.
  What the change does depends on `wg_socket_init` and
  `wg_device_set_nets`. These are in socket.c and device.c, which are not
  in the repository, and spec.md leaves their effect on the stored
  configuration open. The dump's `test_socket_net_capable` only decides
  whether the listen port is emitted, and no property reads the port.
- Endpoints, keepalive and staged packets.
- The data path.
- The rest of the genl registration: `genl_family` and init/uninit hold
  no state. The ops table is modelled by the actions of `Next`.
- A build with `COMPAT_CANNOT_USE_NETLINK_START`, which drops `.start`
  (line 670): the compat header that defines it is not in the repository.
- More than one dump at a time. Each dump's cursor, view and walk freshness
  are its own, and the cursor references of several dumps add up, so a
  second dump brings no case that one dump with concurrent set requests
  does not.
- The checks inside `set_allowedip` (lines 404-417) as their own
  operator: they are a pure input filter that a unit test reaches
  directly. The model keeps their outcome, an allowed IP accepted or
  `BadPrefix`.
- `ipc.h`.
- `device_update_gen` at its real 32-bit width. The wrap is checked at
  1 bit.
- Partial states inside one peer block: the data path could see them, but
  the model applies a block as one step.

Later work:
- `set_socket` in detail, once the socket collaborators are specified.
- The allowed-IPs walk as a pure algorithm checked against a reference
  definition.
