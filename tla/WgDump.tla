------------------------------- MODULE WgDump -------------------------------
(***************************************************************************)
(* The dump engine of WG_CMD_GET_DEVICE: get_device_start,                 *)
(* get_device_dump (one action per message it produces, the loop over     *)
(* get_peer and the allowed-IPs walk included) and get_device_done.        *)
(*                                                                         *)
(* Message size is abstracted to units of room: a peer header (public key, *)
(* on its first page also preshared key, handshake time, keepalive,        *)
(* counters, version and endpoint, then the allowed-IPs nest) takes one    *)
(* unit, every allowed IP one unit.  Each message offers between MinRoom   *)
(* and MaxRoom units; MinRoom >= 2 stands for the fact that a fresh skb    *)
(* always holds one peer header and at least one allowed IP.  Room 0 is a  *)
(* message that cannot hold even the genetlink header and the peers nest.  *)
(***************************************************************************)
EXTENDS WgResolver

CONSTANTS
  Dumps,     \* concurrent netlink dump callbacks (struct netlink_callback)
  MinRoom,   \* the least room a message offers
  MaxRoom,   \* the most room a message offers
  CountCap   \* counts of what a client saw are capped here

ASSUME /\ MinRoom \in Nat /\ MaxRoom >= MinRoom /\ MaxRoom >= 1
       /\ CountCap \in Nat /\ CountCap >= 2

VARIABLES
  dstate,   \* "idle" | "running" | "finished" (dumpit returned 0) | "closed"
  wgArg,    \* cb->args[0] and cb->args[2] are set by get_device_start
  cursorAllocs, \* allowedips_cursor objects kzalloc'd and not yet kfree'd
  cursor,   \* cb->args[1]: the last peer fully emitted, holding a reference
  rt,       \* cb->args[2]: the allowed-IPs cursor; started = (seq # 0)
  prevSeq,  \* cb->prev_seq, kept by genl_dump_check_consistent
  view      \* what the client received: NLM_F_DUMP_INTR seen, device-field
            \* pages, peers, per-peer first-page details, allowed IPs

dumpVars == <<dstate, wgArg, cursorAllocs, cursor, rt, prevSeq, view>>

ZeroCursor == [started |-> FALSE, pos |-> 0]

EmptyView ==
  [intr |-> FALSE, devPages |-> 0, peers |-> {},
   details |-> [k \in PeerKeys |-> 0], ips |-> {}]

DumpInit ==
  /\ dstate  = [x \in Dumps |-> "idle"]
  /\ wgArg   = [x \in Dumps |-> FALSE]
  /\ cursorAllocs = 0
  /\ cursor  = [x \in Dumps |-> NoPeer]
  /\ rt      = [x \in Dumps |-> ZeroCursor]
  /\ prevSeq = [x \in Dumps |-> 0]
  /\ view    = [x \in Dumps |-> EmptyView]

Least(a, b) == IF a < b THEN a ELSE b
Capped(n) == Least(n + 1, CountCap)

(***************************************************************************)
(* The dump request as netlink runs it (__netlink_dump_start): the .start *)
(* callback genl_ops registers, then at once the first dumpit.            *)
(* get_device_start: attribute parsing, netns and capability checks, the   *)
(* cursor allocation and lookup_interface; on success cb->args[0] and     *)
(* cb->args[2] are set, on failure the request ends before a dump exists  *)
(* (netlink then calls neither dumpit nor done).                           *)
(***************************************************************************)
GetDeviceStart(x) ==
  /\ dstate[x] = "idle"
  /\ \E net \in NetInputs, capable \in BOOLEAN, alloc \in BOOLEAN,
        devIn \in DevInputs :
       LET r  == Resolve(net, capable, alloc, devIn)
       IN  /\ dstate' = [dstate EXCEPT ![x] = IF r.ok THEN "running" ELSE "closed"]
           /\ wgArg'  = [wgArg EXCEPT ![x] = r.ok]
           \* the cursor is kfree'd at out: unless it was handed to cb->args[2]
           /\ cursorAllocs' = IF r.ok THEN cursorAllocs + 1 ELSE cursorAllocs
           /\ dev' = [dev EXCEPT !.holds = @ + r.held]
  /\ UNCHANGED <<cursor, rt, prevSeq, view>>

(***************************************************************************)
(* list_for_each_entry_continue from `last`: the peers after it, or the   *)
(* whole list when the cursor is NULL.  An entry taken off the list by     *)
(* list_del_init points at itself, so continuing from it visits it again  *)
(* and again (as many times as any message can hold).                      *)
(***************************************************************************)
PeersAfter(last) ==
  IF last = NoPeer THEN dev.list
  ELSE IF last \in Listed(dev)
       THEN LET i == CHOOSE j \in DOMAIN dev.list : dev.list[j] = last
            IN  SubSeq(dev.list, i + 1, Len(dev.list))
       ELSE [j \in 1..(MaxRoom + 1) |-> last]

\* Mutant: the early exit without the list_empty(&last->peer_list) test.
PeersExhaustedListOnly(last) == dev.list = <<>>

\* The early exit of get_device_dump: no peers, or the cursor peer was
\* unlinked by peer_remove since the last message.
PeersExhausted(last) ==
  \/ dev.list = <<>>
  \/ last # NoPeer /\ last \notin Listed(dev)

\* Mutant: get_peer without the memset of rt_cursor after a complete peer.
StartCursorKept(i, c) == c

\* The allowed-IPs cursor get_peer is called with for the i-th peer of a
\* message: the dump's cursor for the first, and for every later one the
\* cursor as the previous successful get_peer left it (memset to zero).
StartCursor(i, c) == IF i = 1 THEN c ELSE ZeroCursor

(***************************************************************************)
(* wg_allowedips_walk_by_peer for dump x: the prefixes the walk still has  *)
(* to emit for each peer of `todo`.  A walk that starts records the table  *)
(* seq; a resumed walk whose seq no longer matches the table              *)
(* (x \notin dev.fresh) returns 0 at once, as if the peer were complete.   *)
(***************************************************************************)
Pending(x, todo, c) ==
  [i \in DOMAIN todo |->
     LET ci  == StartCursor(i, c)
         all == PrefixesOf(dev, todo[i])
     IN  IF ~ci.started \/ x \in dev.fresh
         THEN SubSeq(all, ci.pos + 1, Len(all)) ELSE <<>>]

(***************************************************************************)
(* The peers part of one message of dump x offering `room` units: the loop *)
(* of get_device_dump calling get_peer on each peer of `todo` until one    *)
(* fails.  The first `whole` peers fit with all their pending prefixes     *)
(* (each becomes next_peer_cursor, and get_peer zeroes the allowed-IPs     *)
(* cursor).  The peer after them fails: if not even its header fits it is  *)
(* cancelled and the cursor is left as it was; otherwise its header (with  *)
(* first-page details when its cursor is unstarted) and as many prefixes   *)
(* as fit stay in the message, and the walk's cursor keeps its position.   *)
(***************************************************************************)
DumpFill(x, room) ==
  LET todo  == IF PeersExhausted(cursor[x]) THEN <<>> ELSE PeersAfter(cursor[x])
      c     == rt[x]
      rem   == Pending(x, todo, c)
      n     == Len(todo)
      \* room taken by the first k peers emitted whole
      Used(k) == k + Cardinality(UNION {{i} \X DOMAIN rem[i] : i \in 1..k})
      whole == CHOOSE k \in 0..n : Used(k) <= room /\ (k = n \/ Used(k + 1) > room)
      left  == room - Used(whole)
      done  == whole = n
      heads == IF ~done /\ left >= 1 THEN whole + 1 ELSE whole
      Shown(i) == IF i <= whole THEN Len(rem[i]) ELSE left - 1
      key(i)   == dev.key[todo[i]]
  IN  [done    |-> done,
       next    |-> IF whole = 0 THEN cursor[x] ELSE todo[whole],
       rt      |-> CASE done /\ n = 0    -> c
                     [] done             -> ZeroCursor
                     [] heads = whole    -> StartCursor(whole + 1, c)
                     [] OTHER            ->
                          [started |-> TRUE,
                           pos |-> StartCursor(whole + 1, c).pos + left - 1],
       peers   |-> {key(i) : i \in 1..heads},
       details |-> {key(i) : i \in {j \in 1..heads : ~StartCursor(j, c).started}},
       ips     |-> UNION {{<<key(i), rem[i][j]>> : j \in 1..Shown(i)} : i \in 1..heads}]

\* Mutant: the reference is taken whenever there is a next peer.
CursorRefAlways(d, f) == IF f.next # NoPeer THEN PeerGet(d, f.next) ELSE d

\* out: of get_device_dump: the reference that keeps next_peer_cursor alive
\* until the next message is taken only when the dump is not done.
CursorRef(d, f) == IF ~f.done /\ f.next # NoPeer THEN PeerGet(d, f.next) ELSE d

(***************************************************************************)
(* get_device_dump with ret != 0: genlmsg_put (or, on a later message,     *)
(* nla_nest_start of the peers) fails.  out: skips the reference on a next *)
(* cursor but still puts last_peer_cursor; cb->args[1] is left pointing at *)
(* it; the message is cancelled and the negative return makes netlink end  *)
(* the dump (NLMSG_DONE with the error), after which it calls done.        *)
(***************************************************************************)
DumpAborted(x) ==
  /\ dev'    = PeerPut(dev, cursor[x])
  /\ dstate' = [dstate EXCEPT ![x] = "finished"]
  /\ UNCHANGED <<wgArg, cursorAllocs, cursor, rt, prevSeq, view>>

(***************************************************************************)
(* get_device_dump: one message, under rtnl and the device update lock.    *)
(***************************************************************************)
DumpMessage(x, room) ==
  /\ \E f \in {DumpFill(x, room)} :
       LET last  == cursor[x]
           stamp == dev.gen
           held  == CursorRef(dev, f)
           \* a cursor left started is one whose walk matched the table
           walks == [held EXCEPT !.fresh = IF f.rt.started THEN @ \cup {x}
                                           ELSE @ \ {x}]
           v     == view[x]
       IN
       /\ dev'     = PeerPut(walks, last)
       /\ cursor'  = [cursor EXCEPT ![x] = IF f.done THEN NoPeer ELSE f.next]
       /\ rt'      = [rt EXCEPT ![x] = f.rt]
       /\ dstate'  = [dstate EXCEPT ![x] = IF f.done THEN "finished" ELSE "running"]
       /\ prevSeq' = [prevSeq EXCEPT ![x] = stamp]
       /\ UNCHANGED <<wgArg, cursorAllocs>>
       /\ view'    = [view EXCEPT ![x] =
           [intr     |-> v.intr \/ (prevSeq[x] # 0 /\ stamp # prevSeq[x]),
            devPages |-> IF last = NoPeer THEN Capped(v.devPages) ELSE v.devPages,
            peers    |-> v.peers \cup f.peers,
            details  |-> [k \in PeerKeys |->
                            IF k \in f.details THEN Capped(v.details[k])
                            ELSE v.details[k]],
            ips      |-> v.ips \cup f.ips]]

GetDeviceDump(x, room) ==
  /\ dstate[x] = "running"
  /\ ~dev.locked
  /\ IF room = 0 THEN DumpAborted(x) ELSE DumpMessage(x, room)

(***************************************************************************)
(* get_device_done: called once, when the dump finished or when the client *)
(* closed the socket while it was running.  It does not take the device   *)
(* lock: it drops the device reference (if cb->args[0] is set), frees the *)
(* allowed-IPs cursor (kfree(NULL) when start never ran) and drops the    *)
(* cursor peer's reference.                                                *)
(***************************************************************************)
GetDeviceDone(x) ==
  /\ dstate[x] \in {"running", "finished"}
  /\ dev'    = PeerPut([dev EXCEPT !.fresh = @ \ {x},
                                  !.holds = IF wgArg[x] THEN @ - 1 ELSE @], cursor[x])
  /\ cursorAllocs' = IF wgArg[x] THEN cursorAllocs - 1 ELSE cursorAllocs
  /\ dstate' = [dstate EXCEPT ![x] = "closed"]
  /\ cursor' = [cursor EXCEPT ![x] = NoPeer]
  /\ rt'     = [rt EXCEPT ![x] = ZeroCursor]
  /\ UNCHANGED <<wgArg, prevSeq, view>>

=============================================================================
