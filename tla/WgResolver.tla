----------------------------- MODULE WgResolver -----------------------------
(***************************************************************************)
(* The device resolver both commands start with: get_attr_net (the        *)
(* namespace a request names), the CAP_NET_ADMIN check in it, and          *)
(* lookup_interface (the device by index or name).  Each is an operator    *)
(* from its inputs to its outcome and the references it leaves held; the  *)
(* handlers compose them in their order.  ifindex and ifname, and the pid *)
(* and fd namespace selectors, take alike branches, so one of each pair   *)
(* stands for both.                                                        *)
(***************************************************************************)
EXTENDS WgDevice

\* The namespace attributes of a request: none, both (pid and fd), or one
\* of them naming a namespace that does or does not exist.
NetInputs == {"none", "both", "exists", "missing"}

\* The device selector: neither or both of ifindex/ifname, or one of them
\* naming no device, a device of another kind, or a WireGuard device.
DevInputs == {"badsel", "nodev", "other", "wg"}

\* get_attr_net: ERR_PTR(-EINVAL) for both attributes, NULL for none, else
\* get_net_ns_by_pid/fd, which fails or returns a counted reference.
GetAttrNet(in) ==
  CASE in = "both"    -> "error"
    [] in = "none"    -> "none"
    [] in = "exists"  -> "owned"
    [] in = "missing" -> "error"

\* Mutant: the -EOPNOTSUPP path returns without dev_put.
LookupInterfaceLeaky(in) ==
  CASE in = "badsel" -> [ok |-> FALSE, held |-> 0]
    [] in = "nodev"  -> [ok |-> FALSE, held |-> 0]
    [] in = "other"  -> [ok |-> FALSE, held |-> 1]
    [] in = "wg"     -> [ok |-> TRUE,  held |-> 1]

\* lookup_interface: -EBADR unless exactly one selector, -ENODEV when
\* dev_get_by_index/name finds nothing, -EOPNOTSUPP (after dev_put of the
\* reference dev_get_* took) when the link kind is not WireGuard; else the
\* device, with that reference held.
LookupInterface(in) ==
  CASE in = "badsel" -> [ok |-> FALSE, held |-> 0]
    [] in = "nodev"  -> [ok |-> FALSE, held |-> 0]
    [] in = "other"  -> [ok |-> FALSE, held |-> 0]
    [] in = "wg"     -> [ok |-> TRUE,  held |-> 1]

\* The resolution both handlers run before touching the device: get_attr_net
\* of WGDEVICE_A_DEV_NETNS_*, netlink_ns_capable in that namespace, then
\* (get_device_start only) the cursor kzalloc, then lookup_interface.  The
\* namespace reference an owned namespace carries is put at the handler's
\* exit; the device reference lookup_interface leaves is `held`.
Resolve(net, capable, alloc, devIn) ==
  LET before == GetAttrNet(net) # "error" /\ capable /\ alloc
      l      == LookupInterface(devIn)
  IN  [ok |-> before /\ l.ok, held |-> IF before THEN l.held ELSE 0]
=============================================================================
