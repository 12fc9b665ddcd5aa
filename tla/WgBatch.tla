------------------------------- MODULE WgBatch -------------------------------
(***************************************************************************)
(* WgNetlink with one history variable for the failure semantics of a set *)
(* request: `entry`, the device configuration (the abstract roster and the *)
(* identity) as the request found it when it took the lock.  No guard     *)
(* reads it; it only lets a property compare a request's return with its  *)
(* entry.                                                                  *)
(***************************************************************************)
EXTENDS WgNetlink

VARIABLE entry

Config(d) == [roster |-> RosterOf(d), id |-> d.pub]

BatchInit == Init /\ entry = Config(dev)

\* entry is taken in the step that leaves mpc = "idle": SetDeviceStart
\* passing the checks before the lock.
BatchNext ==
  /\ Next
  /\ entry' = IF mpc = "idle" /\ mpc' # "idle" THEN Config(dev) ELSE entry

BatchSpec == BatchInit /\ [][BatchNext]_<<vars, entry>>

(***************************************************************************)
(* spec 4.1 and 7: a decode-time error of a set request (an attribute that  *)
(* violates its declared type or length) aborts the whole request before  *)
(* the lock is taken, so no state has been touched.  set_device parses     *)
(* each WGDEVICE_A_PEERS block with nla_parse_nested inside the lock,      *)
(* after REPLACE_PEERS, the private key and the blocks before it; the      *)
(* property says that a request returning that error leaves the roster     *)
(* and identity as it found them.                                          *)
(***************************************************************************)
DecodeErrorUntouched ==
  [][(mpc = "out" /\ mpc' = "idle" /\ ret = "parse") => Config(dev) = entry]_<<vars, entry>>
=============================================================================
