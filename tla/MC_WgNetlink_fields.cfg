CONSTANTS
  o1 = o1  o2 = o2  k1 = k1  k2 = k2  k3 = k3  a = a  z = z
  p1 = p1  p2 = p2  x1 = x1  x2 = x2
  NoPeer = NoPeer  NoKey = NoKey  BadPrefix = BadPrefix  Absent = Absent
  PeerIds <- MCPeerIds
  PeerKeys <- MCPeerKeys
  PrivKeys <- MCPrivKeys
  PubOf <- MCPubOf
  LowOrder <- MCLowOrder
  PrefixSeq <- MCPrefixSeq
  Dumps <- MCDumps1
  MinRoom = 2
  MaxRoom = 3
  CountCap = 2
  WithPsk = FALSE
  MaxGen = 3
  GenWidth = 2
  MaxBlocks = 1
  MaxIPs = 2
SPECIFICATION Spec
INVARIANT DeviceFieldsOnce
