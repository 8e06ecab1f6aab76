CONSTANTS
  zero = zero  p = p  q = q  m = m  n = n
  t1 = t1  t2 = t2  other = other
  Addr <- MCAddr
  NoAddr = zero
  TblSize = 2
  Home <- MCHome
  Task <- MCTask
  Ip <- MCIp
  Mac <- MCMac
  Peer <- MCPeer
  HighBit <- MCHighBit
  NumTd = 2
  Other = other
  Careful = TRUE
SPECIFICATION FairSpec
INVARIANTS TablesConsistent NoDiscoveryInHandler PacketReady
INVARIANT LockHasHolder
PROPERTIES PeersAreKept NewcomerIgnored SendEnds
