SPECIFICATION FairSpec
CONSTANTS
  c1 = c1  c2 = c2  c3 = c3  home = home  cafe = cafe
  Conns = {c1,c2,c3}
  Addrs = {home, cafe}
  AddrOf <- MCTwoAddrs
  Codes = {k1}
  Rooms = {r1,r2}
  MaxRooms = 1
  MaxNetworkPeers = 2
  MaxPeersPerRoom = 1
  None = None
INVARIANTS MembersAreThere NoStrangers WithinLimits EmptyHasHandler
PROPERTIES EmptyLeaves DisconnectEnds
CHECK_DEADLOCK FALSE
