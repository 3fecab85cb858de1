SPECIFICATION FairSpec
CONSTANTS
  p1 = p1
  p2 = p2
  w1 = w1
  w2 = w2
  veh = veh
  alien = alien
  Vehicle = {veh}
  Room = {r1, r2, r3, r4}
  Conn = {p1, w1, w2}
  NoRoom = NoRoom
  NoVehicle = NoVehicle
  NoConn = NoConn
  MaxViewers = 1
  Sources = {p1}
  Viewers = {w1, w2}
  Access <- AccessAll
  SlowPeers = {w2}
  Talkers = {}
  Polled = {}
PROPERTIES ViewerEventuallyTold CleanupReturns LimitKept
CHECK_DEADLOCK FALSE
