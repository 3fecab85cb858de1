SPECIFICATION Spec
CONSTANTS
  p1 = p1
  p2 = p2
  w1 = w1
  w2 = w2
  veh = veh
  alien = alien
  Vehicle = {veh}
  Room = {r1, r2, r3, r4}
  Conn = {p1, p2, w1}
  NoRoom = NoRoom
  NoVehicle = NoVehicle
  NoConn = NoConn
  MaxViewers = 1
  Sources = {p1, p2}
  Viewers = {w1}
  Access <- AccessAll
  SlowPeers = {}
  Talkers = {}
  Polled = {}
INVARIANT ViewerSeesStream
CHECK_DEADLOCK FALSE
