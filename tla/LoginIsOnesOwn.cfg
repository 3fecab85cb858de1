SPECIFICATION Spec
CONSTANTS
  Request = {q1, q2, q3}
  OldToken = t0
  SeedAdmin = s1
  SeedOwner = s2
  Email = {e1, e2, e3}
  NoEmail = NoEmail
  NotYet = NotYet
  Over = Over
  Role = {"admin", "fleet_owner"}
  Kinds = {"login", "create_account", "delete_member"}
  MaxUser = 4
  MaxDevice = 1
  MaxDriver = 1
  MaxVehicle = 2
INVARIANT LoginIsOnesOwn
SYMMETRY Symmetry
CHECK_DEADLOCK FALSE
