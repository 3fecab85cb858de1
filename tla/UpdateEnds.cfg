SPECIFICATION FairSpec
CONSTANTS
  Request = {q1, q2}
  Nobody = Nobody
  User = {u1}
  NoUser = NoUser
  MaxVehicle = 1
  Kinds = {"login", "edit"}
PROPERTIES UpdateEnds
CHECK_DEADLOCK FALSE
