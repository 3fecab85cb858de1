SPECIFICATION Spec
CONSTANTS
  Request = {q1, q2, q3}
  Nobody = Nobody
  User = {u1, u2}
  NoUser = NoUser
  MaxVehicle = 1
  Kinds = {"login", "delete_member"}
INVARIANTS DeletionCascades
SYMMETRY Symmetry
CHECK_DEADLOCK FALSE
