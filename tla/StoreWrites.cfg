SPECIFICATION FairSpec
CONSTANTS
  Request = {q1, q2, q3}
  Nobody = Nobody
  User = {u1, u2}
  NoUser = NoUser
  MaxVehicle = 3
  Kinds = {"login", "logout", "create", "alert", "edit", "remove", "delete_member"}
INVARIANTS TypeOK LogoutIsFinal CommittedStays CreatedOnce SessionsHaveUsers CountedWasNotified
PROPERTIES RequestsEnd ChangesAreAtomic
CHECK_DEADLOCK FALSE
