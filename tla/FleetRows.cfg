SPECIFICATION Spec
CONSTANTS
  Request = {q1, q2}
  OldToken = t0
  SeedAdmin = s1
  SeedOwner = s2
  Email = {e1, e2, e3}
  NoEmail = NoEmail
  NotYet = NotYet
  Over = Over
  Role = {"admin", "fleet_owner"}
  Kinds = {"signup", "login", "logout", "create_account", "edit_self", "edit_member", "delete_member", "edit_fleet", "delete_fleet", "save_prefs", "create_driver", "create_device", "create_batch", "link_device", "assign_install", "install_vehicle", "create_vehicle", "assign_device", "change_device", "change_driver", "change_face", "change_vehicle"}
  MaxUser = 4
  MaxDevice = 4
  MaxDriver = 3
  MaxVehicle = 4
INVARIANTS TypeOK DeviceKept SessionIsOnesOwn
PROPERTIES KeepsAccounts SettingsNotInherited
SYMMETRY Symmetry
CHECK_DEADLOCK FALSE
